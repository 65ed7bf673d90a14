------------------------- MODULE WebhookDeliveryProofs -------------------------
(***************************************************************************)
(* What holds of the webhook queue for every number of rows, writers,      *)
(* workers and operators, every batch size and attempt limit, and every    *)
(* choice of faults.                                                       *)
(*                                                                         *)
(* The inductive invariant is built in layers, each proved from the ones   *)
(* below it: types; the advisory lock is held exactly by the drainer that  *)
(* is draining; the batch of a drainer; its ORM copies are fresh; what is  *)
(* booked was accepted.  The refinement of DeliveryLedger uses all of it.  *)
(* Wake-ups, last, are covered where one process drains whole backlogs.    *)
(***************************************************************************)
EXTENDS WebhookDelivery, FiniteSetTheorems, TLAPS

\* The rows a step writes are rows: new ones, deleted ones, and the outcomes of
\* a POST.
LEMMA RowTypes ==
  /\ UnusedRow \in DeliveryType
  /\ NewRow \in DeliveryType
  /\ GoneRow \in DeliveryType
  /\ \A row \in DeliveryType, answer \in Replies : Outcome(row, answer) \in DeliveryType
  /\ \A row \in DeliveryType, v \in RetryAt : [row EXCEPT !.retry = v] \in DeliveryType
<1>1. UnusedRow \in DeliveryType /\ NewRow \in DeliveryType /\ GoneRow \in DeliveryType
  BY ConstantsAssumption DEF UnusedRow, NewRow, GoneRow, DeliveryType, RowState, RetryAt
<1>2. ASSUME NEW row \in DeliveryType, NEW answer \in Replies
      PROVE  Outcome(row, answer) \in DeliveryType
  BY ConstantsAssumption DEF DeliveryType, RowState, RetryAt, Outcome, Bump
<1>3. ASSUME NEW row \in DeliveryType, NEW v \in RetryAt
      PROVE  [row EXCEPT !.retry = v] \in DeliveryType
  BY DEF DeliveryType
<1> QED
  BY <1>1, <1>2, <1>3

-------------------------------------------------------------------------------
(* Layer 1: types. *)

\* Every reachable state is type-correct, whatever the constants: an attempt
\* counter stays in range, a job slot is in exactly one place of the drain.
THEOREM TypeCorrect == Spec => []TypeOK
<1>1. Init => TypeOK
  <2>1. UnusedRow \in DeliveryType
    BY RowTypes
  <2>2. "idle" \in PCs /\ "ok" \in Replies
    BY DEF PCs, Replies
  <2>3. [r \in Rows |-> UnusedRow] \in [Rows -> DeliveryType]
    BY <2>1
  <2>4. [p \in Drainers |-> [r \in Rows |-> UnusedRow]] \in [Drainers -> [Rows -> DeliveryType]]
    BY <2>3
  <2> SUFFICES ASSUME Init PROVE TypeOK
    OBVIOUS
  <2>5. rows \in [Rows -> DeliveryType] /\ snap \in [Drainers -> [Rows -> DeliveryType]]
    BY <2>3, <2>4, Zenon DEF Init
  <2>6. pc \in [Drainers -> PCs] /\ reply \in [Drainers -> Replies]
    BY <2>2 DEF Init
  <2>7. /\ retryJob \in [Rows -> {"none", "later", "todo"}]
        /\ todo \in [Drainers -> SUBSET Rows]
        /\ cur \in [Drainers -> Rows \cup {None}]
    BY DEF Init
  <2> QED
    BY <2>5, <2>6, <2>7 DEF Init, TypeOK
<1>2. TypeOK /\ [Next]_vars => TypeOK'
  <2> SUFFICES ASSUME TypeOK, [Next]_vars PROVE TypeOK'
    OBVIOUS
  <2>1. ASSUME NEW w \in Writers, WriterStep(w) PROVE TypeOK'
    BY <2>1, RowTypes DEF TypeOK, WriterStep, CommitRows, InsertRows, NotifyWorker,
                NotifyLost, queueVars, drainVars
  <2>2. ASSUME NEW k \in Workers, WorkerPicks(k) PROVE TypeOK'
    BY <2>2 DEF TypeOK, WorkerPicks, PickDue, PickRetry, Goto, PCs, Drainers
  <2>3. ASSUME NEW o \in Operators, Trigger(o) PROVE TypeOK'
    BY <2>3 DEF TypeOK, Trigger, Goto, PCs, Drainers, queueVars
  <2>4. ASSUME NEW p \in Drainers, TryLock(p) PROVE TypeOK'
    BY <2>4 DEF TypeOK, TryLock, Goto, PCs, queueVars
  <2>5. ASSUME NEW p \in Drainers, SelectBatch(p) PROVE TypeOK'
    <3>1. pc' \in [Drainers -> PCs]
      BY <2>5 DEF TypeOK, SelectBatch, Goto, PCs
    <3>2. todo' \in [Drainers -> SUBSET Rows] /\ snap' \in [Drainers -> [Rows -> DeliveryType]]
      <4>1. CASE UNCHANGED <<todo, snap>>
        BY <4>1 DEF TypeOK
      <4>2. CASE ~ UNCHANGED <<todo, snap>>
        <5>1. PICK B \in SUBSET Rows :
                /\ todo' = [todo EXCEPT ![p] = B]
                /\ snap' = [snap EXCEPT ![p] =
                              [r \in Rows |-> IF r \in B THEN rows[r] ELSE UnusedRow]]
          BY <2>5, <4>2 DEF SelectBatch, Batches
        <5>2. [r \in Rows |-> IF r \in B THEN rows[r] ELSE UnusedRow] \in [Rows -> DeliveryType]
          BY RowTypes DEF TypeOK
        <5> QED
          BY <5>1, <5>2 DEF TypeOK
      <4> QED
        BY <4>1, <4>2
    <3> QED
      BY <2>5, <3>1, <3>2 DEF TypeOK, SelectBatch, queueVars
  <2>6. ASSUME NEW p \in Drainers, NEW r \in Rows, NEW answer \in Replies,
               NEW processed \in BOOLEAN, Post(p, r, answer, processed)
        PROVE  TypeOK'
    BY <2>6 DEF TypeOK, Post, Goto, PCs, queueVars
  <2>7. ASSUME NEW p \in Drainers, Record(p) PROVE TypeOK'
    <3>1. pc' \in [Drainers -> PCs]
      BY <2>7 DEF TypeOK, Record, AfterRow, Goto, PCs
    <3>2. rows' \in [Rows -> DeliveryType]
      <4>1. CASE UNCHANGED rows
        BY <4>1 DEF TypeOK
      <4>2. CASE rows' = [rows EXCEPT ![cur[p]] = Outcome(snap[p][cur[p]], reply[p])]
        <5>1. CASE cur[p] \in Rows
          BY <4>2, <5>1, RowTypes DEF TypeOK
        <5>2. CASE cur[p] \notin Rows
          BY <4>2, <5>2 DEF TypeOK
        <5> QED
          BY <5>1, <5>2
      <4> QED
        BY <2>7, <4>1, <4>2 DEF Record
    <3>3. todo' \in [Drainers -> SUBSET Rows] /\ cur' \in [Drainers -> Rows \cup {None}]
      BY <2>7 DEF TypeOK, Record
    <3> QED
      BY <2>7, <3>1, <3>2, <3>3 DEF TypeOK, Record, queueVars
  <2>8. ASSUME NEW p \in Drainers, DeferRetry(p) PROVE TypeOK'
    BY <2>8 DEF TypeOK, DeferRetry, AfterRow, Goto, PCs
  <2>9. ASSUME NEW p \in Drainers, Unlock(p) PROVE TypeOK'
    BY <2>9, RowTypes DEF TypeOK, Unlock, Forget, PCs, Replies, queueVars
  <2>10. ASSUME NEW p \in Drainers, Crash(p) PROVE TypeOK'
    BY <2>10, RowTypes DEF TypeOK, Crash, Forget, PCs, Replies, queueVars
  <2>11. ASSUME NEW r \in Rows, Tick(r) PROVE TypeOK'
    <3>1. rows' \in [Rows -> DeliveryType]
      <4>1. PICK v \in RetryAt : rows' = [rows EXCEPT ![r] = [rows[r] EXCEPT !.retry = v]]
        <5>1. rows[r].retry \in RetryAt
          BY DEF TypeOK, DeliveryType
        <5> QED
          BY <2>11, <5>1 DEF Tick, RetryAt
      <4>2. [rows[r] EXCEPT !.retry = v] \in DeliveryType
        <5>1. rows[r] \in DeliveryType
          BY DEF TypeOK
        <5> QED
          BY <5>1, RowTypes
      <4> QED
        BY <4>1, <4>2 DEF TypeOK
    <3>2. retryJob' \in [Rows -> {"none", "later", "todo"}]
      BY <2>11 DEF TypeOK, Tick
    <3> QED
      BY <2>11, <3>1, <3>2 DEF TypeOK, Tick, drainVars
  <2>12. ASSUME NEW S \in SUBSET Rows, CommitSilently(S) PROVE TypeOK'
    BY <2>12, RowTypes DEF TypeOK, CommitSilently, InsertRows, queueVars, drainVars
  <2>13. ASSUME NEW S \in SUBSET Rows, Vacuum(S) PROVE TypeOK'
    BY <2>13, RowTypes DEF TypeOK, Vacuum, queueVars, drainVars
  <2>14. ASSUME NEW c \in {"none", "url", "full"}, Redeploy(c) PROVE TypeOK'
    BY <2>14 DEF TypeOK, Redeploy, queueVars, drainVars
  <2>15. CASE UNCHANGED vars
    BY <2>15 DEF TypeOK, vars, queueVars, drainVars
  <2> QED
    BY <2>1, <2>2, <2>3, <2>4, <2>5, <2>6, <2>7, <2>8, <2>9, <2>10, <2>11, <2>12,
       <2>13, <2>14, <2>15 DEF Next, DrainStep, PostStep
<1> QED
  BY <1>1, <1>2, PTL DEF Spec

-------------------------------------------------------------------------------
(* Layer 2: the advisory lock. *)

\* The advisory lock is held by the drainer that is draining, and by nobody
\* while none is.
LockHeld == \A p \in Drainers : Draining(p) <=> lock = p

\* A step that leaves lock and pc alone, or moves one drainer inside the
\* critical section or outside of it, keeps LockHeld.
LEMMA LockKept ==
  ASSUME TypeOK, LockHeld, UNCHANGED lock,
         \A p \in Drainers : Draining(p)' <=> Draining(p)
  PROVE  LockHeld'
BY DEF LockHeld

LEMMA LockHeldStep ==
  TypeOK /\ LockHeld /\ [Next]_vars => LockHeld'
<1> SUFFICES ASSUME TypeOK, LockHeld, [Next]_vars PROVE LockHeld'
  OBVIOUS
<1>1. CASE UNCHANGED <<lock, pc>>
  BY <1>1, LockKept DEF Draining
<1>2. ASSUME NEW p \in Drainers, pc[p] \in {"idle", "gate"}, UNCHANGED lock,
             \E step \in {"idle", "gate"} : Goto(p, step)
      PROVE  LockHeld'
  BY <1>2, LockKept DEF TypeOK, Draining, Goto
<1>3. ASSUME NEW p \in Drainers, Draining(p), UNCHANGED lock,
             \E step \in {"select", "post", "record", "defer", "unlock"} : Goto(p, step)
      PROVE  LockHeld'
  BY <1>3, LockKept DEF TypeOK, Draining, Goto
<1>4. ASSUME NEW p \in Drainers, TryLock(p) PROVE LockHeld'
  <2>1. CASE lock = None
    BY <1>4, <2>1, ConstantsAssumption DEF TypeOK, LockHeld, TryLock, Draining, Goto
  <2>2. CASE lock # None
    BY <1>2, <1>4, <2>2 DEF TryLock
  <2> QED
    BY <2>1, <2>2
<1>5. ASSUME NEW p \in Drainers, Unlock(p) PROVE LockHeld'
  BY <1>5, ConstantsAssumption DEF TypeOK, LockHeld, Unlock, Forget, Draining
<1>6. ASSUME NEW p \in Drainers, Crash(p) PROVE LockHeld'
  BY <1>6, ConstantsAssumption DEF TypeOK, LockHeld, Crash, Forget, Draining
<1>7. ASSUME NEW p \in Drainers, SelectBatch(p) PROVE LockHeld'
  BY <1>3, <1>7 DEF SelectBatch, Draining
<1>8. ASSUME NEW p \in Drainers, PostStep(p) PROVE LockHeld'
  BY <1>3, <1>8 DEF PostStep, Post, Draining
<1>9. ASSUME NEW p \in Drainers, Record(p) PROVE LockHeld'
  BY <1>3, <1>9 DEF Record, AfterRow, Draining
<1>10. ASSUME NEW p \in Drainers, DeferRetry(p) PROVE LockHeld'
  BY <1>3, <1>10 DEF DeferRetry, AfterRow, Draining
<1>11. ASSUME NEW w \in Writers, WriterStep(w) PROVE LockHeld'
  BY <1>1, <1>11 DEF WriterStep, CommitRows, InsertRows, NotifyWorker, NotifyLost,
                     queueVars, drainVars
<1>12. ASSUME NEW k \in Workers, WorkerPicks(k) PROVE LockHeld'
  BY <1>2, <1>12 DEF WorkerPicks, PickDue, PickRetry, Drainers
<1>13. ASSUME NEW o \in Operators, Trigger(o) PROVE LockHeld'
  BY <1>2, <1>13 DEF Trigger, Drainers
<1>14. ASSUME NEW r \in Rows, Tick(r) PROVE LockHeld'
  BY <1>1, <1>14 DEF Tick, drainVars
<1>15. ASSUME NEW S \in SUBSET Rows, CommitSilently(S) \/ Vacuum(S) PROVE LockHeld'
  BY <1>1, <1>15 DEF CommitSilently, InsertRows, Vacuum, drainVars
<1>16. ASSUME NEW c \in {"none", "url", "full"}, Redeploy(c) PROVE LockHeld'
  BY <1>1, <1>16 DEF Redeploy, drainVars
<1>17. CASE UNCHANGED vars
  BY <1>1, <1>17 DEF vars, drainVars
<1> QED
  BY <1>4, <1>5, <1>6, <1>7, <1>8, <1>9, <1>10, <1>11, <1>12, <1>13, <1>14, <1>15,
     <1>16, <1>17 DEF Next, DrainStep

LEMMA LockCorrect == Spec => []LockHeld
<1>1. Init => LockHeld
  BY ConstantsAssumption DEF Init, LockHeld, Draining
<1> QED
  BY <1>1, TypeCorrect, LockHeldStep, PTL DEF Spec

\* However many workers and operators there are, and whatever crashes, at most
\* one of them is between pg_try_advisory_lock and pg_advisory_unlock.
THEOREM LockExcludes == Spec => []MutualExclusion
<1>1. LockHeld => MutualExclusion
  BY DEF LockHeld, MutualExclusion
<1> QED
  BY <1>1, LockCorrect, PTL
-------------------------------------------------------------------------------
(* Layer 3: the batch of a drainer. *)

\* Rows wait in a batch only inside the send loop, and the row being sent has
\* left the batch.
BatchOK(p) ==
  /\ todo[p] # {} => pc[p] \in {"post", "record", "defer"}
  /\ pc[p] \in {"record", "defer"} => cur[p] \in Rows \ todo[p]

BatchesOK == \A p \in Drainers : BatchOK(p)

\* Only p's own steps touch p's batch.
LEMMA BatchKept ==
  ASSUME NEW p, pc'[p] = pc[p], todo'[p] = todo[p], cur'[p] = cur[p], BatchOK(p)
  PROVE  BatchOK(p)'
BY DEF BatchOK

LEMMA BatchesOKStep ==
  TypeOK /\ BatchesOK /\ [Next]_vars => BatchesOK'
<1> SUFFICES ASSUME TypeOK, BatchesOK, [Next]_vars PROVE BatchesOK'
  OBVIOUS
<1>1. CASE UNCHANGED <<pc, todo, cur>>
  BY <1>1, BatchKept DEF BatchesOK
<1>2. ASSUME NEW p \in Drainers, BatchOK(p)',
             \A q \in Drainers \ {p} :
                pc'[q] = pc[q] /\ todo'[q] = todo[q] /\ cur'[q] = cur[q]
      PROVE  BatchesOK'
  BY <1>2, BatchKept DEF BatchesOK
<1>3. ASSUME NEW p \in Drainers, pc[p] = "idle", Goto(p, "gate"), UNCHANGED <<todo, cur>>
      PROVE  BatchesOK'
  BY <1>2, <1>3 DEF TypeOK, BatchesOK, BatchOK, Goto
<1>4. ASSUME NEW p \in Drainers, TryLock(p) PROVE BatchesOK'
  BY <1>2, <1>4 DEF TypeOK, BatchesOK, BatchOK, TryLock, Goto
<1>5. ASSUME NEW p \in Drainers, SelectBatch(p) PROVE BatchesOK'
  <2>1. BatchOK(p)'
    BY <1>5 DEF TypeOK, BatchesOK, BatchOK, SelectBatch, Goto
  <2>2. \A q \in Drainers \ {p} :
           pc'[q] = pc[q] /\ todo'[q] = todo[q] /\ cur'[q] = cur[q]
    BY <1>5 DEF TypeOK, SelectBatch, Goto
  <2> QED
    BY <1>2, <2>1, <2>2
<1>6. ASSUME NEW p \in Drainers, NEW r \in Rows, NEW answer \in Replies,
             NEW processed \in BOOLEAN, Post(p, r, answer, processed)
      PROVE  BatchesOK'
  BY <1>2, <1>6 DEF TypeOK, BatchOK, Post, Goto
<1>7. ASSUME NEW p \in Drainers, Record(p) PROVE BatchesOK'
  BY <1>2, <1>7 DEF TypeOK, BatchesOK, BatchOK, Record, AfterRow, Goto
<1>8. ASSUME NEW p \in Drainers, DeferRetry(p) PROVE BatchesOK'
  BY <1>2, <1>8 DEF TypeOK, BatchesOK, BatchOK, DeferRetry, AfterRow, Goto
<1>9. ASSUME NEW p \in Drainers, Forget(p) PROVE BatchesOK'
  BY <1>2, <1>9 DEF TypeOK, BatchOK, Forget
<1>10. ASSUME NEW w \in Writers, WriterStep(w) PROVE BatchesOK'
  BY <1>1, <1>10 DEF WriterStep, CommitRows, InsertRows, NotifyWorker, NotifyLost, drainVars
<1>11. ASSUME NEW k \in Workers, WorkerPicks(k) PROVE BatchesOK'
  BY <1>3, <1>11 DEF WorkerPicks, PickDue, PickRetry, Drainers
<1>12. ASSUME NEW o \in Operators, Trigger(o) PROVE BatchesOK'
  BY <1>3, <1>12 DEF Trigger, Drainers
<1>13. ASSUME NEW r \in Rows, Tick(r) PROVE BatchesOK'
  BY <1>1, <1>13 DEF Tick, drainVars
<1>14. ASSUME NEW S \in SUBSET Rows, CommitSilently(S) \/ Vacuum(S) PROVE BatchesOK'
  BY <1>1, <1>14 DEF CommitSilently, InsertRows, Vacuum, drainVars
<1>15. ASSUME NEW c \in {"none", "url", "full"}, Redeploy(c) PROVE BatchesOK'
  BY <1>1, <1>15 DEF Redeploy, drainVars
<1>16. CASE UNCHANGED vars
  BY <1>1, <1>16 DEF vars, drainVars
<1> QED
  BY <1>4, <1>5, <1>6, <1>7, <1>8, <1>9, <1>10, <1>11, <1>12, <1>13, <1>14, <1>15,
     <1>16 DEF Next, DrainStep, PostStep, Unlock, Crash

LEMMA BatchesCorrect == Spec => []BatchesOK
<1>1. Init => BatchesOK
  BY DEF Init, BatchesOK, BatchOK
<1> QED
  BY <1>1, TypeCorrect, BatchesOKStep, PTL DEF Spec

-------------------------------------------------------------------------------
(* Layer 4: the ORM copies. *)

\* p's copy of r was due when it was read, and is still what the table says.
CopyOK(p, r) ==
  /\ Due(snap[p][r])
  /\ rows[r] = snap[p][r] \/ rows[r].state = "gone"

CopiesOK == \A p \in Drainers : \A r \in Pending(p) : CopyOK(p, r)

CopyInv == TypeOK /\ LockHeld /\ BatchesOK /\ CopiesOK

\* A drainer with rows to act on holds the lock, so there is only one.
LEMMA OneDrainer ==
  ASSUME LockHeld, BatchesOK, NEW p \in Drainers, NEW q \in Drainers, q # p, Draining(p)
  PROVE  Pending(q) = {}
BY DEF LockHeld, BatchesOK, BatchOK, Draining, Pending

\* A step that adds nothing to anybody's pending rows, changes no copy, and
\* changes the table only where nobody has a copy pending, or by deletion.
LEMMA CopiesKept ==
  ASSUME CopiesOK, UNCHANGED snap,
         \A p \in Drainers : Pending(p)' \subseteq Pending(p),
         \A p \in Drainers : \A r \in Pending(p)' :
            \/ rows'[r] = rows[r]
            \/ rows'[r].state = "gone"
  PROVE  CopiesOK'
BY DEF CopiesOK, CopyOK

LEMMA CopiesOKStep ==
  CopyInv /\ [Next]_vars => CopiesOK'
<1> SUFFICES ASSUME CopyInv, [Next]_vars PROVE CopiesOK'
  OBVIOUS
<1> USE DEF CopyInv
<1>0. \A p \in Drainers : Pending(p) \subseteq Rows
  BY DEF TypeOK, Pending, BatchesOK, BatchOK
<1>1. CASE UNCHANGED <<rows, drainVars>>
  BY <1>1, CopiesKept DEF Pending, drainVars
<1>2. ASSUME UNCHANGED <<rows, todo, snap, cur>>,
             NEW p \in Drainers, pc[p] # "record",
             NEW step \in PCs \ {"record"}, Goto(p, step)
      PROVE  CopiesOK'
  BY <1>2, CopiesKept DEF TypeOK, Pending, Goto
<1>3. ASSUME NEW p \in Drainers, TryLock(p) PROVE CopiesOK'
  BY <1>2, <1>3 DEF TryLock, PCs
<1>4. ASSUME NEW p \in Drainers, SelectBatch(p) PROVE CopiesOK'
  <2>1. CASE UNCHANGED <<todo, snap>>
    BY <1>4, <2>1, CopiesKept DEF TypeOK, SelectBatch, Pending, Goto
  <2>2. CASE ~ UNCHANGED <<todo, snap>>
    <3>1. PICK B \in SUBSET { r \in Rows : Due(rows[r]) } :
            /\ todo' = [todo EXCEPT ![p] = B]
            /\ snap' = [snap EXCEPT ![p] =
                          [r \in Rows |-> IF r \in B THEN rows[r] ELSE UnusedRow]]
      BY <1>4, <2>2 DEF SelectBatch, Batches
    <3>2. UNCHANGED rows /\ Goto(p, "post")
      BY <1>4, <2>2 DEF SelectBatch
    <3>3. ASSUME NEW r \in Pending(p)' PROVE CopyOK(p, r)'
      <4>1. r \in B
        BY <3>1, <3>2, <3>3 DEF TypeOK, Pending, Goto
      <4>2. snap'[p][r] = rows[r] /\ Due(rows[r])
        BY <3>1, <4>1 DEF TypeOK
      <4> QED
        BY <3>2, <4>2 DEF CopyOK, Due
    <3>4. ASSUME NEW q \in Drainers \ {p} PROVE Pending(q)' = {}
      <4>1. Draining(p)
        BY <1>4 DEF SelectBatch, Draining
      <4>2. Pending(q) = {}
        BY <3>4, <4>1, OneDrainer
      <4>3. Pending(q)' = Pending(q)
        BY <1>4, <3>1, <3>2 DEF TypeOK, SelectBatch, Pending, Goto
      <4> QED
        BY <4>2, <4>3
    <3> QED
      BY <3>3, <3>4 DEF CopiesOK
  <2> QED
    BY <2>1, <2>2
<1>5. ASSUME NEW p \in Drainers, NEW r \in Rows, NEW answer \in Replies,
             NEW processed \in BOOLEAN, Post(p, r, answer, processed)
      PROVE  CopiesOK'
  BY <1>5, CopiesKept DEF TypeOK, Post, Pending, Goto
<1>6. ASSUME NEW p \in Drainers, Record(p) PROVE CopiesOK'
  <2>1. \A q \in Drainers : Pending(q)' \subseteq Pending(q)
    BY <1>6 DEF TypeOK, Record, Pending, AfterRow, Goto
  <2>2. cur[p] \in Rows \ todo[p] /\ Draining(p)
    BY <1>6 DEF Record, BatchesOK, BatchOK, Draining
  <2>3. ASSUME NEW q \in Drainers, NEW r \in Pending(q)' PROVE r # cur[p]
    <3>1. q = p
      BY <2>1, <2>2, <2>3, OneDrainer
    <3> QED
      BY <1>6, <2>2, <2>3, <3>1 DEF TypeOK, Record, Pending, AfterRow, Goto
  <2>4. \A q \in Drainers : \A r \in Pending(q)' : rows'[r] = rows[r]
    BY <1>0, <1>6, <2>1, <2>3 DEF TypeOK, Record
  <2> QED
    BY <1>6, <2>1, <2>4, CopiesKept DEF Record
<1>7. ASSUME NEW p \in Drainers, DeferRetry(p) PROVE CopiesOK'
  BY <1>7, CopiesKept DEF TypeOK, DeferRetry, Pending, AfterRow, Goto
<1>8. ASSUME NEW p \in Drainers, Forget(p), UNCHANGED rows PROVE CopiesOK'
  BY <1>8 DEF TypeOK, Forget, CopiesOK, CopyOK, Pending
<1>9. ASSUME NEW S \in SUBSET Rows, InsertRows(S) PROVE CopiesOK'
  <2>1. ASSUME NEW p \in Drainers, NEW r \in Pending(p) PROVE r \notin S
    BY <1>9, <2>1 DEF CopiesOK, CopyOK, Due, InsertRows
  <2> QED
    BY <1>0, <1>9, <2>1, CopiesKept DEF InsertRows, Pending, drainVars
<1>10. ASSUME NEW S \in SUBSET Rows, Vacuum(S) PROVE CopiesOK'
  BY <1>0, <1>10, CopiesKept DEF Vacuum, Pending, drainVars, GoneRow
<1>11. ASSUME NEW r \in Rows, Tick(r) PROVE CopiesOK'
  <2>1. ASSUME NEW p \in Drainers, NEW s \in Pending(p)
        PROVE  rows'[s] = rows[s] \/ rows'[s].state = "gone"
    <3>1. rows[s].state = "gone" \/ rows[s].retry # "later"
      BY <2>1 DEF CopiesOK, CopyOK, Due
    <3>2. rows[r] \in DeliveryType /\ s \in Rows /\ rows[s] \in DeliveryType
      BY <1>0, <2>1 DEF TypeOK
    <3>3. PICK v : rows' = [rows EXCEPT ![r] = [rows[r] EXCEPT !.retry = v]]
                   /\ (rows[r].retry # "later" => v = rows[r].retry)
      BY <1>11 DEF Tick
    <3> QED
      BY <3>1, <3>2, <3>3 DEF TypeOK, DeliveryType
  <2> QED
    BY <1>11, <2>1, CopiesKept DEF Tick, Pending, drainVars
<1>12. ASSUME NEW w \in Writers, WriterStep(w) PROVE CopiesOK'
  BY <1>1, <1>9, <1>12 DEF WriterStep, CommitRows, NotifyWorker, NotifyLost
<1>13. ASSUME NEW k \in Workers, WorkerPicks(k) PROVE CopiesOK'
  BY <1>2, <1>13 DEF WorkerPicks, PickDue, PickRetry, Drainers, PCs
<1>14. ASSUME NEW o \in Operators, Trigger(o) PROVE CopiesOK'
  BY <1>2, <1>14 DEF Trigger, Drainers, PCs
<1>15. ASSUME NEW c \in {"none", "url", "full"}, Redeploy(c) PROVE CopiesOK'
  BY <1>1, <1>15 DEF Redeploy
<1>16. CASE UNCHANGED vars
  BY <1>1, <1>16 DEF vars
<1> QED
  BY <1>3, <1>4, <1>5, <1>6, <1>7, <1>8, <1>9, <1>10, <1>11, <1>12, <1>13, <1>14,
     <1>15, <1>16 DEF Next, DrainStep, PostStep, Unlock, Crash, CommitSilently

LEMMA CopiesCorrect == Spec => []CopiesOK
<1>1. Init => CopiesOK
  BY DEF Init, CopiesOK, Pending
<1>2. CopiesOK /\ TypeOK /\ LockHeld /\ BatchesOK /\ [Next]_vars => CopiesOK'
  BY CopiesOKStep DEF CopyInv
<1> QED
  BY <1>1, <1>2, TypeCorrect, LockCorrect, BatchesCorrect, PTL DEF Spec

\* A drain reads up to BATCH_SIZE rows once and writes absolute values back as
\* it goes.  Whatever the batch size and whoever else runs, no copy it has yet
\* to use is stale, so no update of another process is overwritten.
THEOREM CopiesStayFresh == Spec => []SnapshotFresh
<1>1. CopiesOK => SnapshotFresh
  BY DEF CopiesOK, CopyOK, SnapshotFresh
<1> QED
  BY <1>1, CopiesCorrect, PTL
-------------------------------------------------------------------------------
(* Layer 5: what is booked was accepted. *)

\* A drainer about to book an "ok" has made a POST the receiver processed.
AnswersOK ==
  \A p \in Drainers : pc[p] = "record" /\ reply[p] = "ok" => cur[p] \in accepted

BookInv == CopyInv /\ AnswersOK /\ DeliveredWasAccepted

\* A step that only adds to accepted and starts no booking keeps both.
LEMMA BooksKept ==
  ASSUME AnswersOK, DeliveredWasAccepted,
         accepted \subseteq accepted',
         \A r \in Rows : rows'[r].state = "delivered" => rows[r].state = "delivered",
         \A p \in Drainers : pc'[p] = "record" =>
             pc[p] = "record" /\ cur'[p] = cur[p] /\ reply'[p] = reply[p]
  PROVE  AnswersOK' /\ DeliveredWasAccepted'
BY DEF AnswersOK, DeliveredWasAccepted

LEMMA BooksStep ==
  BookInv /\ [Next]_vars => AnswersOK' /\ DeliveredWasAccepted'
<1> SUFFICES ASSUME BookInv, [Next]_vars PROVE AnswersOK' /\ DeliveredWasAccepted'
  OBVIOUS
<1> USE DEF BookInv, CopyInv
<1>1. CASE UNCHANGED <<rows, accepted, drainVars>>
  BY <1>1, BooksKept DEF drainVars
<1>2. ASSUME UNCHANGED <<rows, accepted, cur, reply>>,
             NEW p \in Drainers, NEW step \in PCs \ {"record"}, Goto(p, step)
      PROVE  AnswersOK' /\ DeliveredWasAccepted'
  BY <1>2, BooksKept DEF TypeOK, Goto
<1>3. ASSUME NEW p \in Drainers, TryLock(p) PROVE AnswersOK' /\ DeliveredWasAccepted'
  BY <1>2, <1>3 DEF TryLock, PCs
<1>4. ASSUME NEW p \in Drainers, SelectBatch(p) PROVE AnswersOK' /\ DeliveredWasAccepted'
  BY <1>2, <1>4 DEF SelectBatch, PCs
<1>5. ASSUME NEW p \in Drainers, NEW r \in Rows, NEW answer \in Replies,
             NEW processed \in BOOLEAN, Post(p, r, answer, processed)
      PROVE  AnswersOK' /\ DeliveredWasAccepted'
  <2>1. accepted \subseteq accepted' /\ UNCHANGED rows
    BY <1>5 DEF Post
  <2>2. answer = "ok" => r \in accepted'
    BY <1>5 DEF Post
  <2>3. cur'[p] = r /\ reply'[p] = answer
    BY <1>5 DEF TypeOK, Post
  <2>4. \A q \in Drainers \ {p} : pc'[q] = pc[q] /\ cur'[q] = cur[q] /\ reply'[q] = reply[q]
    BY <1>5 DEF TypeOK, Post, Goto
  <2> QED
    BY <2>1, <2>2, <2>3, <2>4 DEF AnswersOK, DeliveredWasAccepted
<1>6. ASSUME NEW p \in Drainers, Record(p) PROVE AnswersOK' /\ DeliveredWasAccepted'
  <2>1. AnswersOK'
    BY <1>6 DEF TypeOK, Record, AfterRow, Goto, AnswersOK
  <2>2. UNCHANGED accepted /\ (reply[p] = "ok" => cur[p] \in accepted)
    BY <1>6 DEF Record, AnswersOK
  <2>3. cur[p] \in Rows /\ snap[p][cur[p]].state = "pending"
    BY <1>6 DEF Record, BatchesOK, BatchOK, CopiesOK, CopyOK, Pending, Due
  <2>4. CASE UNCHANGED rows
    BY <2>1, <2>2, <2>4 DEF DeliveredWasAccepted
  <2>5. CASE rows' = [rows EXCEPT ![cur[p]] = Outcome(snap[p][cur[p]], reply[p])]
    <3>1. Outcome(snap[p][cur[p]], reply[p]).state = "delivered" => reply[p] = "ok"
      BY <2>3 DEF Outcome
    <3> QED
      BY <2>1, <2>2, <2>3, <2>5, <3>1 DEF TypeOK, DeliveredWasAccepted
  <2> QED
    BY <1>6, <2>4, <2>5 DEF Record
<1>7. ASSUME NEW p \in Drainers, DeferRetry(p) PROVE AnswersOK' /\ DeliveredWasAccepted'
  BY <1>7, BooksKept DEF TypeOK, DeferRetry, AfterRow, Goto
<1>8. ASSUME NEW p \in Drainers, Forget(p), UNCHANGED <<rows, accepted>>
      PROVE  AnswersOK' /\ DeliveredWasAccepted'
  BY <1>8, BooksKept DEF TypeOK, Forget
<1>9. ASSUME NEW S \in SUBSET Rows, InsertRows(S)
      PROVE  AnswersOK' /\ DeliveredWasAccepted'
  BY <1>9, BooksKept DEF InsertRows, NewRow, UnusedRow, drainVars
<1>10. ASSUME NEW S \in SUBSET Rows, Vacuum(S)
       PROVE  AnswersOK' /\ DeliveredWasAccepted'
  BY <1>10, BooksKept DEF Vacuum, GoneRow, UnusedRow, drainVars
<1>11. ASSUME NEW r \in Rows, Tick(r) PROVE AnswersOK' /\ DeliveredWasAccepted'
  <2>1. \A s \in Rows : rows'[s].state = rows[s].state
    <3>1. rows[r] \in DeliveryType
      BY DEF TypeOK
    <3>2. PICK v : rows' = [rows EXCEPT ![r] = [rows[r] EXCEPT !.retry = v]]
      BY <1>11 DEF Tick
    <3> QED
      BY <3>1, <3>2 DEF TypeOK, DeliveryType
  <2> QED
    BY <1>11, <2>1, BooksKept DEF Tick, drainVars
<1>12. ASSUME NEW w \in Writers, WriterStep(w) PROVE AnswersOK' /\ DeliveredWasAccepted'
  BY <1>1, <1>9, <1>12 DEF WriterStep, CommitRows, NotifyWorker, NotifyLost
<1>13. ASSUME NEW k \in Workers, WorkerPicks(k) PROVE AnswersOK' /\ DeliveredWasAccepted'
  BY <1>2, <1>13 DEF WorkerPicks, PickDue, PickRetry, Drainers, PCs
<1>14. ASSUME NEW o \in Operators, Trigger(o) PROVE AnswersOK' /\ DeliveredWasAccepted'
  BY <1>2, <1>14 DEF Trigger, Drainers, PCs
<1>15. ASSUME NEW c \in {"none", "url", "full"}, Redeploy(c)
       PROVE  AnswersOK' /\ DeliveredWasAccepted'
  BY <1>1, <1>15 DEF Redeploy
<1>16. CASE UNCHANGED vars
  BY <1>1, <1>16 DEF vars
<1> QED
  BY <1>3, <1>4, <1>5, <1>6, <1>7, <1>8, <1>9, <1>10, <1>11, <1>12, <1>13, <1>14,
     <1>15, <1>16 DEF Next, DrainStep, PostStep, Unlock, Crash, CommitSilently

\* delivered_at is never set on a row the receiver did not process: not by a
\* lost answer, a retry, a crash, a manual run or a deleted event.
THEOREM DeliveredOnlyIfAccepted == Spec => []DeliveredWasAccepted
<1>1. Init => AnswersOK /\ DeliveredWasAccepted
  BY DEF Init, AnswersOK, DeliveredWasAccepted, UnusedRow
<1>2. /\ TypeOK /\ LockHeld /\ BatchesOK /\ CopiesOK
      /\ AnswersOK /\ DeliveredWasAccepted /\ [Next]_vars
      => AnswersOK' /\ DeliveredWasAccepted'
  BY BooksStep DEF BookInv, CopyInv
<1> QED
  BY <1>1, <1>2, TypeCorrect, LockCorrect, BatchesCorrect, CopiesCorrect, PTL DEF Spec
-------------------------------------------------------------------------------
(* The queue implements DeliveryLedger. *)

\* The only POST on the wire is the one of the drainer that holds the lock.
LEMMA Wire ==
  ASSUME LockHeld, NEW p \in Drainers, Draining(p)
  PROVE  onTheWire = IF pc[p] = "record" THEN {cur[p]} ELSE {}
BY DEF LockHeld, Draining, onTheWire

\* A step that moves no drainer to or from a POST leaves the wire alone.
LEMMA WireKept ==
  ASSUME \A p \in Drainers :
           /\ pc'[p] = "record" <=> pc[p] = "record"
           /\ pc[p] = "record" => cur'[p] = cur[p]
  PROVE  UNCHANGED onTheWire
BY DEF onTheWire

LEMMA LedgerInit == Init => Ledger!Init
BY DEF Init, Ledger!Init, rowStatus, onTheWire, UnusedRow

LEMMA LedgerStep ==
  BookInv /\ [Next]_vars => [Ledger!Next]_(Ledger!vars)
<1> SUFFICES ASSUME BookInv, [Next]_vars
             PROVE  Ledger!Next \/ UNCHANGED Ledger!vars
  OBVIOUS
<1> DEFINE Simulated == Ledger!Next \/ UNCHANGED Ledger!vars
<1> USE DEF BookInv, CopyInv
<1>0. LockHeld'
  BY LockHeldStep
<1>1. CASE UNCHANGED <<rows, accepted, pc, cur>>
  BY <1>1 DEF Ledger!vars, rowStatus, onTheWire
<1>2. ASSUME UNCHANGED <<rows, accepted>>, NEW p \in Drainers, pc[p] # "record",
             NEW step \in PCs \ {"record"}, Goto(p, step),
             \A q \in Drainers \ {p} : cur'[q] = cur[q]
      PROVE  Simulated
  <2>1. UNCHANGED onTheWire
    BY <1>2, WireKept DEF TypeOK, Goto
  <2> QED
    BY <1>2, <2>1 DEF Ledger!vars, rowStatus
<1>3. ASSUME NEW p \in Drainers, TryLock(p) PROVE Simulated
  BY <1>2, <1>3 DEF TryLock, PCs
<1>4. ASSUME NEW p \in Drainers, SelectBatch(p) PROVE Simulated
  BY <1>2, <1>4 DEF SelectBatch, PCs
<1>5. ASSUME NEW p \in Drainers, NEW r \in Rows, NEW answer \in Replies,
             NEW processed \in BOOLEAN, Post(p, r, answer, processed)
      PROVE  Simulated
  <2>1. onTheWire = {}
    BY <1>5, Wire DEF Post, Draining
  <2>2. onTheWire' = {r}
    <3>1. pc'[p] = "record" /\ cur'[p] = r
      BY <1>5 DEF TypeOK, Post, Goto
    <3>2. \A q \in Drainers : pc'[q] = "record" => q = p
      BY <1>0, <3>1 DEF LockHeld, Draining
    <3> QED
      BY <3>1, <3>2 DEF onTheWire
  <2>3. rowStatus[r] \in {"pending", "gone"}
    BY <1>5 DEF Post, CopiesOK, CopyOK, Pending, Due, rowStatus
  <2>4. accepted' \in {accepted, accepted \cup {r}} /\ UNCHANGED rowStatus
    BY <1>5 DEF Post, rowStatus
  <2>5. Ledger!Send(r)
    BY <2>1, <2>2, <2>3, <2>4 DEF Ledger!Send
  <2> QED
    BY <2>5 DEF Ledger!Next
<1>6. ASSUME NEW p \in Drainers, Record(p) PROVE Simulated
  <2>1. cur[p] \in Rows /\ onTheWire = {cur[p]}
    BY <1>6, Wire DEF Record, Draining, BatchesOK, BatchOK
  <2>2. onTheWire' = {}
    <3>1. pc'[p] # "record" /\ Draining(p)'
      BY <1>6 DEF TypeOK, Record, AfterRow, Goto, Draining
    <3>2. \A q \in Drainers : pc'[q] # "record"
      BY <1>0, <3>1 DEF LockHeld, Draining
    <3> QED
      BY <3>2 DEF onTheWire
  <2>3. \/ UNCHANGED rowStatus
        \/ /\ rowStatus[cur[p]] = "pending"
           /\ cur[p] \in accepted
           /\ rowStatus' = [rowStatus EXCEPT ![cur[p]] = "delivered"]
    <3>1. CASE UNCHANGED rows
      BY <3>1 DEF rowStatus
    <3>2. CASE rows[cur[p]].state # "gone"
      <4>1. /\ snap[p][cur[p]] = rows[cur[p]]
            /\ rows[cur[p]].state = "pending"
        BY <1>6, <3>2 DEF Record, CopiesOK, CopyOK, Pending, Due
      <4>2. rows' = [rows EXCEPT ![cur[p]] = Outcome(rows[cur[p]], reply[p])]
        BY <1>6, <3>2, <4>1 DEF Record
      <4>3. CASE reply[p] = "ok"
        <5>1. Outcome(rows[cur[p]], reply[p]).state = "delivered"
          BY <4>3 DEF Outcome
        <5>2. rowStatus' = [rowStatus EXCEPT ![cur[p]] = "delivered"]
          BY <2>1, <4>2, <5>1 DEF TypeOK, rowStatus
        <5>3. cur[p] \in accepted
          BY <1>6, <4>3 DEF Record, AnswersOK
        <5> QED
          BY <2>1, <4>1, <5>2, <5>3 DEF rowStatus
      <4>4. CASE reply[p] # "ok"
        <5>1. Outcome(rows[cur[p]], reply[p]).state = rows[cur[p]].state
          BY <4>4 DEF Outcome
        <5> QED
          BY <2>1, <4>2, <5>1 DEF TypeOK, rowStatus
      <4> QED
        BY <4>3, <4>4
    <3> QED
      BY <1>6, <3>1, <3>2 DEF Record
  <2>4. Ledger!Settle(cur[p])
    BY <1>6, <2>1, <2>2, <2>3 DEF Record, Ledger!Settle
  <2> QED
    BY <2>1, <2>4 DEF Ledger!Next
<1>7. ASSUME NEW p \in Drainers, DeferRetry(p) PROVE Simulated
  <2>1. \A q \in Drainers \ {p} : cur'[q] = cur[q]
    BY <1>7 DEF TypeOK, DeferRetry
  <2>2. AfterRow(p) \in PCs \ {"record"}
    BY DEF AfterRow, PCs
  <2> QED
    BY <1>2, <1>7, <2>1, <2>2 DEF DeferRetry
<1>8. ASSUME NEW p \in Drainers, Forget(p), UNCHANGED <<rows, accepted>>
      PROVE  Simulated
  <2>1. pc'[p] # "record" /\ \A q \in Drainers \ {p} : pc'[q] = pc[q] /\ cur'[q] = cur[q]
    BY <1>8 DEF TypeOK, Forget
  <2>2. CASE pc[p] = "record"
    <3>1. cur[p] \in Rows /\ onTheWire = {cur[p]}
      BY <2>2, Wire DEF Draining, BatchesOK, BatchOK
    <3>2. onTheWire' = {}
      BY <2>1, <2>2 DEF LockHeld, Draining, onTheWire
    <3>3. Ledger!Settle(cur[p])
      BY <1>8, <3>1, <3>2 DEF Ledger!Settle, rowStatus
    <3> QED
      BY <3>1, <3>3 DEF Ledger!Next
  <2>3. CASE pc[p] # "record"
    <3>1. UNCHANGED onTheWire
      BY <2>1, <2>3, WireKept
    <3> QED
      BY <1>8, <3>1 DEF Ledger!vars, rowStatus
  <2> QED
    BY <2>2, <2>3
<1>9. ASSUME NEW S \in SUBSET Rows, InsertRows(S) PROVE Simulated
  <2>1. rowStatus' = [r \in Rows |-> IF r \in S THEN "pending" ELSE rowStatus[r]]
    BY <1>9 DEF InsertRows, NewRow, UnusedRow, rowStatus
  <2>2. UNCHANGED <<accepted, onTheWire>>
    BY <1>9 DEF InsertRows, drainVars, onTheWire
  <2>3. Ledger!Submit(S)
    BY <1>9, <2>1, <2>2 DEF InsertRows, Ledger!Submit, rowStatus
  <2> QED
    BY <2>3 DEF Ledger!Next
<1>10. ASSUME NEW S \in SUBSET Rows, Vacuum(S) PROVE Simulated
  <2>1. rowStatus' = [r \in Rows |-> IF r \in S THEN "gone" ELSE rowStatus[r]]
    BY <1>10 DEF Vacuum, GoneRow, UnusedRow, rowStatus
  <2>2. UNCHANGED <<accepted, onTheWire>>
    BY <1>10 DEF Vacuum, drainVars, onTheWire
  <2>3. Ledger!Discard(S)
    BY <1>10, <2>1, <2>2 DEF Vacuum, Ledger!Discard, rowStatus
  <2> QED
    BY <2>3 DEF Ledger!Next
<1>11. ASSUME NEW r \in Rows, Tick(r) PROVE Simulated
  <2>1. UNCHANGED rowStatus
    <3>1. rows[r] \in DeliveryType
      BY DEF TypeOK
    <3>2. PICK v : rows' = [rows EXCEPT ![r] = [rows[r] EXCEPT !.retry = v]]
      BY <1>11 DEF Tick
    <3> QED
      BY <3>1, <3>2 DEF TypeOK, DeliveryType, rowStatus
  <2> QED
    BY <1>11, <2>1 DEF Tick, drainVars, onTheWire, Ledger!vars
<1>12. ASSUME NEW w \in Writers, WriterStep(w) PROVE Simulated
  BY <1>1, <1>9, <1>12 DEF WriterStep, CommitRows, NotifyWorker, NotifyLost, drainVars
<1>13. ASSUME NEW k \in Workers, WorkerPicks(k) PROVE Simulated
  BY <1>2, <1>13 DEF WorkerPicks, PickDue, PickRetry, Drainers, PCs
<1>14. ASSUME NEW o \in Operators, Trigger(o) PROVE Simulated
  BY <1>2, <1>14 DEF Trigger, Drainers, PCs
<1>15. ASSUME NEW c \in {"none", "url", "full"}, Redeploy(c) PROVE Simulated
  BY <1>1, <1>15 DEF Redeploy, drainVars
<1>16. CASE UNCHANGED vars
  BY <1>1, <1>16 DEF vars, drainVars
<1> QED
  BY <1>3, <1>4, <1>5, <1>6, <1>7, <1>8, <1>9, <1>10, <1>11, <1>12, <1>13, <1>14,
     <1>15, <1>16 DEF Next, DrainStep, PostStep, Unlock, Crash, CommitSilently

LEMMA BooksCorrect == Spec => []BookInv
<1>1. Init => AnswersOK
  BY DEF Init, AnswersOK
<1>2. /\ TypeOK /\ LockHeld /\ BatchesOK /\ CopiesOK
      /\ DeliveredWasAccepted /\ AnswersOK /\ [Next]_vars
      => AnswersOK'
  BY BooksStep DEF BookInv, CopyInv
<1>3. TypeOK /\ LockHeld /\ BatchesOK /\ CopiesOK /\ DeliveredWasAccepted /\ AnswersOK
      => BookInv
  BY DEF BookInv, CopyInv
<1> QED
  BY <1>1, <1>2, <1>3, TypeCorrect, LockCorrect, BatchesCorrect, CopiesCorrect,
     DeliveredOnlyIfAccepted, PTL DEF Spec

\* Workers, operators, jobs, locks, copies, crashes and retries together do no
\* more than the ledger allows: POSTs of a row never overlap, and none follows
\* the booking of the row as delivered.
THEOREM ImplementsLedger == Spec => LedgerSpec
<1>1. BookInv /\ [Next]_vars => [Ledger!Next]_(Ledger!vars)
  BY LedgerStep
<1> QED
  BY <1>1, LedgerInit, BooksCorrect, PTL DEF Spec, LedgerSpec, Ledger!Spec

-------------------------------------------------------------------------------
(* Wake-ups, for a worker with one slot and a backlog that fits one batch. *)

NeverTried(row) == row.state = "pending" /\ row.attempts = 0

\* Without a fault, no row is deleted, and the next SELECT sees a row that was
\* never tried.
Undated == \A r \in Rows : /\ rows[r].state # "gone"
                           /\ NeverTried(rows[r]) => rows[r].retry = "null"

OneSlot == \A p, q \in Drainers : p = q

SmallBacklog == IsFiniteSet(Rows) /\ Cardinality(Rows) <= BatchSize

WakeInv == CopyInv /\ config = "full" /\ Undated /\ WakeupCovered

\* A batch that is not full holds all that is due.
LEMMA WholeBatch ==
  ASSUME SmallBacklog, NEW due \in SUBSET Rows, NEW B \in Batches(due)
  PROVE  B = due
<1>1. /\ IsFiniteSet(due) /\ Cardinality(due) \in Nat
      /\ Cardinality(Rows) \in Nat /\ Cardinality(due) <= Cardinality(Rows)
  BY FS_Subset, FS_CardinalityType DEF SmallBacklog
<1>2. B \in SUBSET due /\ Cardinality(B) = Cardinality(due)
  BY <1>1, ConstantsAssumption DEF Batches, SmallBacklog
<1> QED
  BY <1>1, <1>2, FS_Subset

LEMMA UndatedStep ==
  ASSUME Faults = {}, CopyInv, Undated, [Next]_vars
  PROVE  Undated'
<1> USE DEF CopyInv
<1>1. CASE UNCHANGED rows
  BY <1>1 DEF Undated
<1>2. ASSUME NEW S \in SUBSET Rows, InsertRows(S) PROVE Undated'
  BY <1>2 DEF InsertRows, Undated, NeverTried, NewRow, UnusedRow
<1>3. ASSUME NEW p \in Drainers, Record(p) PROVE Undated'
  <2>1. cur[p] \in Rows /\ CopyOK(p, cur[p]) /\ snap[p][cur[p]] \in DeliveryType
    BY <1>3 DEF Record, BatchesOK, BatchOK, CopiesOK, Pending, TypeOK
  <2>2. rows' = [rows EXCEPT ![cur[p]] = Outcome(snap[p][cur[p]], reply[p])]
    BY <1>3, <2>1 DEF Record, Undated
  <2> DEFINE row == Outcome(snap[p][cur[p]], reply[p])
  <2>3. row.state # "gone" /\ row.attempts # 0
    BY <2>1, ConstantsAssumption DEF CopyOK, Due, Outcome, Bump, DeliveryType
  <2>4. rows'[cur[p]] = row /\ \A r \in Rows \ {cur[p]} : rows'[r] = rows[r]
    BY <2>1, <2>2 DEF TypeOK
  <2> QED
    BY <2>3, <2>4 DEF Undated, NeverTried
<1>4. ASSUME NEW t \in Rows, Tick(t) PROVE Undated'
  <2>1. \A r \in Rows : /\ rows'[r].state = rows[r].state
                        /\ rows'[r].attempts = rows[r].attempts
                        /\ rows[r].retry = "null" => rows'[r].retry = "null"
    BY <1>4 DEF Tick, TypeOK, DeliveryType
  <2> QED
    BY <2>1 DEF Undated, NeverTried
<1> QED
  BY <1>1, <1>2, <1>3, <1>4
     DEF Next, WriterStep, CommitRows, NotifyWorker, NotifyLost, WorkerPicks, PickDue, PickRetry,
         Trigger, DrainStep, TryLock, SelectBatch, PostStep, Post, DeferRetry, Unlock, Crash,
         CommitSilently, Vacuum, Redeploy, vars

LEMMA WakeStep ==
  ASSUME OneSlot, SmallBacklog, Faults = {}
  PROVE  WakeInv /\ [Next]_vars => WakeupCovered'
<1> SUFFICES ASSUME WakeInv, [Next]_vars PROVE WakeupCovered'
  OBVIOUS
<1> USE DEF WakeInv, CopyInv
<1>1. ASSUME NEW p \in Drainers, pc'[p] \in {"gate", "select"} PROVE WakeupCovered'
  BY <1>1 DEF WakeupCovered, Covered
<1>2. ASSUME UNCHANGED <<dueJob, notifying>>,
             NEW p \in Drainers, pc[p] \notin {"gate", "select"},
             \A r \in Rows : NeverTried(rows'[r]) =>
                NeverTried(rows[r]) /\ (r \in Pending(p) => r \in Pending(p)')
      PROVE  WakeupCovered'
  BY <1>2 DEF WakeupCovered, Covered, NeverTried, OneSlot
<1>3. ASSUME NEW w \in Writers, WriterStep(w) PROVE WakeupCovered'
  BY <1>3 DEF WriterStep, CommitRows, NotifyWorker, NotifyLost, WakeupCovered, Covered
<1>4. ASSUME NEW k \in Workers, WorkerPicks(k) PROVE WakeupCovered'
  BY <1>1, <1>4 DEF WorkerPicks, PickDue, PickRetry, Goto, TypeOK, Drainers
<1>5. ASSUME NEW o \in Operators, Trigger(o) PROVE WakeupCovered'
  BY <1>1, <1>5 DEF Trigger, Goto, TypeOK, Drainers
<1>6. ASSUME NEW p \in Drainers, TryLock(p) PROVE WakeupCovered'
  <2>1. lock = None
    BY <1>6 DEF TryLock, LockHeld, Draining, OneSlot, TypeOK
  <2> QED
    BY <1>1, <1>6, <2>1 DEF TryLock, Goto, TypeOK
<1>7. ASSUME NEW p \in Drainers, SelectBatch(p) PROVE WakeupCovered'
  <2> DEFINE due == { r \in Rows : Due(rows[r]) }
  <2>1. \A r \in Rows : NeverTried(rows[r]) => r \in due
    BY DEF Undated, Due, NeverTried
  <2>2. CASE due = {}
    BY <1>7, <2>1, <2>2 DEF SelectBatch, WakeupCovered, NeverTried
  <2>3. CASE due # {}
    <3>1. PICK B \in Batches(due) : todo' = [todo EXCEPT ![p] = B]
      BY <1>7, <2>3 DEF SelectBatch
    <3>2. todo'[p] = due
      BY <3>1, WholeBatch DEF TypeOK
    <3> QED
      BY <1>7, <2>1, <3>2 DEF SelectBatch, WakeupCovered, Covered, Pending, NeverTried
  <2> QED
    BY <2>2, <2>3
<1>8. ASSUME NEW p \in Drainers, NEW r \in Rows, NEW answer \in Replies,
             NEW processed \in BOOLEAN, Post(p, r, answer, processed)
      PROVE  WakeupCovered'
  <2>1. /\ pc[p] = "post" /\ pc'[p] = "record" /\ cur'[p] = r /\ todo'[p] = todo[p] \ {r}
        /\ UNCHANGED <<rows, dueJob, notifying>>
    BY <1>8 DEF Post, Goto, TypeOK, queueVars
  <2>2. \A s \in Pending(p) : s \in Pending(p)'
    BY <2>1 DEF Pending
  <2> QED
    BY <1>2, <2>1, <2>2
<1>9. ASSUME NEW p \in Drainers, Record(p) PROVE WakeupCovered'
  <2>1. cur[p] \in Rows /\ snap[p][cur[p]] \in DeliveryType /\ pc[p] = "record"
    BY <1>9 DEF Record, BatchesOK, BatchOK, TypeOK
  <2>2. /\ rows' = [rows EXCEPT ![cur[p]] = Outcome(snap[p][cur[p]], reply[p])]
        /\ UNCHANGED <<todo, dueJob, notifying>>
    BY <1>9, <2>1 DEF Record, Undated, queueVars
  <2>3. ~ NeverTried(rows'[cur[p]])
    BY <2>1, <2>2, ConstantsAssumption DEF TypeOK, DeliveryType, Outcome, Bump, NeverTried
  <2>4. \A r \in Rows \ {cur[p]} : rows'[r] = rows[r] /\ (r \in Pending(p) => r \in Pending(p)')
    BY <2>1, <2>2 DEF TypeOK, Pending
  <2> QED
    BY <1>2, <2>1, <2>2, <2>3, <2>4
<1>10. ASSUME NEW p \in Drainers, DeferRetry(p) PROVE WakeupCovered'
  BY <1>2, <1>10 DEF DeferRetry, Pending
<1>11. ASSUME NEW p \in Drainers, Unlock(p) PROVE WakeupCovered'
  BY <1>2, <1>11 DEF Unlock, Pending, BatchesOK, BatchOK, queueVars
<1>12. ASSUME NEW t \in Rows, Tick(t) PROVE WakeupCovered'
  <2>1. \A r \in Rows : rows'[r].state = rows[r].state /\ rows'[r].attempts = rows[r].attempts
    BY <1>12 DEF Tick, TypeOK, DeliveryType
  <2> QED
    BY <1>12, <2>1 DEF Tick, drainVars, WakeupCovered, Covered, Pending
<1>13. CASE UNCHANGED vars
  BY <1>13 DEF vars, queueVars, drainVars, WakeupCovered, Covered, Pending
<1> QED
  BY <1>3, <1>4, <1>5, <1>6, <1>7, <1>8, <1>9, <1>10, <1>11, <1>12, <1>13
     DEF Next, DrainStep, PostStep, Crash, CommitSilently, Vacuum, Redeploy

\* Push on write (notify.py) misses no row, for any number of writers and
\* commits, under three conditions: one process at a time can drain, all rows fit
\* one batch, and nothing fails. With a second slot a refused job takes the
\* wake-up with it; with more rows than BATCH_SIZE the drain that it woke
\* leaves the rest behind.
THEOREM OneSlotSeesEveryRow ==
  ASSUME OneSlot, SmallBacklog, Faults = {}
  PROVE  Spec => []WakeupCovered
<1> DEFINE Full == config = "full"
<1>1. Init => Full /\ Undated /\ WakeupCovered
  BY DEF Init, Undated, NeverTried, UnusedRow, WakeupCovered
<1>2. Full /\ [Next]_vars => Full'
  BY DEF Next, WriterStep, CommitRows, InsertRows, NotifyWorker, NotifyLost, WorkerPicks, PickDue,
         PickRetry, Trigger, DrainStep, TryLock, SelectBatch, PostStep, Post, Record, DeferRetry,
         Unlock, Crash, Tick, CommitSilently, Vacuum, Redeploy, vars
<1>3. /\ TypeOK /\ LockHeld /\ BatchesOK /\ CopiesOK /\ Full /\ Undated /\ WakeupCovered
      /\ [Next]_vars
      => Undated' /\ WakeupCovered'
  BY UndatedStep, WakeStep DEF WakeInv, CopyInv
<1> QED
  BY <1>1, <1>2, <1>3, TypeCorrect, LockCorrect, BatchesCorrect, CopiesCorrect, PTL DEF Spec
===============================================================================
