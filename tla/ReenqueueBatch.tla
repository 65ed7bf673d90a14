---------------------------- MODULE ReenqueueBatch ----------------------------
(***************************************************************************)
(* Two actions of the admin site (admin/views.py): "Resend" of delivery    *)
(* rows and "Re-enqueue webhook" of events. Either goes through the        *)
(* selection in one transaction and forces a row per event into the outbox *)
(* (force_enqueue_for_event of webhooks/enqueue.py), commits once at the   *)
(* end, wakes the worker and says what it did. Events end, and both kinds  *)
(* of rows are deleted, meanwhile.                                         *)
(***************************************************************************)
EXTENDS Naturals, FiniteSets, Nullable

CONSTANTS
  Events, Deliveries,
  EventOf     \* delivery -> its event

ASSUME BatchAssumption ==
  /\ Events \cap Deliveries = {} /\ IsFiniteSet(Events)
  /\ EventOf \in [Deliveries -> Events]

BatchKinds == {"resend", "re-enqueue"}

VARIABLES
  event,      \* "open", "terminal" or "deleted"
  delivery,   \* the rows there are to select
  url,        \* is a receiver configured?
  resend,     \* the action under way, or None
  report      \* what the last action said and what it committed, or None

batchVars == <<event, delivery, url, resend, report>>

Batch ==
  [kind : BatchKinds, todo : SUBSET (Events \cup Deliveries), seen : SUBSET Events,
   flushed : [Events -> Nat], enqueued : Nat, skipped : Nat, errors : Nat]
Report ==
  [enqueued : Nat, skipped : Nat, errors : Nat, committed : [Events -> Nat], notified : BOOLEAN]

BatchTypeOK ==
  /\ event \in [Events -> {"open", "terminal", "deleted"}]
  /\ delivery \subseteq Deliveries /\ url \in BOOLEAN
  /\ resend \in Batch \cup {None} /\ report \in Report \cup {None}

Nothing == [e \in Events |-> 0]

BatchInit ==
  /\ event \in [Events -> {"open", "terminal"}] /\ delivery = Deliveries /\ url \in BOOLEAN
  /\ resend = None /\ report = None
-----------------------------------------------------------------------------
Select(kind, pks) ==
  /\ resend = None /\ report = None
  /\ pks # {} /\ pks \subseteq IF kind = "resend" THEN delivery ELSE Events
  /\ resend' = [kind |-> kind, todo |-> pks, seen |-> {}, flushed |-> Nothing,
               enqueued |-> 0, skipped |-> 0, errors |-> 0]
  /\ UNCHANGED <<event, delivery, url, report>>

Target(pk) == IF resend.kind = "resend" THEN EventOf[pk] ELSE pk
Missing(pk) == resend.kind = "resend" /\ pk \notin delivery
(* Only "Resend" keeps the events it has seen: several rows may share one.   *)
Repeated(pk) == resend.kind = "resend" /\ pk \in delivery /\ EventOf[pk] \in resend.seen
See(pk, b) == [b EXCEPT !.todo = @ \ {pk}, !.seen = IF Missing(pk) THEN @ ELSE @ \cup {Target(pk)}]

Process(pk, after) ==
  /\ resend # None /\ pk \in resend.todo
  /\ resend' = after
  /\ UNCHANGED <<event, delivery, url, report>>

Repeat(pk) == Repeated(pk) /\ Process(pk, [resend EXCEPT !.todo = @ \ {pk}])

NotFound(pk) ==
  /\ ~Repeated(pk) /\ (Missing(pk) \/ event[Target(pk)] = "deleted")
  /\ Process(pk, [See(pk, resend) EXCEPT !.errors = @ + 1])

Reached(pk) == ~Repeated(pk) /\ ~Missing(pk) /\ event[Target(pk)] # "deleted"

(* force_enqueue_for_event gives None. *)
Skip(pk) ==
  /\ Reached(pk) /\ (~url \/ event[Target(pk)] = "open")
  /\ Process(pk, [See(pk, resend) EXCEPT !.skipped = @ + 1])

ForceRow(pk) ==
  /\ Reached(pk) /\ url /\ event[Target(pk)] = "terminal"
  /\ Process(pk, [See(pk, resend) EXCEPT !.enqueued = @ + 1, !.flushed[Target(pk)] = @ + 1])

(* It raises: the transaction starts anew, without what was flushed so far,  *)
(* and the counts stay.                                                     *)
RaisesUnseen(pk) ==
  /\ Reached(pk) /\ url /\ event[Target(pk)] = "terminal"
  /\ Process(pk, [See(pk, resend) EXCEPT !.flushed = Nothing])
Raises(pk) ==
  /\ Reached(pk) /\ url /\ event[Target(pk)] = "terminal"
  /\ Process(pk, [See(pk, resend) EXCEPT !.flushed = Nothing, !.errors = @ + 1])

CommitBatch ==
  /\ resend # None /\ resend.todo = {}
  /\ report' = [enqueued |-> resend.enqueued, skipped |-> resend.skipped,
                errors |-> resend.errors, committed |-> resend.flushed,
                notified |-> resend.enqueued > 0]
  /\ resend' = None
  /\ UNCHANGED <<event, delivery, url>>

(* The commit fails, or the process ends: a 500 in place of a report. *)
FailBatch == resend # None /\ resend' = None /\ UNCHANGED <<event, delivery, url, report>>

CloseReport == report # None /\ report' = None /\ UNCHANGED <<event, delivery, url, resend>>

End(e) == event[e] = "open" /\ event' = [event EXCEPT ![e] = "terminal"]
            /\ UNCHANGED <<delivery, url, resend, report>>

(* A vacuum deletes old events with their rows, and old rows on their own.   *)
DeleteEvent(e) ==
  /\ event' = [event EXCEPT ![e] = "deleted"]
  /\ delivery' = {d \in delivery : EventOf[d] # e}
  /\ ~(resend # None /\ resend.flushed[e] > 0)   \* the new row holds the event
  /\ UNCHANGED <<url, resend, report>>
DeleteDelivery(d) ==
  delivery' = delivery \ {d} /\ UNCHANGED <<event, url, resend, report>>

BatchNext ==
  \/ \E kind \in BatchKinds : \E pks \in SUBSET (Events \cup Deliveries) : Select(kind, pks)
  \/ \E pk \in Events \cup Deliveries :
       resend # None /\ pk \in resend.todo
         /\ (Repeat(pk) \/ NotFound(pk) \/ Skip(pk) \/ ForceRow(pk) \/ Raises(pk))
  \/ CommitBatch \/ FailBatch \/ CloseReport
  \/ \E e \in Events : End(e) \/ DeleteEvent(e)
  \/ \E d \in Deliveries : DeleteDelivery(d)

BatchSpec == BatchInit /\ [][BatchNext]_batchVars
-----------------------------------------------------------------------------
(* A report without an error is true: each delivery it counts is committed,  *)
(* one per event however many of its rows were selected, and the worker     *)
(* knows. With an error it need not be: what was flushed before it is gone.  *)
CleanReportIsTrue ==
  (report # None /\ report.errors = 0) =>
    /\ \A e \in Events : report.committed[e] <= 1
    /\ report.enqueued = Cardinality({e \in Events : report.committed[e] > 0})
    /\ report.notified <=> \E e \in Events : report.committed[e] > 0
=============================================================================
