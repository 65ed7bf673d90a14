---------------------------- MODULE DeliveryLedger ----------------------------
(***************************************************************************)
(* What the webhook queue promises its single receiver (MDProject), with   *)
(* no workers, jobs, locks, snapshots or retries in sight.                 *)
(*                                                                         *)
(* A delivery row is submitted once.  While it is undelivered it may be    *)
(* POSTed any number of times, never twice at the same moment; the         *)
(* receiver may process any of those POSTs.  A row is booked as delivered  *)
(* only when the receiver has processed it, and from then on it is never   *)
(* POSTed again.  A row may be discarded with its event at any time, even  *)
(* under a POST that is on the wire.                                       *)
(***************************************************************************)
CONSTANT Rows                  \* identities of webhook_delivery rows

VARIABLES
  status,                      \* status[r]: where the row is in its life
  accepted,                    \* rows the receiver has processed
  inflight                     \* rows with a POST whose result is not yet booked

vars == <<status, accepted, inflight>>

Status == {"unused", "pending", "delivered", "gone"}

Init ==
  /\ status = [r \in Rows |-> "unused"]
  /\ accepted = {}
  /\ inflight = {}

\* One transaction brings in the rows of a whole league walk or watchdog pass.
Submit(S) ==
  /\ \A r \in S : status[r] = "unused"
  /\ status' = [r \in Rows |-> IF r \in S THEN "pending" ELSE status[r]]
  /\ UNCHANGED <<accepted, inflight>>

Send(r) ==
  /\ status[r] \in {"pending", "gone"}
  /\ r \notin inflight
  /\ inflight' = inflight \cup {r}
  /\ accepted' \in {accepted, accepted \cup {r}}
  /\ UNCHANGED status

\* The POST is over: booked as delivered, to be sent again, or given up.
Settle(r) ==
  /\ r \in inflight
  /\ inflight' = inflight \ {r}
  /\ \/ status' = status
     \/ /\ status[r] = "pending"
        /\ r \in accepted
        /\ status' = [status EXCEPT ![r] = "delivered"]
  /\ UNCHANGED accepted

Discard(S) ==
  /\ \A r \in S : status[r] \in {"pending", "delivered"}
  /\ status' = [r \in Rows |-> IF r \in S THEN "gone" ELSE status[r]]
  /\ UNCHANGED <<accepted, inflight>>

Next ==
  \/ \E S \in SUBSET Rows : Submit(S) \/ Discard(S)
  \/ \E r \in Rows : Send(r) \/ Settle(r)

Spec == Init /\ [][Next]_vars
===============================================================================
