--------------------------- MODULE MCWebhookDelivery ---------------------------
(* Small instances of WebhookDelivery for TLC.                             *)
EXTENDS WebhookDelivery, TLC

\* Sound for the safety runs only: liveness is checked without symmetry.
Symmetry == Permutations(Rows) \cup Permutations(Workers) \cup Permutations(Writers)

AllFaults == FaultKinds
NoFaults == {}
===============================================================================
