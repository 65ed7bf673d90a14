----------------------------- MODULE MCDelivery -----------------------------
(* Small instances of the two modules between the feed and the receiver,   *)
(* which meet in the table of deliveries: WebhookDelivery under every      *)
(* fault, and EventPipeline with one walk.  In each behaviour one of them  *)
(* moves, the other stays as it starts.                                    *)
EXTENDS MCWebhookDelivery, MCEventPipeline

VARIABLE part

DeliveryInit == part \in {"queue", "pipeline"} /\ Init /\ PipelineInit
Delivers(A) == part = "queue" /\ A /\ UNCHANGED <<part, pipelineVars>>
Ingests(A) == part = "pipeline" /\ A /\ UNCHANGED <<part, vars>>
DeliveryNext == Delivers(Next) \/ Ingests(PipelineNext)
DeliverySpec == DeliveryInit /\ [][DeliveryNext]_<<part, vars, pipelineVars>>
=============================================================================
