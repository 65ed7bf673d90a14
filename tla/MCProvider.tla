----------------------------- MODULE MCProvider -----------------------------
(* Small instances of the components at the two ends: the provider's side,  *)
(* and the queue towards the receiver.  In each behaviour one of them moves, *)
(* the others stay as they start.                                          *)
EXTENDS OddsApiClient, MCWalk, ProviderCatalog, WebhookDelivery

VARIABLE part

MCSlug(b, p) == [base |-> b, phase |-> p]
MCDerive == [b \in Bases |-> "A"]
MCMangle == [b \in Bases |-> IF b = "c" THEN "C1" ELSE "A1"]
MCShipped == "B" :> MCSlug("b", "none")
MCShippedSport == <<>>
MCListings ==
  {{<<"x", MCSlug("a", p)>>, <<"x", MCSlug("b", p)>>, <<"y", MCSlug("c", q)>>,
    <<"y", MCSlug("a", q)>>} : p, q \in {"none", "playoffs"}}

-----------------------------------------------------------------------------
Parts == {"client", "walk", "catalog", "queue"}

ProviderInit ==
  /\ part \in Parts
  /\ ClientInit /\ WalkInit /\ CatalogInit /\ Init
  /\ part # "walk" => season = MCListing(1, None)

Asks(A) == part = "client" /\ A /\ UNCHANGED <<part, walkVars, catalogVars, vars>>
Walks(A) == part = "walk" /\ A /\ UNCHANGED <<part, clientVars, catalogVars, vars>>
Builds(A) == part = "catalog" /\ A /\ UNCHANGED <<part, clientVars, walkVars, vars>>
Delivers(A) == part = "queue" /\ A /\ UNCHANGED <<part, clientVars, walkVars, catalogVars>>

ProviderNext ==
  Asks(ClientNext) \/ Walks(WalkNext) \/ Builds(CatalogNext) \/ Delivers(Next)

providerVars == <<part, clientVars, walkVars, catalogVars, vars>>

\* The bucket fills up every hour, and the worker goes on; writers notify it
\* after their commit, and it takes its jobs and goes through with them.  As a
\* behaviour is of one part, a condition may name an action of two.
Notifies(w) == NotifyWorker(w) \/ NotifyLost(w)
ProviderSpec ==
  /\ ProviderInit /\ [][ProviderNext]_providerVars
  /\ WF_providerVars(Walks(Refill) \/ Delivers(Notifies("w1")))
  /\ WF_providerVars(Walks(WorkerStep("worker")) \/ Delivers(Notifies("w2")))
  /\ WF_providerVars(Delivers(PickDue("k")))
  /\ WF_providerVars(Delivers(DrainStep("k")))
=============================================================================
