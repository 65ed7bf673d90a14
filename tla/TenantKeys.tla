------------------------------ MODULE TenantKeys ------------------------------
(***************************************************************************)
(* The users that MDProject mirrors here, and their API keys               *)
(* (api/internal.py, models/tenant.py): a user is provisioned with a key,  *)
(* a rotation revokes what keys there are and issues another, entitlements *)
(* are pushed. Each call reads, and commits the columns it changed; the    *)
(* answer is the only place a key is ever seen. Requests are let in by the *)
(* key they show (deps.py).                                                *)
(***************************************************************************)
EXTENDS Naturals, Nullable

CONSTANTS
  Users,      \* external ids
  Keys,       \* numbered as they are issued: generate_key never repeats one
  Callers, Tiers, UserStatuses,
  Service     \* the external id that may act for others, or None

ASSUME KeysAssumption ==
  Keys \subseteq Nat /\ \A S \in {Users, Keys, Tiers, UserStatuses} : None \notin S

VARIABLES
  tenant,     \* user -> row
  key,        \* key -> row
  call,       \* per caller the transaction under way, or None
  rotated,    \* the keys that were there when a rotation began that succeeded
  sent        \* user -> tiers and statuses that calls have brought

tenantVars == <<tenant, key, call, rotated, sent>>

TenantUser == [tier : Tiers, status : UserStatuses, revoked : BOOLEAN]
TenantApiKey == [owner : Users, revoked : BOOLEAN]
Call ==
  [op : {"provision", "entitle", "rotate"}, user : Users, base : TenantUser \cup {None},
   want : TenantUser, live : SUBSET Keys, all : SUBSET Keys, issues : Keys \cup {None}]

TenantTypeOK ==
  /\ DOMAIN tenant \subseteq Users /\ \A u \in DOMAIN tenant : tenant[u] \in TenantUser
  /\ DOMAIN key \subseteq Keys /\ \A k \in DOMAIN key : key[k] \in TenantApiKey
  /\ call \in [Callers -> Call \cup {None}]
  /\ rotated \subseteq DOMAIN key /\ sent \in [Users -> SUBSET (Tiers \X UserStatuses)]

TenantInit ==
  /\ tenant = <<>> /\ key = <<>> /\ call = [c \in Callers |-> None] /\ rotated = {}
  /\ sent = [u \in Users |-> {}]

-----------------------------------------------------------------------------
(* deps.py: require_tenant_user, and require_acting_tenant_user for a user   *)
(* that the caller names.                                                   *)
Authenticated(k) ==
  IF k \notin DOMAIN key THEN None
  ELSE IF key[k].revoked \/ tenant[key[k].owner].revoked THEN None
  ELSE key[k].owner

Acting(k, named) ==
  LET self == Authenticated(k)
      known == named \in DOMAIN tenant /\ ~tenant[named].revoked
  IN CASE self = None \/ named \in {None, self} -> self
       [] OTHER -> IF self = Service /\ known THEN named ELSE None

KeysOf(u) == {k \in DOMAIN key : key[k].owner = u}
Live(u) == {k \in KeysOf(u) : ~key[k].revoked}
Issued == DOMAIN key \cup ({call[c].issues : c \in {d \in Callers : call[d] # None}} \ {None})

Fresh == {k \in Keys \ Issued : \A l \in Keys \ Issued : k <= l}

BeginCall(c, op, u, want, issues) ==
  /\ call[c] = None
  /\ call' = [call EXCEPT ![c] =
       [op |-> op, user |-> u, base |-> IF u \in DOMAIN tenant THEN tenant[u] ELSE None,
        want |-> want, live |-> Live(u), all |-> KeysOf(u), issues |-> issues]]
  /\ sent' = [sent EXCEPT ![u] = IF op = "rotate" THEN @ ELSE @ \cup {<<want.tier, want.status>>}]
  /\ UNCHANGED <<tenant, key, rotated>>

(* A user that is there already is answered without a key. *)
ProvisionUser(c, u, tier, status) ==
  /\ u \notin DOMAIN tenant
  /\ \E k \in Fresh : BeginCall(c, "provision", u, [tier |-> tier, status |-> status, revoked |-> FALSE], k)

UpdateEntitlements(c, u, tier, status) ==
  /\ u \in DOMAIN tenant
  /\ BeginCall(c, "entitle", u, [tenant[u] EXCEPT !.tier = tier, !.status = status], None)

RotateApiKey(c, u) ==
  /\ u \in DOMAIN tenant
  /\ \E k \in Fresh : BeginCall(c, "rotate", u, tenant[u], k)

(* UQ(external_user_id): of two provisions at once the second is a 500.      *)
Provisioned(r) ==
  IF r.user \in DOMAIN tenant THEN UNCHANGED <<tenant, key, rotated>>
  ELSE /\ tenant' = Put(tenant, r.user, r.want)
       /\ key' = Put(key, r.issues, [owner |-> r.user, revoked |-> FALSE])
       /\ UNCHANGED rotated

Entitled(r) ==
  /\ tenant' = [tenant EXCEPT ![r.user] =
       [f \in DOMAIN @ |-> Column(r.base[f], r.want[f], @[f])]]
  /\ UNCHANGED <<key, rotated>>

(* "revokes ALL active keys", as it saw them. *)
RevokesOne(r) == IF r.live = {} THEN {} ELSE {CHOOSE k \in r.live : TRUE}
Revokes(r) == r.live
Rotated(r) ==
  /\ key' = Put([k \in DOMAIN key |-> [key[k] EXCEPT !.revoked = @ \/ k \in Revokes(r)]],
                r.issues, [owner |-> r.user, revoked |-> FALSE])
  /\ rotated' = rotated \cup r.all
  /\ UNCHANGED tenant

CommitCall(c) ==
  /\ call[c] # None
  /\ CASE call[c].op = "provision" -> Provisioned(call[c])
       [] call[c].op = "entitle" -> Entitled(call[c])
       [] OTHER -> Rotated(call[c])
  /\ call' = [call EXCEPT ![c] = None] /\ UNCHANGED sent

FailCall(c) ==
  /\ call[c] # None /\ call' = [call EXCEPT ![c] = None]
  /\ UNCHANGED <<tenant, key, rotated, sent>>

(* No code of the program does so: somebody revokes the row in the database. *)
RevokeUser(u) ==
  /\ u \in DOMAIN tenant /\ ~tenant[u].revoked
  /\ tenant' = [tenant EXCEPT ![u].revoked = TRUE]
  /\ UNCHANGED <<key, call, rotated, sent>>

TenantNext ==
  \/ \E c \in Callers :
       \/ CommitCall(c) \/ FailCall(c)
       \/ \E u \in Users : \E tier \in Tiers, status \in UserStatuses :
            UpdateEntitlements(c, u, tier, status) \/ ProvisionUser(c, u, tier, status)
       \/ \E u \in Users : RotateApiKey(c, u)
  \/ \E u \in Users : RevokeUser(u)

TenantSpec == TenantInit /\ [][TenantNext]_tenantVars
-----------------------------------------------------------------------------
(* However calls overlap, no key that was there when a successful rotation   *)
(* began lets anybody in again ("Revoke every live key for this user",       *)
(* api/internal.py:209), while its user is never left without a key, and     *)
(* the service can act for it.                                              *)
RotationRevokes ==
  /\ \A k \in rotated, u \in Users : Acting(k, u) = None
  /\ \A u \in DOMAIN tenant : ~tenant[u].revoked =>
       /\ \E k \in Keys : Acting(k, None) = u
       /\ (Service \in DOMAIN tenant /\ ~tenant[Service].revoked) =>
            \E k \in KeysOf(Service) : Acting(k, u) = u

(* A user has the tier and the status that one call brought. Not so when two *)
(* calls overlap and each changes the column that the other leaves.         *)
EntitlementAsSent ==
  \A u \in DOMAIN tenant : <<tenant[u].tier, tenant[u].status>> \in sent[u]
=============================================================================
