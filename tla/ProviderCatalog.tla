--------------------------- MODULE ProviderCatalog ---------------------------
(***************************************************************************)
(* ingest/catalog_build.py: the catalog that names leagues, regenerated     *)
(* from the provider's listings again and again, each time on top of the   *)
(* one before; and match_league_slug of odds_api_translate.py, which looks  *)
(* slugs up in it. A slug is a base with a season phase or with none;       *)
(* derived ids are any function of the base, so that two may be equal.      *)
(***************************************************************************)

EXTENDS Nullable

CONSTANTS
  Bases, Phases,        \* what strip_phase leaves, and the suffixes it drops
  NoPhase,
  Sports,               \* provider's sport slugs
  Ids, Derive, Mangle,  \* base -> derive_canonical_id, and its id with a hash
  Shipped,              \* the catalog the repository ships: id -> slug
  ShippedSport,         \* id -> sport
  Listings              \* what the provider may list: sports with slugs

Slugs == [base : Bases, phase : Phases \cup {NoPhase}]
BaseSlug(b) == [base |-> b, phase |-> NoPhase]

Injective(f) == \A i, j \in DOMAIN f : f[i] = f[j] => i = j

ASSUME CatalogAssumption ==
  /\ NoPhase \notin Phases
  /\ Derive \in [Bases -> Ids] /\ Mangle \in [Bases -> Ids]
  /\ DOMAIN Shipped \subseteq Ids /\ Injective(Shipped)
  /\ \A i \in DOMAIN Shipped : Shipped[i] \in {BaseSlug(b) : b \in Bases}
  /\ DOMAIN ShippedSport \subseteq Ids
  /\ \A i \in DOMAIN ShippedSport : ShippedSport[i] \in Sports
  /\ Listings \subseteq SUBSET (Sports \X Slugs)

VARIABLES
  slugOf,     \* LEAGUE_SLUGS as written: id -> slug
  sportOf,    \* LEAGUE_TO_SPORT as written: id -> sport
  draft,      \* league_slugs of the build under way, or of the last
  draftSport, \* league_to_sport of it
  unseen        \* listings not yet looked at: sport and slug, or None

catalogVars == <<slugOf, sportOf, draft, draftSport, unseen>>

CatalogTypeOK ==
  /\ DOMAIN slugOf \subseteq Ids /\ \A i \in DOMAIN slugOf : slugOf[i] \in Slugs
  /\ DOMAIN draft \subseteq Ids /\ \A i \in DOMAIN draft : draft[i] \in Slugs
  /\ DOMAIN sportOf \subseteq Ids /\ \A i \in DOMAIN sportOf : sportOf[i] \in Sports
  /\ DOMAIN draftSport \subseteq Ids /\ \A i \in DOMAIN draftSport : draftSport[i] \in Sports
  /\ unseen = None \/ unseen \subseteq Sports \X Slugs

CatalogInit ==
  /\ slugOf = Shipped /\ sportOf = ShippedSport
  /\ draft = Shipped /\ draftSport = ShippedSport /\ unseen = None

(* seen_bases: the bases of all leagues so far. *)
KnowsNew(b) == \E i \in DOMAIN draft \ DOMAIN slugOf : draft[i] = BaseSlug(b)
Knows(b) == \E i \in DOMAIN draft : draft[i] = BaseSlug(b)

(* build_catalog starts from the catalog it is given; any listing may come. *)
BeginFreshBuild(listing) ==
  /\ unseen = None
  /\ unseen' = listing /\ draft' = <<>> /\ draftSport' = sportOf
  /\ UNCHANGED <<slugOf, sportOf>>
BeginBuild(listing) ==
  /\ unseen = None
  /\ unseen' = listing /\ draft' = slugOf /\ draftSport' = sportOf
  /\ UNCHANGED <<slugOf, sportOf>>

(* A phase of a known league; its sport is filled in if it had none. *)
Collapse(s, g) ==
  /\ <<s, g>> \in unseen /\ Knows(g.base)
  /\ unseen' = unseen \ {<<s, g>>}
  /\ \E i \in DOMAIN draft :
       /\ draft[i] = BaseSlug(g.base)
       /\ draftSport' = IF i \in DOMAIN draftSport THEN draftSport ELSE Put(draftSport, i, s)
  /\ UNCHANGED <<slugOf, sportOf, draft>>

Taken(i, b) == i \in DOMAIN draft /\ draft[i] # BaseSlug(b)
NewId(b) == IF Taken(Derive[b], b) THEN Mangle[b] ELSE Derive[b]

(* A new league under its derived id, or under the mangled one. *)
Add(s, g) ==
  /\ <<s, g>> \in unseen /\ ~Knows(g.base)
  /\ ~Taken(NewId(g.base), g.base)
  /\ unseen' = unseen \ {<<s, g>>}
  /\ draft' = Put(draft, NewId(g.base), BaseSlug(g.base))
  /\ draftSport' = Put(draftSport, NewId(g.base), s)
  /\ UNCHANGED <<slugOf, sportOf>>

(* ValueError: nothing is written. *)
Collides(s, g) ==
  /\ <<s, g>> \in unseen /\ ~Knows(g.base)
  /\ Taken(Derive[g.base], g.base) /\ Taken(Mangle[g.base], g.base)
  /\ unseen' = None
  /\ UNCHANGED <<slugOf, sportOf, draft, draftSport>>

WriteCatalog ==
  /\ unseen = {}
  /\ slugOf' = draft /\ sportOf' = draftSport /\ unseen' = None
  /\ UNCHANGED <<draft, draftSport>>

CatalogNext ==
  \/ \E listing \in Listings : BeginBuild(listing)
  \/ unseen # None /\ \E s \in Sports, g \in Slugs :
       Collapse(s, g) \/ Add(s, g) \/ Collides(s, g)
  \/ WriteCatalog

CatalogSpec == CatalogInit /\ [][CatalogNext]_catalogVars

(* match_league_slug: the exact slug first, then the patterns. *)
Exact(g) == {i \in DOMAIN slugOf : slugOf[i] = g}
ByPattern(g) == {i \in DOMAIN slugOf : slugOf[i] = BaseSlug(g.base)}
Match(g) == IF Exact(g) # {} THEN Exact(g) ELSE ByPattern(g)
-----------------------------------------------------------------------------
(* A regenerated catalog never drops a league and never gives its id to      *)
(* another: events are stored under these ids.                              *)
IdsStick == [][\A i \in DOMAIN slugOf : i \in DOMAIN slugOf' /\ slugOf'[i] = slugOf[i]]_catalogVars

(* Whatever the phase, a slug names one league at most, which does not hang  *)
(* on the order of the dictionary.                                          *)
OneLeaguePerSlug == \A g \in Slugs : \A i, j \in Match(g) : i = j
=============================================================================
