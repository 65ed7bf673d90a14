---------------------------- MODULE TeamDirectory ----------------------------
(***************************************************************************)
(* The team rows of one league, written by two sides that know a team by   *)
(* different things: the walk by the provider's key and the name of the    *)
(* day (ingest/upserts.py), the registry file by its canonical name        *)
(* (ingest/registry.py). Each is a transaction that reads first and writes *)
(* the columns it changed when it commits. A row's primary key and its     *)
(* team_id are a provider key or the slug of a name ("_canon:..."), here   *)
(* the name itself.                                                        *)
(***************************************************************************)
EXTENDS Naturals, FiniteSets, Nullable

CONSTANTS
  Names, ProviderKeys,    \* team names; ids at the provider
  Feeds,          \* what the provider may send: key -> its team's name
  Registries,     \* what the file may hold: canonical name -> key or None
  Overlap         \* may a load run beside a walk?

ASSUME DirectoryAssumption ==
  /\ Names \cap ProviderKeys = {} /\ None \notin Names \cup ProviderKeys
  /\ None \notin Registries
  /\ Feeds \subseteq [ProviderKeys -> Names]
  /\ \A reg \in Registries :
       /\ DOMAIN reg \subseteq Names /\ IsFiniteSet(DOMAIN reg)
       /\ \A c \in DOMAIN reg : reg[c] \in ProviderKeys \cup {None}
  /\ Overlap \in BOOLEAN

TeamIds == ProviderKeys \cup Names
TeamWriters == {"walk", "load"}
Team == [team_id : TeamIds, canonical_name : Names, odds_api_io_key : ProviderKeys \cup {None}]

VARIABLES
  team,      \* primary key -> row
  feed, reg, \* what provider and file say at present
  tx,        \* per side its transaction: the rows as read and as wanted, or None
  loaded     \* the registry as last applied, if the rows still are as it left them

directoryVars == <<team, feed, reg, tx, loaded>>

DirectoryTypeOK ==
  /\ DOMAIN team \subseteq TeamIds /\ \A p \in DOMAIN team : team[p] \in Team
  /\ feed \in Feeds /\ reg \in Registries
  /\ \A s \in TeamWriters : tx[s] # None =>
       /\ DOMAIN tx[s].base \subseteq DOMAIN tx[s].want
       /\ \A p \in DOMAIN tx[s].want : tx[s].want[p] \in Team
  /\ loaded \in Registries \cup {None}

DirectoryInit ==
  /\ team = <<>> /\ feed \in Feeds /\ reg \in Registries
  /\ tx = [s \in TeamWriters |-> None] /\ loaded = None

ByName(rows, c) == {p \in DOMAIN rows : rows[p].canonical_name = c}
ByTeamId(rows, i) == {p \in DOMAIN rows : rows[p].team_id = i}
ByPk(rows, p) == {p} \cap DOMAIN rows
-----------------------------------------------------------------------------
(* upsert_team_from_spec: by primary key, then by name; an existing key is  *)
(* left alone.                                                             *)
FeedRowByPk(k, n) == ByPk(team, k)
FeedRow(k, n) == IF ByPk(team, k) # {} THEN ByPk(team, k) ELSE ByName(team, n)

Surfaced(row, k) ==
  [row EXCEPT !.team_id = k,
              !.odds_api_io_key = IF row.odds_api_io_key = None THEN k ELSE row.odds_api_io_key]
WalkUpserts(k, n) ==
  IF FeedRow(k, n) = {}
  THEN {Put(team, k, [team_id |-> k, canonical_name |-> n, odds_api_io_key |-> k])}
  ELSE {[team EXCEPT ![p] = Surfaced(team[p], k)] : p \in FeedRow(k, n)}

(* _upsert_team_from_entry: autoflush is off, so that the three lookups see *)
(* the rows as they were, and the row found as it has become.               *)
EntryRow(c, k) ==
  LET fallback == IF k = None THEN {} ELSE ByTeamId(team, k)
      last == ByPk(team, IF k = None THEN c ELSE k)
  IN IF ByName(team, c) # {} THEN ByName(team, c)
     ELSE IF fallback # {} THEN fallback ELSE last

EntryIds(c, k) ==
  IF EntryRow(c, k) # {} THEN EntryRow(c, k) ELSE {IF k = None THEN c ELSE k}

(* What the last entry c to reach row p leaves of it, with its key k: the   *)
(* id is of the last entry that had one, lastKey.                           *)
EntryWritesKeyless(p, c, k, lastKey) ==
  [team_id |-> IF lastKey # None THEN lastKey
               ELSE IF p \in DOMAIN team THEN team[p].team_id ELSE p,
   canonical_name |-> c, odds_api_io_key |-> IF p \in DOMAIN team THEN k ELSE None]
EntryWrites(p, c, k, lastKey) ==
  [team_id |-> IF lastKey # None THEN lastKey
               ELSE IF p \in DOMAIN team THEN team[p].team_id ELSE p,
   canonical_name |-> c, odds_api_io_key |-> k]

(* apply_registry_to_db: entry by entry, in whatever order the file has;    *)
(* two that would insert the same row fail the load.                        *)
Orders(S) == {fromEnd \in [S -> 1 .. Cardinality(S)] :
               \A c, d \in S : fromEnd[c] = fromEnd[d] => c = d}
LastOf(E, fromEnd) == CHOOSE c \in E : \A d \in E : fromEnd[c] <= fromEnd[d]
LastKey(file, E, fromEnd) ==
  LET keyed == {c \in E : file[c] # None}
  IN IF keyed = {} THEN None ELSE file[LastOf(keyed, fromEnd)]

Reaches(file) ==
  {at \in [DOMAIN file -> TeamIds] :
     /\ \A c \in DOMAIN file : at[c] \in EntryIds(c, file[c])
     /\ \A c, d \in DOMAIN file : c # d /\ at[c] = at[d] => at[c] \in DOMAIN team}
At(at, p) == {c \in DOMAIN at : at[c] = p}
AfterLoad(file, at, fromEnd) ==
  [p \in DOMAIN team \cup {at[c] : c \in DOMAIN file} |->
     IF At(at, p) = {} THEN team[p]
     ELSE EntryWrites(p, LastOf(At(at, p), fromEnd), file[LastOf(At(at, p), fromEnd)],
                      LastKey(file, At(at, p), fromEnd))]
Applied(file) ==
  {AfterLoad(file, at, fromEnd) : at \in Reaches(file), fromEnd \in Orders(DOMAIN file)}

MayOpen(s) == tx[s] = None /\ (Overlap \/ \A o \in TeamWriters : tx[o] = None)

OpenTx(s, wanted) ==
  \E rows \in wanted : tx' = [tx EXCEPT ![s] = [base |-> team, want |-> rows]]

WalkTeam(k) ==
  /\ MayOpen("walk") /\ OpenTx("walk", WalkUpserts(k, feed[k]))
  /\ UNCHANGED <<team, feed, reg, loaded>>

LoadRegistry ==
  /\ MayOpen("load") /\ OpenTx("load", Applied(reg))
  /\ UNCHANGED <<team, feed, reg, loaded>>

(* The column diff of a transaction, on the rows as they are by now. *)
Merged(b, w) ==
  [p \in DOMAIN team \cup DOMAIN w |->
     IF p \notin DOMAIN b THEN (IF p \in DOMAIN w THEN w[p] ELSE team[p])
     ELSE [f \in DOMAIN team[p] |-> Column(b[p][f], w[p][f], team[p][f])]]

(* The primary key, and UQ(league_id, team_id), which is not deferred: an   *)
(* id that another row only gives up in the same flush is refused as well.  *)
Unique(rows) == \A p, q \in DOMAIN rows : rows[p].team_id = rows[q].team_id => p = q
Accepted(b, w) ==
  /\ (DOMAIN w \ DOMAIN b) \cap DOMAIN team = {}
  /\ Unique(Merged(b, w))
  /\ \A p, q \in DOMAIN w :
       p \in DOMAIN b /\ q \in DOMAIN b /\ p # q => b[p].team_id # w[q].team_id

CommitTeams(s) ==
  /\ tx[s] # None /\ Accepted(tx[s].base, tx[s].want)
  /\ team' = Merged(tx[s].base, tx[s].want)
  /\ loaded' = IF s = "load" THEN reg ELSE IF team' = team THEN loaded ELSE None
  /\ tx' = [tx EXCEPT ![s] = None]
  /\ UNCHANGED <<feed, reg>>

(* IntegrityError: a walk skips the event, a load fails as a whole. *)
RefusedTeams(s) ==
  /\ tx[s] # None /\ ~Accepted(tx[s].base, tx[s].want)
  /\ tx' = [tx EXCEPT ![s] = None]
  /\ UNCHANGED <<team, feed, reg, loaded>>

FeedChanges == feed' \in Feeds \ {feed} /\ UNCHANGED <<team, reg, tx, loaded>>
FileChanges ==
  /\ tx["load"] = None
  /\ reg' \in Registries \ {reg} /\ loaded' = None
  /\ UNCHANGED <<team, feed, tx>>

DirectoryNext ==
  \/ \E k \in ProviderKeys : WalkTeam(k)
  \/ LoadRegistry \/ FeedChanges \/ FileChanges
  \/ \E s \in TeamWriters : CommitTeams(s) \/ RefusedTeams(s)

DirectorySpec == DirectoryInit /\ [][DirectoryNext]_directoryVars
-----------------------------------------------------------------------------
(* Which club a name is, in the provider's feed and in the file alike; and  *)
(* that the file has one name for each.                                     *)
ClubsAgree(Club) ==
  /\ \A f \in Feeds, k \in ProviderKeys : Club[f[k]] = k
  /\ \A file \in Registries : \A c \in DOMAIN file : file[c] \in {None, Club[c]}
OneNameEach(Club) ==
  \A file \in Registries : \A c, d \in DOMAIN file : Club[c] = Club[d] => c = d
ClubsKnown == \E Club \in [Names -> ProviderKeys] : ClubsAgree(Club)
ClubsListedOnce == \E Club \in [Names -> ProviderKeys] : ClubsAgree(Club) /\ OneNameEach(Club)

(* No two rows are the same team, by name or by key, so that its events are *)
(* not split between them.                                                 *)
OneRowPerTeam ==
  \A p, q \in DOMAIN team : p # q =>
    /\ team[p].canonical_name # team[q].canonical_name
    /\ team[p].odds_api_io_key = None \/ team[p].odds_api_io_key # team[q].odds_api_io_key

(* Loading an unchanged registry again changes nothing (registry.py:204).   *)
RegistryRerun ==
  (loaded = reg /\ tx["load"] # None /\ tx["load"].base = team) => tx["load"].want = team

(* No unique key ever turns a walk or a load away.                          *)
NobodyRefused == \A s \in TeamWriters : tx[s] # None => Accepted(tx[s].base, tx[s].want)
=============================================================================
