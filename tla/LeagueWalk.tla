----------------------------- MODULE LeagueWalk -----------------------------
(***************************************************************************)
(* The tasks that call the provider: seeding sports and leagues            *)
(* (ingest/seed.py), walking the due leagues (workers/tasks/ingest.py,      *)
(* orchestrator.ingest_due_leagues) and the full refresh that does both.   *)
(* They share the hourly bucket of requests and the rows of sports and     *)
(* leagues with the operator who switches them on and off. What a walk     *)
(* does to the events of a league is EventPipeline; what a single call      *)
(* does is OddsApiClient, of which only OddsApiExchange matters here.      *)
(***************************************************************************)
EXTENDS Naturals, Sequences, SequencesExt, Nullable

CONSTANTS
  OurSports, Leagues, ListedSlugs, \* season phases under which leagues are listed
  SportOf,                \* league -> sport (LEAGUE_TO_SPORT)
  LeagueOf,               \* slug -> league (match_league_slug)
  Base,                   \* league -> its base slug (INTERNAL_TO_ODDSAPI_LEAGUE)
  ListOrder,              \* the order in which /leagues names the slugs
  Seasons,                \* what the provider may list: slug -> eventsCount or None
  Requests, ThrottleAt,
  Walkers, WalkFaults

ASSUME WalkAssumption ==
  /\ SportOf \in [Leagues -> OurSports] /\ LeagueOf \in [ListedSlugs -> Leagues]
  /\ Base \in [Leagues -> ListedSlugs] /\ \A l \in Leagues : LeagueOf[Base[l]] = l
  /\ Range(ListOrder) = ListedSlugs
  /\ Seasons \subseteq [ListedSlugs -> Nat \cup {None}]
  /\ Requests \in Nat \ {0} /\ ThrottleAt \in 1..100
  /\ WalkFaults \subseteq {"outage", "operator"}

Jobs == {"ingest", "seed_sports", "seed_leagues", "full_refresh"}
Stages == {"idle", "quota", "sports", "select", "lists", "seed", "plan",
           "walk", "odds"}
Switch == {"absent", "off", "on"}

VARIABLES
  season,          \* what the provider lists now
  budget,            \* requests left this hour
  sport, league,   \* the rows, by their active flag
  stage, job,         \* per worker
  half,            \* which half of its job a worker is in
  lists,           \* _leagues_cache: per sport the list as fetched, or None
  ahead,            \* leagues still to walk
  walking              \* the league being walked with the slug asked for, or None

switches == <<sport, league>>
run == <<stage, job, half, lists, ahead, walking>>
walkVars == <<season, budget, switches, run>>

Entry == [slug : ListedSlugs, count : Nat]
NoLists == [s \in OurSports |-> None]

WalkTypeOK ==
  /\ season \in Seasons /\ budget \in 0..Requests
  /\ sport \in [OurSports -> Switch] /\ league \in [Leagues -> Switch]
  /\ stage \in [Walkers -> Stages] /\ job \in [Walkers -> Jobs]
  /\ half \in [Walkers -> {"seed", "ingest"}]
  /\ \A w \in Walkers, s \in OurSports :
       lists[w][s] = None \/ Range(lists[w][s]) \subseteq Entry
  /\ ahead \in [Walkers -> SUBSET Leagues]
  /\ \A w \in Walkers : walking[w] = None \/ walking[w] \in Leagues \X ListedSlugs

WalkInit ==
  /\ season \in Seasons /\ budget = Requests
  /\ sport = [s \in OurSports |-> "absent"] /\ league = [l \in Leagues |-> "absent"]
  /\ stage = [w \in Walkers |-> "idle"] /\ job = [w \in Walkers |-> "ingest"]
  /\ half = [w \in Walkers |-> "ingest"] /\ lists = [w \in Walkers |-> NoLists]
  /\ ahead = [w \in Walkers |-> {}] /\ walking = [w \in Walkers |-> None]

-----------------------------------------------------------------------------
(* One call, as OddsApiExchange has it. *)
Granted == budget > 0 /\ budget' = budget - 1
Refused ==
  \/ budget = 0 /\ UNCHANGED budget
  \/ "outage" \in WalkFaults /\ budget' \in {budget} \cup (IF budget > 0 THEN {budget - 1} ELSE {})

MoveTo(w, to) == stage' = [stage EXCEPT ![w] = to]

(* A run ends, returning or raising: its client goes with it. *)
Over(w) ==
  /\ MoveTo(w, "idle")
  /\ lists' = [lists EXCEPT ![w] = NoLists]
  /\ ahead' = [ahead EXCEPT ![w] = {}] /\ walking' = [walking EXCEPT ![w] = None]
  /\ UNCHANGED <<season, switches, job, half>>

(* A task builds its client. Only the walks look at the quota; the full     *)
(* refresh does so with a client of its own before it starts seeding.       *)
BeginJob(w, j) ==
  /\ stage[w] = "idle"
  /\ job' = [job EXCEPT ![w] = j]
  /\ half' = [half EXCEPT ![w] = IF j = "ingest" THEN "ingest" ELSE "seed"]
  /\ MoveTo(w, CASE j \in {"ingest", "full_refresh"} -> "quota"
               [] j = "seed_sports" -> "sports"
               [] j = "seed_leagues" -> "lists")
  /\ UNCHANGED <<season, budget, switches, lists, ahead, walking>>

OverQuotaRatio(remaining) == (Requests - remaining) * 100 >= ThrottleAt
OverQuota(remaining) ==
  ThrottleAt < 100 /\ (Requests - remaining) * 100 >= ThrottleAt * Requests

(* The probe's own request is counted. A 429 carries the headers as well; a *)
(* failed probe leaves none and never blocks the run.                       *)
Quota(w) ==
  /\ stage[w] = "quota"
  /\ LET go == MoveTo(w, IF half[w] = "seed" THEN "sports" ELSE "select")
               /\ UNCHANGED <<season, switches, job, half, lists, ahead, walking>>
     IN \/ Granted /\ IF OverQuota(budget') THEN Over(w) ELSE go
        \/ budget = 0 /\ UNCHANGED budget /\ IF OverQuota(0) THEN Over(w) ELSE go
        \/ budget > 0 /\ Refused /\ go

FetchSports(w) ==
  /\ stage[w] = "sports"
  /\ \/ /\ Granted
        /\ MoveTo(w, IF job[w] = "seed_sports" THEN "seed" ELSE "lists")
        /\ UNCHANGED <<season, switches, job, half, lists, ahead, walking>>
     \/ Refused /\ Over(w)

(* /leagues of one sport, in the provider's order. *)
ListOf(s) ==
  LET here == SelectSeq(ListOrder, LAMBDA g : SportOf[LeagueOf[g]] = s /\ season[g] # None)
  IN [i \in DOMAIN here |-> [slug |-> here[i], count |-> season[here[i]]]]

(* _leagues_for_sport: a failure is cached as an empty list. *)
FetchList(w, s) ==
  /\ stage[w] = "lists" /\ lists[w][s] = None
  /\ \E list \in {ListOf(s), <<>>} :
       /\ (list = ListOf(s) /\ Granted) \/ (list = <<>> /\ Refused)
       /\ lists' = [lists EXCEPT ![w][s] = list]
  /\ UNCHANGED <<season, switches, stage, job, half, ahead, walking>>

ListsDone(w) ==
  /\ stage[w] = "lists" /\ \A s \in OurSports : lists[w][s] # None
  /\ MoveTo(w, IF half[w] = "seed" THEN "seed" ELSE "plan")
  /\ UNCHANGED <<season, budget, switches, job, half, lists, ahead, walking>>

Matches(w, l) ==
  SelectSeq(lists[w][SportOf[l]], LAMBDA e : LeagueOf[e.slug] = l)

(* upsert_sport_from_spec, upsert_league_from_spec: new rows are off and the *)
(* flag of an old one is kept.                                              *)
InsertedOn(flag) == IF flag = "absent" THEN "on" ELSE flag
Inserted(flag) == IF flag = "absent" THEN "off" ELSE flag

(* seed_all in one transaction; leagues only of sports that are on. *)
Seed(w) ==
  /\ stage[w] = "seed"
  /\ IF job[w] = "seed_leagues" THEN UNCHANGED sport
     ELSE sport' = [s \in OurSports |-> Inserted(sport[s])]
  /\ IF job[w] = "seed_sports" THEN UNCHANGED league
     ELSE league' = [l \in Leagues |->
            IF sport'[SportOf[l]] = "on" /\ Matches(w, l) # <<>>
            THEN Inserted(league[l]) ELSE league[l]]
  /\ lists' = [lists EXCEPT ![w] = NoLists]
  /\ half' = [half EXCEPT ![w] = "ingest"]
  /\ MoveTo(w, IF job[w] = "full_refresh" THEN "quota" ELSE "idle")
  /\ UNCHANGED <<season, budget, job, ahead, walking>>

SelectDue(w) ==
  /\ stage[w] = "select"
  /\ ahead' = [ahead EXCEPT ![w] =
       {l \in Leagues : league[l] = "on" /\ sport[SportOf[l]] = "on"}]
  /\ MoveTo(w, "lists")
  /\ UNCHANGED <<season, budget, switches, job, half, lists, walking>>

(* get_league_activity: the last of several slugs of a league counts, and   *)
(* ingest_due_leagues leaves out what it says zero of.                      *)
Idle(w, l) == LET found == Matches(w, l) IN found # <<>> /\ Last(found).count = 0

Plan(w) ==
  /\ stage[w] = "plan"
  /\ ahead' = [ahead EXCEPT ![w] = {l \in @ : ~Idle(w, l)}]
  /\ MoveTo(w, "walk")
  /\ UNCHANGED <<season, budget, switches, job, half, lists, walking>>

(* _resolve_live_league_slug: the first slug listed, else the base slug. *)
SlugFor(w, l) ==
  LET found == Matches(w, l) IN IF found = <<>> THEN Base[l] ELSE Head(found).slug

(* get_events asks for /events; a failure leaves ingest_due_leagues, and    *)
(* the leagues after this one are not walked.                               *)
WalkLeague(w, l) ==
  /\ stage[w] = "walk" /\ l \in ahead[w]
  /\ \/ /\ Granted
        /\ ahead' = [ahead EXCEPT ![w] = @ \ {l}]
        /\ walking' = [walking EXCEPT ![w] = <<l, SlugFor(w, l)>>]
        /\ MoveTo(w, "odds")
        /\ UNCHANGED <<season, switches, job, half, lists>>
     \/ Refused /\ Over(w)

(* _flush_pending: at most one batch of odds here; if it fails the events    *)
(* come without odds. Then the league is committed.                         *)
Odds(w) ==
  /\ stage[w] = "odds"
  /\ Granted \/ Refused \/ UNCHANGED budget
  /\ walking' = [walking EXCEPT ![w] = None]
  /\ MoveTo(w, "walk")
  /\ UNCHANGED <<season, switches, job, half, lists, ahead>>

Done(w) == stage[w] = "walk" /\ ahead[w] = {} /\ Over(w) /\ UNCHANGED budget

(* The operator, in the admin site. *)
Flip(flag) == IF flag = "on" THEN "off" ELSE "on"
ToggleSport(s) ==
  /\ "operator" \in WalkFaults /\ sport[s] # "absent"
  /\ sport' = [sport EXCEPT ![s] = Flip(@)]
  /\ UNCHANGED <<season, budget, league, run>>
ToggleLeague(l) ==
  /\ "operator" \in WalkFaults /\ league[l] # "absent"
  /\ league' = [league EXCEPT ![l] = Flip(@)]
  /\ UNCHANGED <<season, budget, sport, run>>

SeasonMoves == season' \in Seasons \ {season} /\ UNCHANGED <<budget, switches, run>>
Refill == budget # Requests /\ budget' = Requests /\ UNCHANGED <<season, switches, run>>

WorkerStep(w) ==
  \/ Quota(w) \/ FetchSports(w) \/ ListsDone(w) \/ Seed(w) \/ SelectDue(w)
  \/ Plan(w) \/ Odds(w) \/ Done(w)
  \/ \E s \in OurSports : FetchList(w, s)
  \/ \E l \in Leagues : WalkLeague(w, l)

WalkNext ==
  \/ \E w \in Walkers : WorkerStep(w) \/ \E j \in Jobs : BeginJob(w, j)
  \/ \E s \in OurSports : ToggleSport(s)
  \/ \E l \in Leagues : ToggleLeague(l)
  \/ SeasonMoves \/ Refill

WalkSpec == WalkInit /\ [][WalkNext]_walkVars

(* What has begun goes on, and hours pass. *)
FairWalkSpec ==
  WalkSpec /\ WF_walkVars(Refill) /\ \A w \in Walkers : WF_walkVars(WorkerStep(w))
-----------------------------------------------------------------------------
(* Seeding again never undoes what the operator switched, never removes a   *)
(* row, and brings new rows in switched off: only a hand turns one on.      *)
TogglesStick ==
  [][/\ \A s \in OurSports : sport'[s] # sport[s] =>
          (sport'[s] = "off" /\ sport[s] = "absent") \/ UNCHANGED run
     /\ \A l \in Leagues : league'[l] # league[l] =>
          (league'[l] = "off" /\ league[l] = "absent") \/ UNCHANGED run]_switches

(* The league is switched on, and every slug of it that is listed has events. *)
DueToWalk(l) ==
  /\ league[l] = "on" /\ sport[SportOf[l]] = "on"
  /\ \A g \in ListedSlugs : LeagueOf[g] = l => season[g] # 0

(* As long as walks keep starting on a full bucket, as the hourly cron does,  *)
(* every league that is due and stays so is walked again and again, in        *)
(* whatever order the rows come and however often the season's slugs change. *)
EveryLeagueWalked ==
  []<><<\E w \in Walkers : BeginJob(w, "ingest") /\ budget = Requests>>_walkVars =>
    \A l \in Leagues :
      []<>(~DueToWalk(l)) \/ []<>(\E w \in Walkers : walking[w] # None /\ walking[w][1] = l)
=============================================================================
