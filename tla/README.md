# aggrigator: a verification project

aggrigator ingests sports events and odds from odds-api.io, stores them in
Postgres, settles selections and bets when a game ends, announces ends of
events to one receiver (MDProject) by signed webhooks, and serves what it
stored. This directory models it in TLA+, checks the models with TLC on small
instances, and proves theorems about the core ones with TLAPS for every value
of their constants.

Paths below are relative to `src/aggrigator/` unless they say otherwise.

## 1. Inventory

Three processes share the database: the web tier (FastAPI, the admin site,
`/ops/crons`), the worker (Procrastinate, `--concurrency 2`, jobs and periodic
ticks stored in Postgres), and Postgres itself. There is no in-memory state
shared between them: they interact through rows, through Procrastinate jobs
with queueing locks, and through Postgres advisory locks. Nearly every hazard
below comes from this: a transaction reads a row through the ORM, something
else commits, and the transaction writes the columns that differ from its copy.

| Component | State | Operations | What is hard | Must hold |
|---|---|---|---|---|
| Webhook queue (`webhooks/deliver.py`, `notify.py`, `workers/tasks/webhook_deliver.py`) | `webhook_delivery` rows, jobs `webhook_deliver:due` and `:retry:<id>`, an advisory lock, the drain's ORM copies | commit and push, pick a job, Run now, select a batch, POST, commit the outcome, defer a retry | two worker slots, an HTTP call between read and write, answers that get lost, rows deleted meanwhile, jobs consumed as "skipped" | one drain at a time, no lost update, booked only if processed, every row attempted |
| Cron runner and console (`ops/recorder.py`, `ops/service.py`) | `cron_run`, `cron_schedule`, Procrastinate jobs, a lock per cron | tick, pick, gate, lock, open row, run, close row, unlock, Run now, pause, truncate | ticks, retries and operators compete; a statement fails in any position; a process dies | runs never overlap, a lock comes back, rows tell the truth |
| Event lifecycle and ingest (`ingest/orchestrator.py`, `upserts.py`, `lifecycle.py`, `webhooks/enqueue.py`) | `core_event_event`, its markets and selections, the webhook rows | the league walk, two crons of it and one by hand | ORM column diffs, savepoint per event and commit per league, idempotency keys, a cheap exit for stable events | every end announced once its news, never undecided |
| Settlement (`ingest/settlement_computed.py`, `settlement_provider.py`, `bet_autosettle.py`) | status and source of each selection, status of each bet | provider grading, computed fallback, lock-in, backfill, bets | two implementations of the same rules, reruns, pushes and draws | sides fit together, sources agree, nothing reopened |
| Disappearance and watchdog (`ingest/odds_api_reconcile.py`, `watchdog.py`) | `last_seen_upstream_at` | reconcile after each walk, scan, auto-void | a clock written by one task and read by another; an event that comes back | what is gone is voided, what returns is right |
| Vacuum, settle-pending (`workers/tasks/vacuum.py`, `settle.py`) | the same rows | delete with cascade, settle what is left | deletes under the queue | nothing deleted untold |
| Market identity, market writer (`ingest/odds_api_translate.py`, `normalize.py`, `ingester.py`) | markets, selections, quotes and their history | translate, group, derive ids, prefetch, bulk upsert | ids derived from what a group has in common; books that disagree; prices read before they are written | ids apart, markets whole, history ends with the price |
| odds-api client and quota (`ingest/odds_api_http.py`, `odds_api_quota.py`) | the budget as the headers tell it | send with retries, wait, give up, judge the quota | retries against an hourly budget that several runs share | one request per call, no call unanswered |
| Catalog, seed, full refresh, due leagues (`ingest/catalog_build.py`, `seed.py`, `orchestrator.py`, `workers/tasks/`) | the catalog file, sports and leagues with their toggles, the lists of a run | build, seed, select, plan, walk | several steps under one budget, season phases, the operator's switches | ids stick, toggles stick, every due league is walked |
| Team identity (`ingest/upserts.py`, `registry.py`) | team rows with three identities | find or create from a feed, load the registry file | two creators with different keys | one row per team, loads idempotent |
| Logos (`ingest/logos.py`, `workers/tasks/logos.py`, `api/logos.py`) | `core_team_logo`, jobs | fetch for a new team, backfill, fetch on demand | a job deferred before its commit; one transaction for many teams | every team gets its row at last |
| Bets API (`api/bets.py`, `queries/bets.py`) | bets | create, edit, delete, list, summary | who commits; what auto-settlement writes | no settled bet without a payout, no bet lost, sums that add up |
| Authentication and tenants (`api/internal.py`, `deps.py`, `models/tenant.py`) | tenant users, their keys | provision, entitle, rotate, let in, act for | calls that overlap | revoked means refused, nobody locked out |
| Analytics (`api/analytics.py`, `analytics/`) | none of its own | tables, form, meetings, ratings, price pages, estimates | the same number computed in several places; "before the game" computed after it | pages agree, no hindsight |
| Admin site, ops routes (`admin/views.py`, `ops/routes.py`) | none of their own | resend, re-enqueue, toggle, truncate | one failure rolls back several | reports without an error are true |
| Dashboard logins, other read APIs, observability, start-up, scripts, payload and signing | sessions, none | reads, pure functions, start-up | little a model checker reaches | |

`PROJECT.json` lists each component with its files and its status, and the
hazards at their lines.

## 2. Plan

Written in this order, the most important behaviour first.

1. `DeliveryLedger`, `WebhookDelivery`: what the queue promises, and the queue.
   *Done, proved.*
2. `CronRunner`: the runner under every task. *Done, proved.*
3. `SettlementRules` (operators only) and `SettlementPasses` (one market). *Done, proved.*
4. `EventPipeline`: one event from the feed to the webhook rows; it uses
   `SettlementRules`. What happens to an enqueued row is `WebhookDelivery`.
   *Done for one event, proved.*
5. The provider's side: `OddsApiExchange` (what one call comes to),
   `OddsApiClient` (which implements it), `LeagueWalk` (which builds on it),
   `ProviderCatalog`. *Done, proved but for the walk's liveness.*
6. The tables around the pipeline: `TeamDirectory`, `TeamLogos`,
   `MarketWriter`, `BetLedger`, `TenantKeys`, `ReenqueueBatch`, and what is read
   off them: `LeagueTables`, `PriceBoard`. *Done; proved but for the logos.*
7. Next: a league of several events in one transaction; dashboard sessions.
8. Next theorems: what the liveness properties rest on and is itself safety; types of
   `LeagueWalk` beyond its toggles and of `TeamLogos`.

## 3. Modules

`MC*` modules define small instances; `*Proofs` modules hold the theorems.
`Nullable` has the constant `None` and the columns of rows that are read and
written. Modules that are checked or proved together name their definitions
apart (`TeamDirectory`'s `DirectoryNext`, `MarketWriter`'s `WriterNext`). A
definition whose name adds a word to that of the next one (`TryLockBlind`
before `TryLock`) is a deliberately wrong variant of it, used to show that a
property can fail. `PROJECT.json` maps each definition to its lines.

### DeliveryLedger and WebhookDelivery

The state is the table (`rows`), the two kinds of jobs (`dueJob`, `retryJob`),
the advisory `lock`, and for every worker slot and operator where it is (`pc`)
and what it holds (`todo`, `snap`, `cur`, `reply`). `accepted` is the
receiver's table of processed idempotency keys. Time is reduced to what the
drain's WHERE clause distinguishes: `next_retry_at` is NULL, in the future or
past. `attempts` saturates one above the limit.

Actions: `CommitRows` then `NotifyWorker` or `NotifyLost` (enqueue and push);
`PickDue`, `PickRetry`, `Trigger`; `TryLock`, `SelectBatch`, `Post`, `Record`,
`DeferRetry`, `Unlock` (the drain); `Crash`, `Tick`, `Vacuum`, `Redeploy`,
`CommitSilently` (a path that inserts rows and does not notify).

`DeliveryLedger` is the abstract promise: a row is inserted, put on the wire,
booked as delivered only if processed, or deleted; no two POSTs of a row
overlap, none follows its booking. `LedgerSpec` instantiates it with the status
column and the rows being posted.

### CronRunner

The state is the toggle (`enabled`), the jobs, the lock of each cron, the
`cron_run` table as a sequence (`runs`), and per process the stage, the task,
its row id and its result. `answer` is whose row Run now returned; `paused` is
a history variable. Actions follow `recorder.py` statement by statement:
`PickJob`, `Gate`, `TryLock`, `OpenRun`, `RunBody`, `CloseRun`, `Unlock`, each
with its failure, and `FinishJob` for what Procrastinate then does with the
job. The runner's body is a choice of result.

The lock belongs to a database session. When the unlock fails (`UnlockFails`) the
connection either broke, and the lock with it, or it goes back to its pool and
still holds the lock: the cron is in `left`. A run that is handed that connection is
granted the lock once more, every other is refused; `Recycle` is the pool replacing
the connection at `pool_recycle` (`db.py:36-39`).

### SettlementRules and SettlementPasses

`SettlementRules` has the verdict of every market kind (`Computed`), the
provider's grading (`Graded`), the bet decision, and the passes over a market's
rows (`Grade`, `Settle`, `VoidPending`). Lines are integers in quarter units,
scores counted alike, so half and quarter lines are exact. `SettlementPasses`
runs them on one market: `Finalize` with any set of graded odds, again after a
correction, `AutoVoid`, `Reappear`, `Backfill` and `SettleByHand`.

### EventPipeline

One event. `feed` is what the provider says; `event`, `sel`, `bet`, `outbox`
are its rows; `unseen` is the age of `last_seen_upstream_at` in hours,
saturating above the threshold; `age` is how far the start lies back: inside
the walk's window, behind it, beyond the vacuum's threshold, beyond the
backfill's seven days. `walk[w]` holds a league walk: `Fetch` (the payload),
`Read` (session.get), `Write` (all of `ingest_event` and the commit, or
`WriteFails`, `WalkFails`), `Reconcile`. The split between `Read` and `Write`
is where other transactions fit in; the UPDATE carries the columns that differ
from the copy (`Merged`). `Scan` and `AutoVoid` are the watchdog with its copy
`dog`. The nightly settlement is split in the same way: `BackfillReads` decides on
copies of the PENDING rows of a finished event (`Judged`, kept in `fill`) and
`BackfillWrites` updates them by key, whatever became of them meanwhile;
`BackfillVoids` is a run that has only the UPDATE of what was canceled a week ago.
`VacuumEvent`, `ForceEnqueue`, `PlaceBet` are single transactions. `FeedStep`, `Hour`,
`Days` and `RedeployUrl` are the environment. Which transactions may overlap is a
matter of `PipelineFaults`: `"overlap"` lets walks and the watchdog, `"nightly"` the nightly
settlement beside them.

The provider drops nothing it has settled, and a settled payload carries no
odds (`odds_api_translate.py`), so the provider's grading never applies here.

### OddsApiExchange, OddsApiClient

One GET of the provider. Abstractly (`OddsApiExchange`) a call begins, is refused a
limited number of times, keeps quiet after each refusal for as long as it was told
(`told`), ends once, and costs the hourly bucket at most one request. `OddsApiClient` is `_send`
for several runs that share the bucket: `Ask`, `Answered`, `TransportFails`,
`Limited` (a 429: wait as told, or give up), `Wake`; `Judge` is `quota_status` on
the headers a client has captured, `NewRun` the next client, `Second` the clock.
`ExchangeSpec` says that the one implements the other.

### LeagueWalk

The jobs that spend the bucket: `ingest`, `seed_sports`, `seed_leagues`,
`full_refresh`. A worker goes through the stages of its job (`Quota`,
`FetchSports`, `FetchList`, `Seed`, `SelectDue`, `Plan`, `WalkLeague`, `Odds`),
each of which may be refused; `sport` and `league` are the rows by their active
flag, which `ToggleSport` and `ToggleLeague` flip meanwhile. A league is listed
under season phases (`ListedSlugs`), which `SeasonMoves` changes.

### ProviderCatalog

The generator of the catalog: `BeginBuild` with the file as it is, then each listing
is a phase of a known league (`Collapse`), a new one (`Add`) or an error
(`Collides`); `Write` makes the draft the file. `Match` is the look-up of a slug.

### TeamDirectory, TeamLogos

`TeamDirectory` has the team rows by primary key, and two transactions, a walk
and a load of the registry file. Either opens with what it read and wants
(`WalkTeam`, `LoadRegistry`) and ends in `CommitTeams`, which writes the columns it
changed, or `RefusedTeams` by a unique key. A load is the entries of the file in any
order (`Orders`): each goes to one row (`Reaches`), looked up among the rows as they
were before the load, and of several that go to one row the last is written, with
the last key any of them had (`AfterLoad`). `TeamLogos` has the fetches of crests: the
job a new team defers before it is committed, the weekly backfill, the
endpoint, each as a transaction (`run`) that reads, asks and writes at its end.

### MarketWriter, PriceBoard

`MarketWriter` goes from the books' feeds to rows. An odd has the place at which the
dictionary of the payload gets it (`at`), and `Translated` keeps the first of each
name; `Specs` groups them into markets with ids, `Prefetch` reads the prices so far,
`Write` upserts and adds quotes where the price moved, `Abandon` is the
savepoint's rollback. A line is a number and the way it is written: groups, order
and distances go by the number, ids by the text (`_line_slug`), so that 3 and 3.0 of
two books are two totals. The main total is the row nearest to the sport's
canonical one, or the `Median` row where the sport has none. Several transactions
may have the event in hand; `alone` remembers that none ever had. `PriceBoard` is what the price pages compute of the
moneyline quotes of several books: `Quote` puts a book's prices on the board,
`Withdraw` takes an offer back and leaves the row, `FinalizeEvent` settles all.

### BetLedger

The bets of users: a request reads a bet (`UpdateBet`, `DeleteBet`) and writes at
its end (`CloseRequest`), a walk reads the open ones (`AutoSettle`) and writes at its
commit (`WalkCommits`); both write the columns that differ from what they read, and
a time that was taken just now always differs (`Written`). `keeps` is whether the session of a request commits: that
of `db.get_session` does not, the one the integration tests put in its place does.
In production the table therefore stays empty unless somebody else fills it;
`LedgerInit` allows rows that came by other ways, and `EventPipeline`'s `PlaceBet` stands
for such a row too.

### LeagueTables

State is the result of each game; everything else is an operator: the
table (`Standing`, `TableRank`), a team's page (`SeasonStats`, `Profile`, `Split`),
form, meetings, `Elo`, and what the page of a game says of the time before it.
Sums are `SumFunction` of the community modules and `Elo` a fold that takes the
latest game last (`Latest`); a form is the set of the games that fewer than n
later ones follow, as its order is that of their kickoffs.

### ReenqueueBatch, TenantKeys

`ReenqueueBatch` is a bulk action of the admin site: `Select` rows, then each is
repeated, not found, skipped, forced or an error, then `CommitBatch` and a `report`.
`TenantKeys` has tenant users and keys; `ProvisionUser`, `UpdateEntitlements` and
`RotateApiKey` read and open a call, `CommitCall` writes it; `Authenticated` and
`Acting` are what `deps.py` makes of a key.

### MC modules

`MCWebhookDelivery`, `MCEventPipeline` and `MCWalk` give constants their values.
`MCDelivery` has the queue and the pipeline that fills it; `MCPipelineTold` two
instances of the pipeline; `MCCronRunner` two of `CronRunner`, one without faults and
one with all of them; `MCProvider` the client, the walk, the catalog and, at the other
end, the queue with one slot; `MCComponents` nine components. In these a variable
(`part`, `overlaps`, `calm`) chosen in the initial state says which of them moves in a
behaviour: they share no step and no variable, so that one run checks each as if it
were alone. `MCBetLost`, `MCHindsight` and `MCSeed` are the instances of
disagreements.

## 4. What is checked

| Run | Instance | Shows |
|---|---|---|
| Delivery | the queue: 2 rows, 1 writer, 2 slots, 1 operator, batch 2, 2 attempts, all faults, symmetry | `MutualExclusion`, `SnapshotFresh`, `DeliveredWasAccepted`, the refinement `LedgerSpec` |
| | the pipeline: 1 transaction at a time, a total, 2 scores, a bet, 3 rows by hand | `AnnouncedIsDefinitive`, `LastWordIsCurrent`, `SettledOnce`, `DeletedWasTold`, `BetsClosed` |
| WebhookLostWakeup | 2 rows, 2 writers, 2 slots, no faults | `WakeupCovered` is violated |
| Cron | 2 crons, 2 slots, 1 operator, 2 jobs, 2 rows, no faults; beside them 1 cron under all faults, failing unlocks included | what `cron_run`, the pause toggle and Run now say is true; `OneRunPerCron`, and `LockUnderFaults` of the one with faults |
| CronRetry | 1 cron, 1 slot, 2 attempts | `AttemptCanOpen` is violated |
| PipelineLiveness | 2 overlapping walks, the watchdog and the nightly settlement, 1 score; and 1 walk beside the watchdog, 2 scores, corrections, blips, outages, redeploys without the URL; fairness | `FinalsAreTold`: no final score is owed for ever |
| PipelineAutoVoid | 1 walk, an event that vanishes while walks fail, and returns | `AnnouncedVerdicts` is violated |
| PipelineDisappeared | 1 walk, an event that vanishes, fairness | `GoneIsVoided` is violated |
| Provider | two clients on a bucket of 1; a worker, 2 leagues, 3 slugs, 3 seasons on a bucket of 6; 3 bases whose ids collide, with and without a phase | `ExchangeSpec`, `TogglesStick`, `EveryLeagueWalked`, `IdsStick`, `OneLeaguePerSlug` |
| | the queue: 2 rows, 2 writers, 1 slot, no faults, fairness | `WakeupCovered`, `EveryRowAttempted` |
| Components | nine components, see below | the properties of each |
| Seed | the walk of Provider | `NewLeaguesComeOn` is violated |
| BetLost | 1 bet, the session of `db.py` | `BetKept` is violated |
| Hindsight | 3 teams, 3 games | `NoHindsight` is violated |

`Components` holds

- 17 markets of all kinds, 4 scores, 2 finalizations: `Definitive`,
  `SidesFitTogether`, `SourcesAgree`, `NeverDowngraded`;
- 3 names, 2 keys, 2 feeds, a registry that grows: `OneRowPerTeam`, `RegistryRerun`;
- 2 teams, the backfill and one other fetch: `LogoArrives`;
- 4 books alone or in pairs, in any order, with canonical totals or without, numbers
  written in two ways, 2 writers that may overlap, 2 writes: `StatementsAccepted`,
  `HistoryEndsWithPrice`, `WholeMarkets`;
- 1 user, 1 bet of 3 types, every body a PATCH may have, both sessions: `SummaryAddsUp`;
- 4 teams, 5 games, 4 results: `TablesAgree`, `HistoryAgrees`;
- 2 events, 3 delivery rows: `CleanReportIsTrue`;
- 2 users, 4 keys, 2 callers: `RotationRevokes`;
- 2 books, 5 rows of prices: `PricePagesAgree`.

### Bounds

Two rows are what it takes for a batch to hold one row while another is
committed, deleted or retried; two slots and an operator are the pairs that
compete for a lock, and a third of a kind only repeats one. With
`BatchSize = 2` a batch is full or not; ordering beyond it (`NullsFirst`) needs
only two. Two attempts distinguish the first, a retry and giving up. Two jobs
are a tick and the retry or the tick behind it. Two rows of `cron_run` are an
older and a newer one. In the settlement instance every kind has lines that
push, that cannot, and (for totals) none. `VoidHours = 2` is the least value
above the one hour the reconcile writes; the deployment's 12 differs by the
number of `Hour` steps.

A bucket of 1 is drained by one of two clients while the other waits; `MaxWait`
2 and `Hour` 3 make waits that are allowed and waits that are not. Six
requests are what a probe, two lists and the walks of two leagues need, so that
every shorter remainder also occurs. Two phases of one league and one of another
are what the choice of slugs and the count of events tell apart. Two
colliding bases and a shipped one exercise every branch of the catalog. A team
without a key, with one, and a second team are the registry's cases; a
registry that swaps keys is left out (see below). Two books disagree on prices,
lines and the way they are written in either order, and two writes are what it takes to
move a price. Four teams and five games have a team that plays
twice in a row, two games at one time, and a return match. Two callers overlap;
four keys are two provisions and two rotations. Two delivery rows of one event and one
of another are a selection with a repeat.

The bounds of the models themselves are `MaxRuns`, `MaxRounds`, `MaxRows`,
`MaxWrites`, the number of `Keys`, and the saturation of `attempts`, `unseen` and `age`.

Symmetry is used only in Delivery: rows, slots and writers of the queue are compared
for equality alone there, `None` is outside the sets, the pipeline does not mention
them, and the properties are safety properties. Runs with liveness have none.

Deadlock is not checked: each system may come to rest when nothing is due, and
the bounded ones when their bound is reached.

### Fairness

Weak fairness is for code that runs once started (a drain, a walk, a run), for
Procrastinate handing a todo job to an idle slot, for the cron ticks of the
walks and the watchdog, for the weekly start of the logo backfill, for the
provider's bucket filling up every hour, and for time. Nothing is assumed of
operators, users, faults, the feed or the calendar.
`Recycle` is strongly fair: a pool hands its connections out in turn, so that the one
with a lock left on it is asked for at last, even if it is in use at times, and is
then replaced once it has the age of `pool_recycle`.
A final score is `Owed` only while the feed lists the event, the event is in the
window, the URL is set, and it was not `Missed` (written without the URL, beside a row
that was there); `EveryLeagueWalked` only if walks keep starting
on a full bucket, and of a league that stays due; `LogoArrives` only once the
provider answers for good.

`WakeupCovered` needs a single slot: with the deployed two the property is
what `WebhookLostWakeup` refutes. It also needs rows that fit one batch, which
is what `OneSlotSeesEveryRow` assumes. `WebhookDelivery`'s `Fairness`
also lets retries be picked and time pass; Provider does without them, as a first attempt
waits for neither.

### Disagreements between code and documentation

- *WebhookLostWakeup.* A job that finds the lock taken is "skipped" and done.
  If it was the wake-up of a row committed after the running drain's SELECT,
  nobody reads that row until another is enqueued.
- *CronRetry.* A retry keeps its Procrastinate job id, which `cron_run.job_id`
  requires to be unique: the retried runner never runs.
- *PipelineDisappeared.* Each walk sets the clock of a missing event to one
  hour ago, so while walks succeed it never reaches the threshold. The same
  docstring asks for both clocks to have run out; the code tests one.
- *PipelineAutoVoid.* An event that returns with a score after the watchdog's void is
  announced as finished with its selections still VOID: settlement takes PENDING rows
  only, and a settled payload brings no grades. `watchdog.py:23-27` says that such a
  void corrects itself, and `config.py:319-320` says it of the other auto-void.
- *Seed.* A new league is inserted switched off (`upserts.py:86`; `seed.py:92` and
  `models/league.py:26` say so too), so that the walk of the refresh that brought it in
  leaves it out; `full_refresh.py:8-9` says it is on. `tests/integration/test_workers.py:50-66`
  expects leagues from one seed of a fresh database.
- *BetLost.* `get_session` closes the session without a commit, and the
  handlers of bets only flush: the row behind the 201 is rolled back. The
  integration tests replace the session, and do not see it.
- *Hindsight.* The estimate a finished game's page shows as the one before it
  takes the goal averages of the whole season, later games included.

### Reachable in the models

Seen while exploring, without a run of their own.

Webhooks and crons:

- giving up leaves `delivered_at` and `next_retry_at` NULL, which is how a new
  row looks, so that each later drain sends it again; such rows sort first
  (NULLS FIRST) and can fill every batch before a retry that is due;
- one push wakes one drain of at most `BATCH_SIZE` rows: what a longer burst
  leaves behind waits for the next push, as no cron polls the table;
- a retry push that meets an older job of its row is deduplicated, and the row
  waits for a moment nobody is scheduled for;
- a crash leaves a `cron_run` row running for ever; a truncate restarts the
  ids, so that a run under way closes another run's row;
- Run now answers with an earlier run's row when its own insert failed;
- after an unlock that failed on a live connection, ticks of that cron are consumed as
  skipped and Run now is refused, with nobody running, until the pool replaces the
  connection; `recorder.py:220` and `service.py:233-234` say that the lock goes when the
  session is closed, which gives a connection back and does not end it.
  (`WebhookDelivery`'s statements do not fail: its lock is the same code's.)

Events and settlement:

- the nightly settlement writes what it decided on its copies: if it overlaps walks that
  overlap each other, it may write over the watchdog's VOID or over the verdict on
  another score; a walk's own copies of selections may in turn be older than the nightly
  verdict;
- the backstop of stable events asks for any row of the event at all
  (`orchestrator.py:148-162`): a score that is corrected, or arrives after a void, while
  the URL is unset is announced by nobody afterwards (`Missed`);
- after a correction that grades one side only, a yes/no market can have two
  winners; computed rows are not regraded by a correction at all;
- a draw loses both sides of a two-way moneyline, while a HOME bet is pushed
  and a three-way HOME is lost; the computed rules ignore a market's scope;
- a score that is corrected and corrected back has its row already, by the
  idempotency key, and the receivers keep the wrong one;
- when the watchdog's void and a final score overlap, the column diffs leave a
  canceled event that is also finalized, and the walk that repairs it is
  deduplicated;
- a bet placed on an event that is already final stays open: stable events are
  left by the cheap exit before bets are settled;
- an event that never ends is not vacuumed, although `watchdog.py` says so;
- an event that ends while the URL is unset and leaves the window before it is
  set again is vacuumed with nobody told.

The provider's side:

- with fewer requests an hour than a probe, the lists and the walks need, or with a list
  that keeps failing, a league behind it may never have its turn;
- of two phases listed of a league the walk asks for the first (`SlugFor`), while
  its activity is the count of the last (`Idle`): events of the other phase are
  reconciled as missing, and a league with games can look idle although
  `get_league_activity` promises no false negatives;
- a failing list of events ends `ingest_due_leagues`, and the leagues behind it are
  not walked in that run; nor does a retry pick up there, as
  `workers/tasks/ingest.py:25-28` says: it would start from the first league again;
- a full refresh that raises while it walks loses the summary of its seed
  (`full_refresh.py:23-24` says it is recorded), and its walk looks at the quota
  again, so that one half can be skipped (`41-42` says both or none).

Teams, logos, markets:

- a registry file that swaps the keys of two clubs is refused or leaves two
  rows of one club, and loading it again does not repair it ("Idempotent on re-run",
  `registry.py:204`); a load that overlaps a walk can do so with any file; a load
  wipes a key that a walk filled in and the file does not have (`NobodyRefused`);
- one team whose image always fails rolls back the whole backfill; two forced
  runs can leave a row whose columns do not fit together (`WholeRow`);
- two writers of one event that overlap can leave the history of a price ending with
  another price, or with the price twice;
- a book that writes 3.0 where another writes 3 makes a second market at that line;
- nothing withdraws a quote: the best price may be one no book offers any more
  (`BestIsOffered`); a book that adds a draw price moves to another market;
- two-way prices are compared with the model's three-way probabilities.

Bets, tenants, admin, analytics:

- a PATCH of the payout alone on an open bet leaves an open bet with a payout, and
  overlapping auto-settlement one verdict with another's payout (`OneVerdict`), or a
  settled bet without any (`models/bet.py:96-97`), where the session of a request commits:
  that of `db.get_session` does not;
- two PATCHes of entitlements that overlap leave a mixture no call brought
  (`EntitlementAsSent`); two rotations leave two live keys; a retried provision is
  answered without a key, so that only a rotation helps;
- "Resent N" beside an error counts rows that were rolled back;
- of games at one time those with smaller ids count as earlier, on some pages
  (`GoingIn`, `api/analytics.py:631-632`).

`LastWordIsCurrent` is therefore checked without overlaps and for feeds whose
corrections are new to the outbox (`ToldBefore`), `SidesFitTogether` for
the first finalization, `OneRowPerTeam` and `RegistryRerun` with `Overlap = FALSE`, the
end of the history as long as writers were `alone`, and `WholeMarkets` as long as no
price of a side was missing, for each way a line is written. These limits are in the definitions or named here.

## 5. What is proved

All theorems hold for every value of the constants that satisfies the named
assumptions of the module (`ConstantsAssumption`, `CronAssumption`,
`RulesAssumption`, `PassesAssumption`, `PipelineAssumption`, `ClientAssumption`,
`WalkAssumption`, `CatalogAssumption`, `DirectoryAssumption`, `FeedAssumption`,
`BoardAssumption`, `LedgerAssumption`, `BatchAssumption`, `KeysAssumption`,
`TablesAssumption`): sets of
any size, any batch size and attempt limit, any markets, lines, prices and scores,
and any faults that the theorem does not exclude. TLC evaluates the assumptions on
the instances. What a theorem assumes besides is a named definition of its module
(`Serial`, `ClubsKnown`, ...); those of the components around the
pipeline are evaluated by `ComponentsAssumption`, but for `ExpectedIsWhole`, which
is about all integers.

`WebhookDeliveryProofs`:

- `TypeCorrect`, by one step per action.
- `LockExcludes`. `MutualExclusion` is not inductive: it says nothing of the
  lock. `LockHeld` (whoever drains holds the lock) is, and implies it.
- `CopiesStayFresh`. The invariant has two more parts: `BatchesOK` (a row being
  posted left `todo`) and `CopiesOK` (a copy equals its row unless the row was
  deleted). The only writer of live rows besides the drain is `Tick`, and a
  selected row has no date in the future: this is why no update is lost.
- `DeliveredOnlyIfAccepted`, from what `Post` may answer.
- `ImplementsLedger`. Every step maps to a ledger step or a stutter. The case
  that needs all of the above is `Record`: the copy is fresh, so writing it
  back cannot undo a booking.
- `OneSlotSeesEveryRow`: `WakeupCovered`, if one process at a time can drain
  (`OneSlot`), all rows fit one batch (`SmallBacklog`) and nothing fails. A row
  that was never tried has no date (`Undated`), so the next SELECT sees it, and
  `WholeBatch` says that the drain then takes all it sees. Both conditions are
  needed: two slots are `WebhookLostWakeup`, and a longer burst is named above.

`CronRunnerProofs`:

- `TypeCorrect`.
- `RunsExclude`, from `LockOK`: a process past the lock holds that of its cron.
- `RowsClosedByOwner` and `ClosedRowsAreFinal`, for deployments that do not
  truncate `cron_run`: the row a run remembers is in the table, carries its
  job, is still running, and is remembered by nobody else. With a truncate
  both fail, as said above, so the assumption is needed.
- `PausesAreHonoured`, for deployments where the gate's query does not fail: a
  process that is marked paused is at the gate and its cron is off (`PausedOK`).
- `RunningRowsAreRun`, where nobody dies and no statement fails, a truncate
  included: a row that says running has a process between `open_run` and
  `close_run` that runs its cron (`RunningOK`); with `LockOK` it holds the lock.
- `AnswersAreOwn`, where no statement fails and nothing is truncated, crashes
  included: while a manual run holds its lock, no later row is of its cron
  (`LastOfCron`, which rests on `LockOK`), so that the latest row it answers
  with after an error is its own (`OwnAnswer`).

`SettlementRulesProofs` says what the operators return for every score, line and
kind of market, and what each pass over the rows preserves. On it rest, in
`SettlementPassesProofs`:

- `TypeCorrect`, `FinishedIsDefinitive`, from one invariant, `Decidedness`: the
  types, `Definitive`, and that a row of source MANUAL or PROVIDER is decided.
  Without the last part a grade could be imagined that leaves a row PENDING
  where the computed pass will not look.
- `SourcesGoUp` and `DecisionsStay`, from a step lemma (`Upwards`) under that
  invariant.
- `GradersAgree`, `MarketKindsAgree`, `BetsFollowSides`: the rules against each
  other, on every score. They need no more than the types.
- `SidesAreDecidedTogether`. The invariant `FirstPass` says that before the
  first finalization every row is new, settled by hand or voided, and that after
  it every other row has the verdict `Rule`, whoever gave it; `RuleFits` then
  goes through the kinds: the two sides of a line get opposite surpluses.

`EventPipelineProofs`, in three layers, each resting on the one before:

- Under every fault: `TypeCorrect`, from `Typed` (the types, and that a walk about to
  write has a payload). `SettlementsStick` for all faults but the nightly settlement
  beside overlapping walks, where it fails: walks and the watchdog touch PENDING rows
  only (`Keeps`), and so does the nightly settlement if what it read is still PENDING
  when it writes. That is so if no transaction runs beside it (`Fresh`), and if walks do
  not overlap because it then finds nothing to decide (`NothingToJudge`).
- As long as transactions do not overlap (`Serial`): `AnnouncementsAreDefinitive`
  and `BetsCloseWithTheEvent`. `AnnouncedIsDefinitive` is not inductive: a
  stable event is announced by the backstop and by hand with the selections it has.
  `Calm` adds that only one walk or the watchdog is busy (`Solo`; the nightly
  settlement may run beside it, and is `Asleep`), that its copy is
  the row (`Copies`), that an event is final exactly when finished and then
  decided (`Ended`), and that no walk brings a pending payload to a final event
  (`Flight`).
- If moreover the URL stays set (`Connected`): `LastWordStaysCurrent` and
  `NothingDeletedUntold`. What could go wrong is the idempotency key: a row that is
  deduplicated must be the newest one. `Newest` says that an end the feed
  has, or a walk carries, is either the outbox's last word or not in it, except
  for a void that follows the watchdog's; `Early` that before the feed knows an
  end the outbox has only the watchdog's voids.

The hypotheses are needed: the section on what is reachable names what happens
with overlaps and without a URL.

`ProviderProofs`:

- `ClientTypeCorrect`, with the bound on what a call has slept (`attempt` times the
  cap), and `ImplementsExchange`: a failed attempt and the retry after it are stutters of
  `OddsApiExchange`, a 429 is one of its refusals, a second of sleep takes a second off
  what the call was told, and no request is sent before nothing is left of it.
- `SwitchesCorrect` and `HandsDecide` (`TogglesStick`): of all steps of a job only
  `Seed` writes sports and leagues, and it inserts what is absent, switched off.
- `CatalogTypeCorrect`, `PublishedIdsStick` and `MatchIsUnique`, from the invariant
  that the slugs of the catalog and of the draft are one to one and that the draft
  extends the catalog. How ids are derived is a constant, so that collisions of any
  kind are covered.
- `TeamsApart` (`OneRowPerTeam`), for walks and loads that follow one another
  (`~Overlap`) and names that are of one club each (`ClubsKnown`: what the provider
  and the file may say is a function from names to clubs, aliases allowed).
  `OneRowPerTeam` is not inductive: it says nothing of `team_id`, by which the next
  load finds a row, nor of a row's primary key. `DirectoryIInv` has that all a row
  says (`RowOK`: key, id, primary key, name) is of one club and its key is its id or
  none, that rows differ in name and in id, and that a transaction under way wants
  such rows (`TxsOK`). Without either hypothesis TLC finds two rows of one team.
- `LoadIsIdempotent` (`RegistryRerun`), if the file has besides one name for a club
  (`ClubsListedOnce`): after a load every entry has a row that says what it says
  (`ListedAsIs`), so that a second load finds that row and no other. With two names
  of a club the entries overwrite one another at every load.

`TransactionProofs`, on rows that overlapping transactions write:

- `NoRowTwice` (`StatementsAccepted`): the id of a market determines the key of its
  group (`IdTellsKey`), for any number of books, prices and sides missing or not. The
  line of a handicap is not part of the key, but there is one group of handicaps per
  payload (`OneMainTotal`, for the median row by `OneMedian`); within a group no two odds have a name in common (`TranslatedApart`), as
  no two odds of a payload are at one place (`OnePerPlace`).
- `HistoriesEnd` (`HistoryEndsWithPrice`), for any number of writers that overlap and roll
  back. The invariant has two parts: that a price that is shown or was read is in the
  history (`PricesRecorded`), and, as long as no two had the event in hand, that the
  prices a transaction has read are the prices (`PriorIsCurrent`).
- `MarketsWhole` (`WholeMarkets`). Each book has all sides of what it offers
  (`BookIsWhole`), and so has what is kept of all books (`SidesTogether`): the first
  odd of each side is the one the same book has. As the home side comes first, the
  id of a market names the home side and its line (`WholeId`). Any number of writers.
- `TenantTypeCorrect` and `RotationsRevoke`. The invariant says what a transaction
  may still rely on when it commits: the keys it saw are there, those it did not
  list as live are revoked, and the key it issues is its own (`CallsOK`,
  `IssuesApart`).
- `CleanReportsAreTrue` (`CleanReportIsTrue`). A count cannot be inductive; the
  invariant ties it to what is flushed: an event that a row was flushed for is one
  that the action has seen, and as many rows are counted as are flushed
  (`FlushedOnce`); with the report it follows what the commit has.

`PageProofs`, on what is computed from rows that others write:

- `SummariesAddUp` (`SummaryAddsUp`), for every body a PATCH may have. That no settled bet
  lacks its payout is claimed of the session the program has, where the walk alone
  writes; `LedgerIInv` says it of rows and of the walk's copies (`Sound`), and of both
  sessions the types. The rest is what sums are. The
  library's induction theorems have an operator as a parameter, but its facts about
  well-founded orders (`WFMin`) are about sets: `GrowsToAll` takes a smallest part of
  a finite set that lacks a property, `FoldsExist` the least size at which a
  fold would not exist, and `SumTakesAny`, `SumsAdd`, `SumByKind` follow.
  `FoldIsSum` ties them to `SumFunctionOnSet` of the community modules.
- `TablesAddUp` (`TablesAgree`) and `HistoryAddsUp` (`HistoryAgrees`), for any number
  of teams and games and any scores, one side's missing included. Every page of
  `LeagueTables` is a function of the set of games it counts, and the types of the
  results (`TablesTyped`) are all that is needed of the behaviour: the work is in the
  operators.
  - A row of the table and a team's statistics add up over games apart (`StatsAdd`,
    `StandingIsStats`): hence the table agrees with the pages, a split with its
    whole, and a game's page with that of the game before (`PagesAreChained`).
  - What one game adds is added to one side and taken from the other (`GameAdds`,
    `SumShift`): hence wins and goals cancel (`TablesCancel`).
  - `Ahead` is a strict total order (`TableIsOrdered`), and in any such order of a
    finite set the places are 1 to n and the first n elements are n (`Orders`,
    `PlacesAreWhole`, `FirstPlaces`): hence the ranks, and the size of a form. A win
    moves nobody ahead of the winner (`WinnersLoseNoPlace`).
  - A rating is a fold whose states are records; it has a value because a fold over a
    finite set exists (`FoldsExist`), and each step keeps the sum at zero
    (`RatedStaysZero`). This takes `ExpectedIsWhole`: what is expected of a game is
    any integer, whatever the difference of the ratings. (The code's is a real
    number; ratings are in units here.) That the walk which rates all games has, at
    each of them, the ratings of the games before it (`RatedBefore`) follows from
    unfolding it one game at a time (`EloUnfolds`), the latest first
    (`RatingsRemembered`): of what a finished game's page shows as the estimate
    before it, only the averages know what came later (*Hindsight*).
- `BoardsAgree` (`PricePagesAgree`) needs no more than the types (`BoardTyped`): the
  flagged book's price is the greatest (`BestIsFlagged`), and over a whole market the
  edges add up to nothing (`EdgesCancel`), so that the best of them is not negative.

Proved and not among the properties of the runs: `DecidedForGood`, `KindsAgree`,
`BetsAgree` and the type invariants; `OneRunPerCron` is proved
under every fault, where `LockUnderFaults` checks it.

Only model-checked:

- liveness, which the prover does not handle under fairness: `EveryRowAttempted`,
  the lock that comes back in `LockUnderFaults`, `FinalsAreTold`,
  `EveryLeagueWalked`, `LogoArrives`;
- that the hypotheses of theorems are needed: overlaps, the nightly settlement beside
  them, an unset URL, aliases of a club. Those were seen in instances that no run keeps,
  and are named above.

## 6. Not modelled

- Rendering: payload bytes, the HMAC signature, log lines, HTML, names and colours.
- In `EventPipeline`: a league with several events (one commit stands for the
  league's), rescheduling, scores in a pending payload, the columns
  `feed_locked` and `winner` (functions of the modelled ones), the stale-event
  auto-void (off as deployed, same effects as the modelled branch).
- In the market writer and its input: player and team props, labels, scores by
  period, decimal rounding, a line of minus zero, opening prices and movement.
- Of the provider: the batching of odds requests and URLs. The instance of
  `LeagueWalk` runs without `"outage"`, under which leagues may wait for ever.
- The registry's sport and league entries and the check of its JSON.
- Dashboard logins, refresh tokens and the login limit (`api/auth.py`); test mode.
- Floating point: the Poisson grid of the estimates; the averages it takes are modelled.
- Postgres isolation beyond what the code relies on: transactions are READ
  COMMITTED, single statements are atomic, an advisory lock goes with its
  connection.
- A connection that is closed under a live process, which would free the
  advisory lock of a run that goes on: no setting in the repository does that.
- The components listed as not modelled in `PROJECT.json`.
