----------------------------- MODULE EventPipeline -----------------------------
(***************************************************************************)
(* One event from the provider's feed to the webhook rows: the league walk *)
(* (ingest/orchestrator.py, ingest/upserts.py), the disappearance          *)
(* reconcile, the watchdog, the nightly settle and vacuum tasks, and the   *)
(* operator's re-enqueue.  Settlement is decided by SettlementRules; what  *)
(* becomes of an enqueued row is WebhookDelivery.                          *)
(*                                                                         *)
(* A transaction reads the row's ORM copy in one step and writes in        *)
(* another: the UPDATE carries only the columns that differ from the copy, *)
(* and the row lock it takes is held until the commit.                     *)
(***************************************************************************)
EXTENDS SettlementRules, Sequences, FiniteSets

CONSTANTS
  Walkers,        \* league walks that can be under way at once: two crons, one by hand
  Markets,        \* markets the feed may offer on the event
  Scores,         \* final scores the feed may report
  Bets,           \* selection types of the users' bets on the event
  VoidHours,      \* AGG_LIFECYCLE_DISAPPEARED_VOID_HOURS
  MaxRows,        \* bound of the model: rows beyond it are not forced by hand
  PipelineFaults  \* which of PipelineFaultKinds the environment may exercise

PipelineFaultKinds ==
  {"blip",        \* the feed stops listing an open event, and lists it again
   "correction",  \* the feed replaces a final score, or abandons a final event
   "outage",      \* an hour passes in which no walk reached the league
   "overlap",     \* walks and the watchdog run at the same time
   "nightly",     \* the nightly settlement runs beside them
   "failure",     \* a payload, or the commit of a walk, fails
   "config",      \* redeploys without and with the receiver's URL
   "manual"}      \* test-mode ingest and re-enqueue by hand

VARIABLES
  feed,     \* what the provider says of the event
  age,      \* how far its start lies back
  event,    \* its core_event_event row, or None
  unseen,   \* hours since last_seen_upstream_at, saturating
  sel,      \* sel[m]: the selections of each market written so far
  bet,      \* bet[b]: the users' bets
  outbox,   \* its webhook_delivery rows, oldest first
  url,      \* AGG_MDPROJECT_URL is set
  walk,     \* walk[w]: where walk w is and what it holds
  dog,      \* the watchdog's copy of the event, None outside its run
  fill      \* fill[m][side]: what the nightly settlement has decided and not yet
            \* written, None where it decided nothing; <<>> outside its run

dbVars == <<event, unseen, sel, bet, outbox>>
pipelineVars == <<feed, age, dbVars, url, walk, dog, fill>>

\* "gone": not listed; "live": listed, and dropped by the adapter; "void":
\* settled with a score missing; "final": settled.
Ends == [says: {"void"}, score: {None}] \cup [says: {"final"}, score: Scores]
Listed == [says: {"pending"}, score: {None}] \cup Ends
FeedType == [says: {"gone", "live"}, score: {None}] \cup Listed

\* 0: inside the walk's window; 1: behind it (AGG_INGEST_WINDOW_DAYS_BEHIND);
\* 2: beyond AGG_VACUUM_DAYS; 3: beyond the backfill's seven days.
AgeType == 0 .. 3

EventType == [status: {"notstarted", "finished", "canceled"},
              score: Scores \cup {None}, final: BOOLEAN]

ASSUME PipelineAssumption ==
  /\ Markets \subseteq MarketType
  /\ Scores \subseteq ScoreType
  /\ VoidHours \in Nat \ {0, 1}
  /\ MaxRows \in Nat
  /\ PipelineFaults \subseteq PipelineFaultKinds
  /\ None \notin EventType

SelType == UNION { [M -> UNION { [Sides(m) -> RowType] : m \in Markets }] : M \in SUBSET Markets }
RowOf   == [name: {"FINALIZED", "VOIDED"}, status: {"finished", "canceled"},
            score: Scores \cup {None}, sel: SelType, forced: BOOLEAN]

Modes == {"discovery", "refresh", "byHand"}
WalkType == [pc: {"idle", "read", "write", "reconcile"}, mode: Modes, payload: Listed \cup {None},
             inWindow: BOOLEAN, copy: EventType \cup {None}]
Idle  == [pc |-> "idle", mode |-> "refresh", payload |-> None, inWindow |-> FALSE, copy |-> None]

PipelineInit ==
  /\ feed = [says |-> "pending", score |-> None]
  /\ age = 0
  /\ event = None
  /\ unseen = 0
  /\ sel = <<>>
  /\ bet = [b \in Bets |-> "none"]
  /\ outbox = <<>>
  /\ url = TRUE
  /\ walk = [w \in Walkers |-> Idle]
  /\ dog = None
  /\ fill = <<>>

-------------------------------------------------------------------------------
(***************************************************************************)
(* Enqueueing.                                                             *)
(***************************************************************************)

\* decide_transition; LIFECYCLE_CHANGED is decided and then filtered out.
Transition(prev, new) ==
  CASE new.status = "finished" /\
         (prev = None \/ prev.status # "finished" \/ prev.score # new.score) -> "FINALIZED"
    [] new.status = "canceled" /\ (prev = None \/ prev.status # "canceled") -> "VOIDED"
    [] OTHER -> "NONE"

\* The state the idempotency key is the hash of.
StateOf(row) == <<row.status, row.score, row.sel>>

Row(name, e, s, forced) ==
  [name |-> name, status |-> e.status, score |-> e.score, sel |-> s, forced |-> forced]

\* enqueue_for_event: no URL, no row; ON CONFLICT DO NOTHING on the key.
Enqueued(name, e, s) ==
  LET row == Row(name, e, s, FALSE)
      known == \E i \in DOMAIN outbox : ~ outbox[i].forced /\ StateOf(outbox[i]) = StateOf(row)
  IN IF name = "NONE" \/ ~ url \/ known THEN outbox ELSE Append(outbox, row)

-------------------------------------------------------------------------------
(***************************************************************************)
(* The league walk.                                                        *)
(***************************************************************************)

Quiet == dog = None /\ \A w \in Walkers : walk[w].pc = "idle"

\* Another transaction may open.
Opens == ("overlap" \in PipelineFaults \/ Quiet) /\ ("nightly" \in PipelineFaults \/ fill = <<>>)

SetWalk(w, rec) == walk' = [walk EXCEPT ![w] = rec]

\* client.get_events: pending and settled events inside the window; by hand the
\* event is asked for by its id, wherever its start lies.
Fetch(w, mode) ==
  /\ walk[w].pc = "idle"
  /\ Opens
  /\ mode = "byHand" => "manual" \in PipelineFaults /\ feed \in Listed
  /\ SetWalk(w, [Idle EXCEPT !.pc = "read", !.mode = mode, !.inWindow = (age = 0),
                   !.payload = IF feed \in Listed /\ (age = 0 \/ mode = "byHand")
                               THEN feed ELSE None])
  /\ UNCHANGED <<feed, age, dbVars, url, dog, fill>>

Skips(w) ==
  \/ walk[w].payload = None
  \/ event = None /\ walk[w].mode = "refresh"
  \/ event = None /\ walk[w].mode = "discovery" /\ walk[w].payload.says # "pending"

\* session.get(Event), or no call of ingest_event at all.
Read(w) ==
  /\ walk[w].pc = "read"
  /\ SetWalk(w, IF Skips(w) THEN [walk[w] EXCEPT !.pc = "reconcile"]
                ELSE [walk[w] EXCEPT !.pc = "write", !.copy = event])
  /\ UNCHANGED <<feed, age, dbVars, url, dog, fill>>

\* event_spec_from_payload: the columns the models tell apart.
Translated(payload) ==
  [status |-> CASE payload.says = "pending" -> "notstarted"
                [] payload.says = "void" -> "canceled"
                [] payload.says = "final" -> "finished",
   score |-> payload.score,
   final |-> payload.says = "final"]

\* The UPDATE's columns: those in which the object differs from its copy.
Merged(row, copy, new) ==
  IF copy = None THEN new
  ELSE [c \in DOMAIN new |-> IF new[c] = copy[c] THEN row[c] ELSE new[c]]

\* New prices overwrote the settlement columns as well.
OfferedReset(M) == [m \in DOMAIN sel \cup M |-> [side \in Sides(m) |-> NewSelection]]

\* write_markets: missing selections are inserted, settlement is never reset.
Offered(M) ==
  [m \in DOMAIN sel \cup M |->
     IF m \in DOMAIN sel THEN sel[m] ELSE [side \in Sides(m) |-> NewSelection]]

\* The finalize block on every market: a settled payload carries no odds, so
\* the provider's grading has nothing to grade.
FinalSel(s, score) == [m \in DOMAIN s |-> VoidPending(Settle(s[m], m, score))]

\* autosettle_bets_for_event.
FinalBets(score) ==
  [b \in Bets |-> IF bet[b] = "open" THEN BetDecision(b, score) ELSE bet[b]]

\* "already finished with this score": the rest of ingest_event is left out.
Stable(w) ==
  /\ walk[w].payload.says = "final"
  /\ walk[w].copy # None
  /\ walk[w].copy.status = "finished"
  /\ walk[w].copy.score = walk[w].payload.score

\* The row was inserted, or deleted, since it was read: the flush raises.
Overtaken(w) == (event = None) # (walk[w].copy = None)

WriteEvent(w) ==
  LET new == Translated(walk[w].payload)
  IN /\ event' = Merged(event, walk[w].copy, new)
     /\ unseen' = 0

\* Backstop: no row at all, whatever the reason, and FINALIZED is enqueued now.
NoBackstop(w) ==
  /\ WriteEvent(w)
  /\ UNCHANGED <<sel, bet, outbox>>

WriteStable(w) ==
  /\ WriteEvent(w)
  /\ outbox' = IF outbox = <<>>
               THEN Enqueued("FINALIZED", Translated(walk[w].payload), sel) ELSE outbox
  /\ UNCHANGED <<sel, bet>>

\* The row was built before the finalize block had run.
WriteEarly(w, M) ==
  LET new == Translated(walk[w].payload)
      offered == Offered(M)
  IN /\ WriteEvent(w)
     /\ sel' = IF new.final THEN FinalSel(offered, new.score) ELSE offered
     /\ bet' = bet
     /\ outbox' = Enqueued(Transition(walk[w].copy, new), new, offered)

WriteFull(w, M) ==
  LET new == Translated(walk[w].payload)
      offered == Offered(M)
  IN /\ WriteEvent(w)
     /\ sel' = IF new.final THEN FinalSel(offered, new.score) ELSE offered
     /\ bet' = IF new.final THEN FinalBets(new.score) ELSE bet
     /\ outbox' = Enqueued(Transition(walk[w].copy, new), new, sel')

\* ingest_event and the commit of the walk.  Only a pending payload has prices.
Write(w) ==
  /\ walk[w].pc = "write"
  /\ ~ Overtaken(w)
  /\ IF Stable(w)
     THEN WriteStable(w)
     ELSE \E M \in SUBSET Markets : /\ walk[w].payload.says # "pending" => M = {}
                                    /\ WriteFull(w, M)
  /\ SetWalk(w, [walk[w] EXCEPT !.pc = "reconcile", !.copy = None])
  /\ UNCHANGED <<feed, age, url, dog, fill>>

\* The event's savepoint is rolled back; the walk goes on, and has seen it.
WriteFails(w) ==
  /\ walk[w].pc = "write"
  /\ Overtaken(w) \/ "failure" \in PipelineFaults
  /\ SetWalk(w, [walk[w] EXCEPT !.pc = "reconcile", !.copy = None])
  /\ UNCHANGED <<feed, age, dbVars, url, dog, fill>>

\* The walk's transaction is lost, with everything it wrote for the league.
WalkFails(w) ==
  /\ walk[w].pc \in {"write", "reconcile"}
  /\ "failure" \in PipelineFaults
  /\ SetWalk(w, Idle)
  /\ UNCHANGED <<feed, age, dbVars, url, dog, fill>>

\* The event was not in this walk although it should have been.
Missing(w) ==
  /\ walk[w].mode # "byHand"
  /\ walk[w].payload = None /\ walk[w].inWindow
  /\ event # None
  /\ ~ event.final /\ event.status # "canceled"

\* reconcile_disappeared: last_seen_upstream_at becomes an hour ago, each time.
Reconcile(w) ==
  /\ walk[w].pc = "reconcile"
  /\ unseen' = IF Missing(w) THEN 1 ELSE unseen
  /\ SetWalk(w, Idle)
  /\ UNCHANGED <<feed, age, event, sel, bet, outbox, url, dog, fill>>

-------------------------------------------------------------------------------
(***************************************************************************)
(* The watchdog (AGG_LIFECYCLE_AUTO_VOID_HOURS is 0, as deployed), the     *)
(* nightly tasks, the operator and the users.                              *)
(***************************************************************************)
Scan ==
  /\ dog = None
  /\ Opens
  /\ event # None
  /\ event.status = "notstarted" /\ ~ event.final
  /\ unseen > VoidHours
  /\ dog' = event
  /\ UNCHANGED <<feed, age, dbVars, url, walk, fill>>

Canceled(copy) == [copy EXCEPT !.status = "canceled", !.final = FALSE]

\* The watchdog forgot to tell anybody.
AutoVoidSilently ==
  /\ dog # None
  /\ dog' = None
  /\ event # None
  /\ event' = Merged(event, dog, Canceled(dog))
  /\ sel' = [m \in DOMAIN sel |-> VoidPending(sel[m])]
  /\ UNCHANGED <<feed, age, unseen, bet, outbox, url, walk, fill>>

\* If the row is gone the flush raises and the run is lost.
AutoVoid ==
  /\ dog # None
  /\ dog' = None
  /\ IF event = None
     THEN UNCHANGED <<event, sel, outbox>>
     ELSE /\ event' = Merged(event, dog, Canceled(dog))
          /\ sel' = [m \in DOMAIN sel |-> VoidPending(sel[m])]
          /\ outbox' = Enqueued("VOIDED", Canceled(dog), sel')
  /\ UNCHANGED <<feed, age, unseen, bet, url, walk, fill>>

\* The rows that settle_event would decide in the copies it has read.
Judged ==
  [m \in DOMAIN sel |->
     LET now == Settle(sel[m], m, event.score)
     IN [side \in Sides(m) |-> IF now[side] = sel[m][side] THEN None ELSE now[side]]]

\* settle_pending_events reads a finished event's selections and decides what it
\* can.  Its look-back over Event.updated is left out: the pass may reach an
\* event later than the code would.
BackfillReads ==
  /\ fill = <<>>
  /\ "nightly" \in PipelineFaults \/ Quiet
  /\ event # None /\ event.status = "finished"
  /\ \E m \in DOMAIN sel : \E side \in Sides(m) : Judged[m][side] # None
  /\ fill' = Judged
  /\ UNCHANGED <<feed, age, dbVars, url, walk, dog>>

\* The UPDATE of what is still PENDING a week after a cancellation.
Expired(m) == IF event.status = "canceled" /\ age = 3 THEN VoidPending(sel[m]) ELSE sel[m]

\* The commit: rows are updated by their key, whatever became of them since they
\* were read.  A row that is gone, or a failed commit, loses the run.
BackfillWrites ==
  /\ fill # <<>>
  /\ fill' = <<>>
  /\ \/ /\ DOMAIN fill \subseteq DOMAIN sel
        /\ sel' = [m \in DOMAIN sel |-> [side \in Sides(m) |->
                     IF m \in DOMAIN fill /\ fill[m][side] # None THEN fill[m][side]
                     ELSE Expired(m)[side]]]
     \/ /\ ~ (DOMAIN fill \subseteq DOMAIN sel) \/ "failure" \in PipelineFaults
        /\ UNCHANGED sel
  /\ UNCHANGED <<feed, age, event, unseen, bet, outbox, url, walk, dog>>

\* A run that decides nothing and only has that UPDATE.
BackfillVoids ==
  /\ fill = <<>>
  /\ event # None
  /\ sel' = [m \in DOMAIN sel |-> Expired(m)]
  /\ sel' # sel
  /\ UNCHANGED <<feed, age, event, unseen, bet, outbox, url, walk, dog, fill>>

\* Whatever has started long ago is deleted.
VacuumAny ==
  /\ age >= 2
  /\ event # None
  /\ event' = None
  /\ unseen' = 0
  /\ sel' = <<>>
  /\ outbox' = <<>>
  /\ UNCHANGED <<feed, age, bet, url, walk, dog, fill>>

\* ON DELETE CASCADE takes markets, selections and webhook rows; a bet keeps
\* its row and loses its event.
VacuumEvent ==
  /\ age >= 2
  /\ event # None
  /\ event.final \/ event.status \in {"finished", "canceled"}
  /\ event' = None
  /\ unseen' = 0
  /\ sel' = <<>>
  /\ outbox' = <<>>
  /\ bet' = [b \in Bets |-> IF bet[b] = "open" THEN "orphan" ELSE bet[b]]
  /\ UNCHANGED <<feed, age, url, walk, dog, fill>>

\* force_enqueue_for_event: the key is made unique, so nothing deduplicates it.
ForceEnqueue ==
  /\ "manual" \in PipelineFaults
  /\ url
  /\ event # None
  /\ Transition(None, event) # "NONE"
  /\ Len(outbox) < MaxRows
  /\ outbox' = Append(outbox, Row(Transition(None, event), event, sel, TRUE))
  /\ UNCHANGED <<feed, age, event, unseen, sel, bet, url, walk, dog, fill>>

PlaceBet(b) ==
  /\ event # None
  /\ bet[b] = "none"
  /\ bet' = [bet EXCEPT ![b] = "open"]
  /\ UNCHANGED <<feed, age, event, unseen, sel, outbox, url, walk, dog, fill>>

-------------------------------------------------------------------------------
(***************************************************************************)
(* The environment.                                                        *)
(***************************************************************************)

\* The outbox has told of this feed value before.
ToldBefore(x) ==
  \E i \in DOMAIN outbox :
    /\ outbox[i].status = Translated(x).status
    /\ outbox[i].score = x.score

\* An event goes from pending over live to its end.  A correction is news: the
\* feed does not return to an end the receivers have already been told of.
FeedMoves(x) ==
  \/ /\ feed.says \in {"pending", "live"}
     /\ x.says = "live" \/ x \in Ends
  \/ /\ "blip" \in PipelineFaults
     /\ \/ feed.says \in {"pending", "live"} /\ x.says = "gone"
        \/ feed.says = "gone" /\ x \in Listed
  \/ /\ "correction" \in PipelineFaults
     /\ feed \in Ends /\ x \in Ends
     /\ ~ ToldBefore(x)

FeedStep(x) ==
  /\ x # feed
  /\ FeedMoves(x)
  /\ feed' = x
  /\ UNCHANGED <<age, dbVars, url, walk, dog, fill>>

\* An hour passes on the disappearance clock.  Without an outage a walk has
\* reached the league since the last one.
Hour ==
  /\ event # None
  /\ unseen <= VoidHours
  /\ "outage" \in PipelineFaults \/ unseen <= 1 \/ age > 0
  /\ unseen' = unseen + 1
  /\ UNCHANGED <<feed, age, event, sel, bet, outbox, url, walk, dog, fill>>

Days ==
  /\ age < 3
  /\ age' = age + 1
  /\ UNCHANGED <<feed, dbVars, url, walk, dog, fill>>

RedeployUrl ==
  /\ "config" \in PipelineFaults
  /\ Quiet /\ fill = <<>>
  /\ url' = ~ url
  /\ UNCHANGED <<feed, age, dbVars, walk, dog, fill>>

-------------------------------------------------------------------------------
WalkStep(w) == Read(w) \/ Write(w) \/ WriteFails(w) \/ WalkFails(w) \/ Reconcile(w)

PipelineNext ==
  \/ \E w \in Walkers, mode \in Modes : Fetch(w, mode)
  \/ \E w \in Walkers : WalkStep(w)
  \/ Scan \/ AutoVoid
  \/ BackfillReads \/ BackfillWrites \/ BackfillVoids
  \/ VacuumEvent
  \/ ForceEnqueue
  \/ \E b \in Bets : PlaceBet(b)
  \/ \E x \in FeedType : FeedStep(x)
  \/ Hour \/ Days \/ RedeployUrl

PipelineSpec == PipelineInit /\ [][PipelineNext]_pipelineVars

\* The crons tick, a started transaction ends, and time passes on the
\* disappearance clock.  The feed, the calendar and operators do as they like.
PipelineFairness ==
  /\ \A w \in Walkers : /\ WF_pipelineVars(\E mode \in Modes : Fetch(w, mode))
                        /\ WF_pipelineVars(WalkStep(w))
  /\ WF_pipelineVars(Scan) /\ WF_pipelineVars(AutoVoid) /\ WF_pipelineVars(BackfillWrites)
  /\ WF_pipelineVars(Hour)

FairPipelineSpec == PipelineSpec /\ PipelineFairness

-------------------------------------------------------------------------------
(***************************************************************************)
(* Properties.                                                             *)
(***************************************************************************)

BetType == {"none", "open", "won", "lost", "push", "void", "orphan"}

\* Every variable stays in its type.
PipelineTypeOK ==
  /\ feed \in FeedType
  /\ age \in AgeType
  /\ event \in EventType \cup {None}
  /\ unseen \in 0 .. VoidHours + 1
  /\ DOMAIN sel \subseteq Markets
  /\ \A m \in DOMAIN sel : sel[m] \in [Sides(m) -> RowType]
  /\ bet \in [Bets -> BetType]
  /\ outbox \in Seq(RowOf)
  /\ url \in BOOLEAN
  /\ walk \in [Walkers -> WalkType]
  /\ dog \in EventType \cup {None}
  /\ DOMAIN fill \subseteq Markets
  /\ \A m \in DOMAIN fill : fill[m] \in [Sides(m) -> RowType \cup {None}]

\* A FINALIZED row carries only definitive results: no selection in it is
\* PENDING ("no PENDING selections sneak out"), whichever path enqueued it.
AnnouncedIsDefinitive ==
  \A i \in DOMAIN outbox : outbox[i].name = "FINALIZED" =>
    \A m \in DOMAIN outbox[i].sel : \A side \in DOMAIN outbox[i].sel[m] :
      outbox[i].sel[m][side].status # "PENDING"

\* A selection that was settled keeps its settlement, through corrections,
\* reappearances, backfills and prices that still come in.
SettledOnce ==
  [][\A m \in DOMAIN sel \cap DOMAIN sel' : \A side \in DOMAIN sel[m] :
       sel[m][side].status # "PENDING" => sel'[m][side] = sel[m][side]]_pipelineVars

Over(e) == e # None /\ e.status \in {"finished", "canceled"}

\* The newest row says what the event row says: its end and its score.  No
\* path ends or corrects an event without a row, and no row is overtaken, as
\* long as transactions do not overlap and the URL is set.
LastWordIsCurrent ==
  Over(event) =>
    /\ outbox # <<>>
    /\ outbox[Len(outbox)].status = event.status
    /\ outbox[Len(outbox)].score = event.score

\* The vacuum takes only events the receivers were told the end of, as long as
\* the URL is set.
DeletedWasTold ==
  [][event # None /\ event' = None =>
       \E i \in DOMAIN outbox : outbox[i].status = event.status]_pipelineVars

\* The step that gives the event a final score, or another one, decides the
\* moneyline bets placed on it by then: none of them stays open.
BetsClosed ==
  [][event' # event /\ event' # None /\ event'.final =>
       \A b \in Bets \cap AutoSettled : bet'[b] # "open"]_pipelineVars

Told(s) == \E i \in DOMAIN outbox : outbox[i].name = "FINALIZED" /\ outbox[i].score = s

\* The event has a final score that was written while the URL was unset, and a
\* row from before: of another score, or of a void.  The backstop asks for any
\* row at all, and finds it.
Missed(s) == Over(event) /\ event.score = s /\ outbox # <<>> /\ ~ Told(s)

\* The feed has a final score, and its announcement is due: the event is known and
\* listed, the URL is set, and the score is neither told nor missed.
Owed ==
  /\ feed.score # None
  /\ event # None /\ age = 0 /\ url
  /\ ~ Told(feed.score) /\ ~ Missed(feed.score)

\* No final score is owed for ever, through corrections, overlapping transactions
\* and redeploys; and only a step without the URL makes one missed.
FinalIsTold ==
  /\ []<>~ Owed
  /\ [][\A s \in Scores : Missed(s)' /\ ~ Missed(s) => ~ url]_pipelineVars

\* odds_api_reconcile.py: the watchdog "auto-VOIDs anything that stays missing
\* past the disappearance grace".
GoneIsVoided ==
  feed.says = "gone" /\ event # None ~> feed.says # "gone" \/ Over(event) \/ event = None \/ age > 0

\* watchdog.py: "an over-eager auto-void self-corrects when the upstream truth
\* shows up": a final score is announced with the verdicts of that score.
AnnouncedVerdicts ==
  \A i \in DOMAIN outbox : outbox[i].name = "FINALIZED" =>
    \A m \in DOMAIN outbox[i].sel : \A side \in DOMAIN outbox[i].sel[m] :
      outbox[i].sel[m][side].status = Computed(m, outbox[i].score, side)
===============================================================================
