--------------------------- MODULE SettlementPasses ---------------------------
(***************************************************************************)
(* One market from its first price to its settlement: the finalize block   *)
(* of ingest_event (provider grading, computed fallback, lock-in), run     *)
(* again when the feed corrects the score, the watchdog's VOID and an      *)
(* administrator's edit in between, and the nightly backfill.              *)
(* Sources are ranked MANUAL > PROVIDER > COMPUTED > none, and never       *)
(* downgraded (settlement_computed.py).                                    *)
(***************************************************************************)
EXTENDS SettlementRules

CONSTANTS
  Markets,     \* the markets a run starts from
  Scores,      \* final scores the feed may report
  MaxRounds    \* bound of the model: how often the event is finalized

ASSUME PassesAssumption ==
  /\ Markets \subseteq MarketType
  /\ Scores \subseteq ScoreType
  /\ MaxRounds \in Nat

VARIABLES
  market,   \* the market, fixed
  status,   \* of its event
  score,    \* the score the event was finalized with, None before
  rows,     \* the market's selections, by side
  round     \* how often the finalize block has run

vars == <<market, status, score, rows, round>>

Init ==
  /\ market \in Markets
  /\ status = "notstarted"
  /\ score = None
  /\ rows = [side \in Sides(market) |-> NewSelection]
  /\ round = 0

-------------------------------------------------------------------------------
\* The lock-in pass was left out.
FinalizeRowsOpen(s, scored) == Settle(Grade(rows, market, s, scored), market, s)

\* Provider first, then computed, then whatever is left is VOID.
FinalizeRows(s, scored) ==
  VoidPending(Settle(Grade(rows, market, s, scored), market, s))

\* A settled payload.  An event that is finished with this score is left alone.
Finalize(s, scored) ==
  /\ round < MaxRounds
  /\ status # "finished" \/ score # s
  /\ status' = "finished"
  /\ score' = s
  /\ rows' = FinalizeRows(s, scored)
  /\ round' = round + 1
  /\ UNCHANGED market

\* The watchdog gives up on the event.
AutoVoid ==
  /\ status = "notstarted"
  /\ status' = "canceled"
  /\ rows' = VoidPending(rows)
  /\ UNCHANGED <<market, score, round>>

\* The event is back in the feed, with prices: rows are upserted, which leaves
\* their settlement alone.
Reappear ==
  /\ status = "canceled"
  /\ status' = "notstarted"
  /\ score' = None
  /\ UNCHANGED <<market, rows, round>>

\* settle_pending: the nightly pass over finished events.
Backfill ==
  /\ status = "finished"
  /\ rows' = Settle(rows, market, score)
  /\ UNCHANGED <<market, status, score, round>>

\* An administrator settles one selection on the admin site.
SettleByHand(side, verdict) ==
  /\ rows' = [rows EXCEPT ![side] = [status |-> verdict, source |-> "MANUAL"]]
  /\ UNCHANGED <<market, status, score, round>>

Next ==
  \/ \E s \in Scores : \E scored \in SUBSET Sides(market) : Finalize(s, scored)
  \/ AutoVoid
  \/ Reappear
  \/ Backfill
  \/ \E side \in DOMAIN rows : \E verdict \in Statuses \ {"PENDING"} : SettleByHand(side, verdict)

Spec == Init /\ [][Next]_vars

-------------------------------------------------------------------------------
(***************************************************************************)
(* Properties.                                                             *)
(***************************************************************************)

\* Every variable stays in its type.
TypeOK ==
  /\ market \in Markets
  /\ status \in {"notstarted", "finished", "canceled"}
  /\ score \in Scores \cup {None}
  /\ rows \in [Sides(market) -> RowType]
  /\ round \in 0 .. MaxRounds

Rank == [source \in Sources |->
           CASE source = "MANUAL" -> 3 [] source = "PROVIDER" -> 2
             [] source = "COMPUTED" -> 1 [] OTHER -> 0]

\* No row moves to a source of lower priority, and no pass touches a row that
\* was settled by hand: "MANUAL > PROVIDER > COMPUTED > PENDING, never downgrade".
NeverDowngraded ==
  [][\A side \in DOMAIN rows :
       /\ Rank[rows'[side].source] >= Rank[rows[side].source]
       /\ rows[side].source = "MANUAL" => rows'[side].source = "MANUAL"]_vars

\* A selection that was decided is never open again, whatever comes after it:
\* a correction, a return to the feed, a backfill.
DecidedForGood ==
  [][\A side \in DOMAIN rows :
       rows[side].status # "PENDING" => rows'[side].status # "PENDING"]_vars

\* A finished event has no PENDING selection to announce (orchestrator.py:
\* "Mark VOID so the webhook payload is definitive").
Definitive ==
  status = "finished" => \A side \in DOMAIN rows : rows[side].status # "PENDING"

Count(verdict) == { side \in DOMAIN rows : rows[side].status = verdict }

\* The verdicts of a market's sides fit together.  A draw on a market without
\* a draw side loses both sides, in the provider's rule and in the computed one.
FitTogether ==
  \/ Count("PUSH") = DOMAIN rows /\ market.kind \in Lined \cup {"DRAW_NO_BET"}
  \/ /\ Count("WON") \cup Count("LOST") = DOMAIN rows
     /\ \/ market.kind = "DOUBLE_CHANCE" /\ \E side \in DOMAIN rows : Count("LOST") = {side}
        \/ market.kind # "DOUBLE_CHANCE" /\ \E side \in DOMAIN rows : Count("WON") = {side}
        \/ market.kind = "MONEYLINE" /\ Winner(score) = "DRAW" /\ Count("WON") = {}

\* The first finalization of a market nobody voided or edited decides all of its
\* sides together, whichever of them the provider graded: never two winners,
\* never a push against a loss.
SidesFitTogether ==
  status = "finished" /\ round = 1
  /\ (\A side \in DOMAIN rows : rows[side].source # "MANUAL" /\ rows[side].status # "VOID")
    => FitTogether

\* Where both rules decide a side, the provider's grade and the computed
\* fallback agree, so it does not matter which of them came first.
SourcesAgree ==
  score # None =>
    \A side \in DOMAIN rows : \A scored \in SUBSET DOMAIN rows :
      /\ HasLine(market)
      /\ Decided(market, scored)
      /\ Graded(market, score, scored, side) # "PENDING"
      /\ Computed(market, score, side) # "PENDING"
      => Graded(market, score, scored, side) = Computed(market, score, side)

Like(kind) == [kind |-> kind, line |-> None, team |-> None]
Level == [kind |-> "SPREAD", line |-> 0, team |-> None]

\* The kinds agree with each other on one score: draw no bet is a level spread,
\* and a double chance wins when one of its two 3-way sides does.
KindsAgree ==
  score # None =>
    /\ \A side \in {"HOME", "AWAY"} :
         Decide(Like("DRAW_NO_BET"), score, side) = Decide(Level, score, side)
    /\ \A pair \in {<<"1X", "HOME", "DRAW">>, <<"X2", "AWAY", "DRAW">>, <<"12", "HOME", "AWAY">>} :
         Decide(Like("DOUBLE_CHANCE"), score, pair[1]) = "WON"
           <=> "WON" \in { Decide(Like("MONEYLINE_3WAY"), score, pair[i]) : i \in {2, 3} }

Backed == {<<"moneyline_home", "HOME">>, <<"moneyline_away", "AWAY">>, <<"moneyline_draw", "DRAW">>}

\* A user's moneyline bet is won exactly when the 3-way side it names is: the
\* bet log and the selections are settled by two functions, from one winner.
BetsAgree ==
  score # None =>
    \A pair \in Backed :
      BetDecision(pair[1], score) = "won"
        <=> Decide(Like("MONEYLINE_3WAY"), score, pair[2]) = "WON"
===============================================================================
