---------------------------- MODULE SettlementRules ----------------------------
(***************************************************************************)
(* How a market is decided: the winner of a score, the provider's grading  *)
(* of one market, the computed fallback, the lock-in pass, and the         *)
(* decision on a user's moneyline bet (ingest/normalize.py,                *)
(* ingest/settlement_provider.py, ingest/settlement_computed.py,           *)
(* ingest/bet_autosettle.py).                                              *)
(*                                                                         *)
(* A score is None or a pair of points.  A line is counted in quarters of  *)
(* a point, the finest step a bookmaker offers.  A market's kind is its    *)
(* category, and its type where the category alone does not choose a rule. *)
(***************************************************************************)
EXTENDS Integers, Nullable

Kinds == {"MONEYLINE", "MONEYLINE_3WAY", "SPREAD", "TOTAL", "TEAM_TOTAL",
          "BTTS", "EVEN_ODD", "DOUBLE_CHANCE", "DRAW_NO_BET",
          "REGULATION"}       \* NHL_MATCH_WINNER_REG: left to the provider

Statuses == {"PENDING", "WON", "LOST", "PUSH", "VOID"}
Sources  == {"", "COMPUTED", "PROVIDER", "MANUAL"}
RowType  == [status: Statuses, source: Sources]
NewSelection == [status |-> "PENDING", source |-> ""]

MarketType == [kind: Kinds, line: Int \cup {None}, team: {"HOME", "AWAY", None}]
ScoreType  == [home: Nat, away: Nat]

ASSUME RulesAssumption == None \notin Int /\ None \notin ScoreType

Sides(m) ==
  CASE m.kind \in {"MONEYLINE", "SPREAD", "DRAW_NO_BET"} -> {"HOME", "AWAY"}
    [] m.kind \in {"MONEYLINE_3WAY", "REGULATION"} -> {"HOME", "AWAY", "DRAW"}
    [] m.kind \in {"TOTAL", "TEAM_TOTAL"} -> {"OVER", "UNDER"}
    [] m.kind = "BTTS" -> {"YES", "NO"}
    [] m.kind = "EVEN_ODD" -> {"EVEN", "ODD"}
    [] m.kind = "DOUBLE_CHANCE" -> {"1X", "X2", "12"}

Lined == {"SPREAD", "TOTAL", "TEAM_TOTAL"}
Quarters(points) == 4 * points

-------------------------------------------------------------------------------
Margin(score) == score.home - score.away

Winner(score) ==
  IF Margin(score) > 0 THEN "HOME" ELSE IF Margin(score) < 0 THEN "AWAY" ELSE "DRAW"

\* What a total counts: both teams, or the team the market is about.
Points(m, score) ==
  CASE m.kind = "TEAM_TOTAL" /\ m.team = "HOME" -> score.home
    [] m.kind = "TEAM_TOTAL" /\ m.team = "AWAY" -> score.away
    [] OTHER -> score.home + score.away

Verdict(surplus) ==
  IF surplus > 0 THEN "WON" ELSE IF surplus < 0 THEN "LOST" ELSE "PUSH"

WonIf(condition) == IF condition THEN "WON" ELSE "LOST"

\* The spread's line was added on both sides.
SpreadVerdictSameSign(m, score, side) ==
  Verdict((IF side = "HOME" THEN Quarters(Margin(score)) ELSE 0 - Quarters(Margin(score)))
            + m.line)

\* The line of a spread is the home side's.
SpreadVerdict(m, score, side) ==
  LET adjusted == Quarters(Margin(score)) + m.line
  IN Verdict(IF side = "HOME" THEN adjusted ELSE 0 - adjusted)

TotalVerdict(m, score, side) ==
  LET surplus == Quarters(Points(m, score)) - m.line
  IN Verdict(IF side = "OVER" THEN surplus ELSE 0 - surplus)

BothScored(score) == score.home > 0 /\ score.away > 0

Covers(side, winner) ==
  winner \in CASE side = "1X" -> {"HOME", "DRAW"}
               [] side = "X2" -> {"AWAY", "DRAW"}
               [] side = "12" -> {"HOME", "AWAY"}

-------------------------------------------------------------------------------
\* The rule of _settle_* for a market whose inputs are there.
Decide(m, score, side) ==
  CASE m.kind \in {"MONEYLINE", "MONEYLINE_3WAY"} -> WonIf(side = Winner(score))
    [] m.kind = "SPREAD" -> SpreadVerdict(m, score, side)
    [] m.kind \in {"TOTAL", "TEAM_TOTAL"} -> TotalVerdict(m, score, side)
    [] m.kind = "BTTS" -> WonIf((side = "YES") = BothScored(score))
    [] m.kind = "DOUBLE_CHANCE" -> WonIf(Covers(side, Winner(score)))
    [] m.kind = "DRAW_NO_BET" ->
         IF Winner(score) = "DRAW" THEN "PUSH" ELSE WonIf(side = Winner(score))
    [] OTHER -> "PENDING"

HasLine(m) == m.kind \in Lined => m.line # None

\* The computed status of a selection; PENDING where a rule or an input is missing.
Computed(m, score, side) ==
  IF score = None \/ ~ HasLine(m) THEN "PENDING" ELSE Decide(m, score, side)

\* settle_event on one market: only PENDING rows of no source, or computed ones.
Settle(rows, m, score) ==
  [side \in DOMAIN rows |->
     LET status == Computed(m, score, side)
     IN IF /\ rows[side].status = "PENDING"
           /\ rows[side].source \in {"", "COMPUTED"}
           /\ status # "PENDING"
        THEN [status |-> status, source |-> "COMPUTED"]
        ELSE rows[side]]

\* void_remaining_pending, and the watchdog's and the backfill's VOID updates.
VoidPending(rows) ==
  [side \in DOMAIN rows |->
     IF rows[side].status = "PENDING"
     THEN [status |-> "VOID", source |-> "COMPUTED"] ELSE rows[side]]

-------------------------------------------------------------------------------
(***************************************************************************)
(* The provider's own grading.  scored is the set of sides whose odd       *)
(* carries a score: the points its side is about, the counted points of a  *)
(* total, 1 or 0 for a yes/no.                                             *)
(***************************************************************************)
Decided(m, scored) ==
  CASE m.kind \in {"MONEYLINE", "MONEYLINE_3WAY", "REGULATION", "SPREAD"} ->
         {"HOME", "AWAY"} \subseteq scored
    [] m.kind \in {"TOTAL", "TEAM_TOTAL"} -> scored # {}
    [] OTHER -> TRUE

\* A tie went to the home side.
GradedMoneylineTied(score, side) ==
  IF score.home >= score.away THEN WonIf(side = "HOME") ELSE WonIf(side = "AWAY")

GradedMoneyline(score, side) ==
  CASE score.home > score.away -> WonIf(side = "HOME")
    [] score.away > score.home -> WonIf(side = "AWAY")
    [] OTHER -> WonIf(side = "DRAW")

Graded(m, score, scored, side) ==
  CASE m.kind \in {"MONEYLINE", "MONEYLINE_3WAY", "REGULATION"} -> GradedMoneyline(score, side)
    [] m.kind = "SPREAD" -> SpreadVerdict(m, score, side)
    [] m.kind \in {"TOTAL", "TEAM_TOTAL"} -> TotalVerdict(m, score, side)
    [] m.kind = "BTTS" /\ side \in scored -> WonIf((side = "YES") = BothScored(score))
    [] m.kind = "EVEN_ODD" /\ side \in scored ->
         WonIf((side = "EVEN") = (Points(m, score) % 2 = 0))
    [] OTHER -> "PENDING"

\* The grader did not spare manual rows.
GradeAll(rows, m, score, scored) ==
  [side \in DOMAIN rows |->
     IF /\ score # None /\ HasLine(m) /\ Decided(m, scored)
        /\ Graded(m, score, scored, side) # "PENDING"
     THEN [status |-> Graded(m, score, scored, side), source |-> "PROVIDER"]
     ELSE rows[side]]

\* grade_event on one market: every decided side but the manual ones, whatever
\* its status was.
Grade(rows, m, score, scored) ==
  [side \in DOMAIN rows |->
     IF /\ score # None /\ HasLine(m) /\ Decided(m, scored)
        /\ Graded(m, score, scored, side) # "PENDING"
        /\ rows[side].source # "MANUAL"
     THEN [status |-> Graded(m, score, scored, side), source |-> "PROVIDER"]
     ELSE rows[side]]

-------------------------------------------------------------------------------
\* _settle_decision: totals, spreads and others stay open for the user.
AutoSettled == {"moneyline_home", "moneyline_away", "moneyline_draw"}

BetSide(bet) ==
  CASE bet = "moneyline_home" -> "HOME"
    [] bet = "moneyline_away" -> "AWAY"
    [] bet = "moneyline_draw" -> "DRAW"

BetDecision(bet, score) ==
  CASE bet \notin AutoSettled -> "open"
    [] bet \in AutoSettled /\ score = None -> "void"
    [] bet \in AutoSettled /\ score # None ->
         IF BetSide(bet) = Winner(score) THEN "won"
         ELSE IF Winner(score) = "DRAW" THEN "push" ELSE "lost"
===============================================================================
