------------------------ MODULE SettlementRulesProofs ------------------------
(***************************************************************************)
(* What the settlement rules return, for every score, line and kind of     *)
(* market, and what the passes over a market's rows preserve.              *)
(***************************************************************************)
EXTENDS SettlementRules, TLAPS

Verdicts == {"PENDING", "WON", "LOST", "PUSH"}

LEMMA LineIsInt ==
  ASSUME NEW m \in MarketType, HasLine(m), m.kind \in Lined
  PROVE  m.line \in Int
BY DEF MarketType, HasLine, Lined

LEMMA WinnerType ==
  ASSUME NEW score \in ScoreType
  PROVE  /\ Margin(score) \in Int
         /\ Winner(score) \in {"HOME", "AWAY", "DRAW"}
BY DEF ScoreType, Margin, Winner

LEMMA VerdictType ==
  ASSUME NEW surplus \in Int
  PROVE  /\ Verdict(surplus) \in {"WON", "LOST", "PUSH"}
         /\ Verdict(surplus) = "WON" <=> Verdict(0 - surplus) = "LOST"
         /\ Verdict(surplus) = "LOST" <=> Verdict(0 - surplus) = "WON"
         /\ Verdict(surplus) = "PUSH" <=> Verdict(0 - surplus) = "PUSH"
BY DEF Verdict

\* A spread, and a total, decide a market's two sides against each other.
LEMMA SpreadSides ==
  ASSUME NEW m \in MarketType, m.line \in Int, NEW score \in ScoreType
  PROVE  \E surplus \in Int :
           /\ SpreadVerdict(m, score, "HOME") = Verdict(surplus)
           /\ SpreadVerdict(m, score, "AWAY") = Verdict(0 - surplus)
<1> DEFINE surplus == Quarters(Margin(score)) + m.line
<1>1. surplus \in Int
  BY WinnerType DEF Quarters
<1>2. SpreadVerdict(m, score, "HOME") = Verdict(surplus) /\ SpreadVerdict(m, score, "AWAY") = Verdict(0 - surplus)
  BY DEF SpreadVerdict
<1> QED
  BY <1>1, <1>2

LEMMA PointsType ==
  ASSUME NEW m \in MarketType, NEW score \in ScoreType
  PROVE  Points(m, score) \in Nat
BY DEF Points, ScoreType

LEMMA TotalSides ==
  ASSUME NEW m \in MarketType, m.line \in Int, NEW score \in ScoreType
  PROVE  \E surplus \in Int :
           /\ TotalVerdict(m, score, "OVER") = Verdict(surplus)
           /\ TotalVerdict(m, score, "UNDER") = Verdict(0 - surplus)
<1> DEFINE surplus == Quarters(Points(m, score)) - m.line
<1>1. surplus \in Int
  BY PointsType DEF Quarters
<1>2. TotalVerdict(m, score, "OVER") = Verdict(surplus) /\ TotalVerdict(m, score, "UNDER") = Verdict(0 - surplus)
  BY DEF TotalVerdict
<1> QED
  BY <1>1, <1>2

LEMMA DecideType ==
  ASSUME NEW m \in MarketType, HasLine(m), NEW score \in ScoreType, NEW side \in Sides(m)
  PROVE  Decide(m, score, side) \in Verdicts
<1>1. CASE m.kind = "SPREAD"
  <2>1. m.line \in Int /\ side \in {"HOME", "AWAY"}
    BY <1>1, LineIsInt DEF Sides, Lined
  <2>2. SpreadVerdict(m, score, side) \in Verdicts
    BY <2>1, SpreadSides, VerdictType DEF Verdicts
  <2> QED
    BY <1>1, <2>2 DEF Decide
<1>2. CASE m.kind \in {"TOTAL", "TEAM_TOTAL"}
  <2>1. m.line \in Int /\ side \in {"OVER", "UNDER"}
    BY <1>2, LineIsInt DEF Sides, Lined
  <2>2. TotalVerdict(m, score, side) \in Verdicts
    BY <2>1, TotalSides, VerdictType DEF Verdicts
  <2> QED
    BY <1>2, <2>2 DEF Decide
<1>3. CASE m.kind \notin {"SPREAD", "TOTAL", "TEAM_TOTAL"}
  BY <1>3 DEF Decide, WonIf, Verdicts
<1> QED
  BY <1>1, <1>2, <1>3

LEMMA ComputedType ==
  ASSUME NEW m \in MarketType, NEW score \in ScoreType \cup {None}, NEW side \in Sides(m)
  PROVE  Computed(m, score, side) \in Verdicts
BY DecideType DEF Computed, Verdicts

LEMMA GradedType ==
  ASSUME NEW m \in MarketType, HasLine(m), NEW score \in ScoreType,
         NEW scored, NEW side \in Sides(m)
  PROVE  Graded(m, score, scored, side) \in Verdicts
<1>1. CASE m.kind \in Lined
  <2>1. Graded(m, score, scored, side) = Decide(m, score, side)
    BY <1>1 DEF Lined, Graded, Decide
  <2> QED
    BY <2>1, DecideType
<1>2. CASE m.kind \notin Lined
  BY <1>2 DEF Lined, Graded, GradedMoneyline, WonIf, Verdicts
<1> QED
  BY <1>1, <1>2

\* The two implementations of the rules give a side the same verdict where both
\* give one.
LEMMA RulesAgree ==
  ASSUME NEW m \in MarketType, HasLine(m), NEW score \in ScoreType,
         NEW scored, NEW side \in Sides(m),
         Graded(m, score, scored, side) # "PENDING",
         Computed(m, score, side) # "PENDING"
  PROVE  Graded(m, score, scored, side) = Computed(m, score, side)
<1>1. Computed(m, score, side) = Decide(m, score, side)
  BY RulesAssumption DEF Computed
<1>2. CASE m.kind \in {"MONEYLINE", "MONEYLINE_3WAY", "REGULATION"}
  BY <1>1, <1>2 DEF Graded, GradedMoneyline, Decide, Winner, Margin, WonIf, ScoreType
<1>3. CASE m.kind \in {"SPREAD", "TOTAL", "TEAM_TOTAL"}
  BY <1>1, <1>3 DEF Graded, Decide
<1>4. CASE m.kind \in {"BTTS", "EVEN_ODD", "DOUBLE_CHANCE", "DRAW_NO_BET"}
  BY <1>1, <1>4 DEF Graded, Decide
<1> QED
  BY <1>2, <1>3, <1>4 DEF MarketType, Kinds

-------------------------------------------------------------------------------
(***************************************************************************)
(* The passes over the rows of one market.                                 *)
(***************************************************************************)

LEMMA SettlePass ==
  ASSUME NEW m \in MarketType, NEW score \in ScoreType \cup {None},
         NEW rows \in [Sides(m) -> RowType]
  PROVE  /\ Settle(rows, m, score) \in [Sides(m) -> RowType]
         /\ \A side \in Sides(m) :
              /\ rows[side].status # "PENDING" => Settle(rows, m, score)[side] = rows[side]
              /\ \/ Settle(rows, m, score)[side] = rows[side]
                 \/ /\ rows[side].source \in {"", "COMPUTED"}
                    /\ Settle(rows, m, score)[side].source = "COMPUTED"
<1>1. \A side \in Sides(m) : Computed(m, score, side) \in Verdicts
  BY ComputedType
<1> QED
  BY <1>1 DEF Settle, RowType, Statuses, Sources, Verdicts

LEMMA VoidPass ==
  ASSUME NEW S, NEW rows \in [S -> RowType]
  PROVE  /\ VoidPending(rows) \in [S -> RowType]
         /\ \A side \in S : VoidPending(rows)[side].status # "PENDING"
         /\ \A side \in S : rows[side].status # "PENDING" => VoidPending(rows)[side] = rows[side]
BY DEF VoidPending, RowType, Statuses, Sources

LEMMA GradePass ==
  ASSUME NEW m \in MarketType, NEW score \in ScoreType \cup {None}, NEW scored,
         NEW rows \in [Sides(m) -> RowType]
  PROVE  /\ Grade(rows, m, score, scored) \in [Sides(m) -> RowType]
         /\ \A side \in Sides(m) :
              \/ Grade(rows, m, score, scored)[side] = rows[side]
              \/ /\ rows[side].source # "MANUAL"
                 /\ Grade(rows, m, score, scored)[side].source = "PROVIDER"
                 /\ Grade(rows, m, score, scored)[side].status # "PENDING"
<1>1. \A side \in Sides(m) :
        score # None /\ HasLine(m) => Graded(m, score, scored, side) \in Verdicts
  BY GradedType
<1> QED
  BY <1>1 DEF Grade, RowType, Statuses, Sources, Verdicts

-------------------------------------------------------------------------------
(***************************************************************************)
(* The verdict of a side whoever gives it: the computed rule, and the      *)
(* provider's where there is no computed one.                              *)
(***************************************************************************)
Rule(m, score, side) ==
  CASE m.kind = "REGULATION" -> WonIf(side = Winner(score))
    [] m.kind = "EVEN_ODD" -> WonIf((side = "EVEN") = (Points(m, score) % 2 = 0))
    [] OTHER -> Decide(m, score, side)

LEMMA GradedIsRule ==
  ASSUME NEW m \in MarketType, NEW score \in ScoreType, NEW scored, NEW side \in Sides(m),
         Graded(m, score, scored, side) # "PENDING"
  PROVE  Graded(m, score, scored, side) = Rule(m, score, side)
<1>1. CASE m.kind \in {"MONEYLINE", "MONEYLINE_3WAY", "REGULATION"}
  BY <1>1 DEF Graded, GradedMoneyline, Rule, Decide, Winner, Margin, WonIf, ScoreType
<1>2. CASE m.kind \in {"SPREAD", "TOTAL", "TEAM_TOTAL"}
  BY <1>2 DEF Graded, Rule, Decide
<1>3. CASE m.kind \in {"BTTS", "EVEN_ODD", "DOUBLE_CHANCE", "DRAW_NO_BET"}
  BY <1>3 DEF Graded, Rule, Decide
<1> QED
  BY <1>1, <1>2, <1>3 DEF MarketType, Kinds

LEMMA ComputedIsRule ==
  ASSUME NEW m \in MarketType, NEW score \in ScoreType \cup {None}, NEW side \in Sides(m),
         Computed(m, score, side) # "PENDING"
  PROVE  /\ score # None /\ HasLine(m)
         /\ Computed(m, score, side) = Rule(m, score, side)
<1>1. score # None /\ HasLine(m) /\ Computed(m, score, side) = Decide(m, score, side)
  BY DEF Computed
<1> QED
  BY <1>1 DEF Rule, Decide

LEMMA NewIsOpen == NewSelection.status = "PENDING"
BY DEF NewSelection

\* The finalize block on rows nobody decided but a hand or the watchdog.
LEMMA FreshPass ==
  ASSUME NEW m \in MarketType, NEW score \in ScoreType, NEW scored,
         NEW rows \in [Sides(m) -> RowType],
         \A side \in Sides(m) : \/ rows[side] = NewSelection
                                \/ rows[side].source = "MANUAL"
                                \/ rows[side].status = "VOID",
         NEW side \in Sides(m)
  PROVE  LET row == VoidPending(Settle(Grade(rows, m, score, scored), m, score))[side]
         IN \/ row.source = "MANUAL"
            \/ row.status = "VOID"
            \/ HasLine(m) /\ row.status = Rule(m, score, side)
<1> DEFINE graded == Grade(rows, m, score, scored)
           settled == Settle(graded, m, score)
<1>1. \/ graded[side] = rows[side]
      \/ HasLine(m) /\ graded[side].status = Rule(m, score, side)
  BY GradedIsRule DEF Grade
<1>2. graded \in [Sides(m) -> RowType]
  BY GradePass
<1>3. \/ settled[side] = graded[side]
      \/ HasLine(m) /\ settled[side].status = Rule(m, score, side)
  BY <1>2, ComputedIsRule DEF Settle
<1>4. settled \in [Sides(m) -> RowType]
  BY <1>2, SettlePass
<1>5. \/ VoidPending(settled)[side] = settled[side]
      \/ VoidPending(settled)[side].status = "VOID"
  BY <1>4 DEF VoidPending
<1>6. VoidPending(settled)[side].status # "PENDING"
  BY <1>4, VoidPass
<1> HIDE DEF graded, settled
<1>7. rows[side] = NewSelection =>
        \/ VoidPending(settled)[side].status = "VOID"
        \/ HasLine(m) /\ VoidPending(settled)[side].status = Rule(m, score, side)
  <2>1. rows[side] = NewSelection => rows[side].status = "PENDING"
    BY NewIsOpen
  <2>2. \/ VoidPending(settled)[side] = rows[side]
        \/ VoidPending(settled)[side].status = "VOID"
        \/ HasLine(m) /\ VoidPending(settled)[side].status = Rule(m, score, side)
    BY <1>1, <1>3, <1>5
  <2> QED
    BY <1>6, <2>1, <2>2
<1> QED
  BY <1>1, <1>3, <1>5, <1>7 DEF graded, settled
===============================================================================
