------------------------ MODULE SettlementPassesProofs ------------------------
(***************************************************************************)
(* What holds of a market's settlement for every kind, line and score, any *)
(* set of graded odds, and any number of corrections.                      *)
(*                                                                         *)
(* Layers: types; no side of a finished event is open; what a pass may do  *)
(* to a decided row; and, for the sides to fit together, where the rows of *)
(* the first finalization come from.                                       *)
(***************************************************************************)
EXTENDS SettlementPasses, SettlementRulesProofs

LEMMA TypeStep == TypeOK /\ [Next]_vars => TypeOK'
<1> SUFFICES ASSUME TypeOK, [Next]_vars PROVE TypeOK'
  OBVIOUS
<1> USE PassesAssumption
<1>1. market \in MarketType /\ Scores \subseteq ScoreType
  BY DEF TypeOK
<1>2. ASSUME NEW s \in Scores, NEW scored \in SUBSET Sides(market), Finalize(s, scored)
      PROVE  TypeOK'
  <2>1. FinalizeRows(s, scored) \in [Sides(market) -> RowType]
    BY <1>1, GradePass, SettlePass, VoidPass DEF FinalizeRows, TypeOK
  <2>2. round' \in 0 .. MaxRounds
    BY <1>2 DEF Finalize, TypeOK
  <2> QED
    BY <1>2, <2>1, <2>2 DEF Finalize, TypeOK
<1>3. CASE AutoVoid
  BY <1>3, VoidPass DEF AutoVoid, TypeOK
<1>4. CASE Reappear
  BY <1>4 DEF Reappear, TypeOK
<1>5. CASE Backfill
  BY <1>1, <1>5, SettlePass DEF Backfill, TypeOK
<1>6. ASSUME NEW side \in DOMAIN rows, NEW verdict \in Statuses \ {"PENDING"},
             SettleByHand(side, verdict)
      PROVE  TypeOK'
  BY <1>6 DEF SettleByHand, TypeOK, RowType, Sources
<1>7. CASE UNCHANGED vars
  BY <1>7 DEF vars, TypeOK
<1> QED
  BY <1>2, <1>3, <1>4, <1>5, <1>6, <1>7 DEF Next

\* Every reachable state is type-correct.
THEOREM TypeCorrect == Spec => []TypeOK
<1>1. NewSelection \in RowType /\ 0 \in 0 .. MaxRounds
  BY PassesAssumption DEF NewSelection, RowType, Statuses, Sources
<1>2. Init => TypeOK
  BY <1>1 DEF Init, TypeOK
<1> QED
  BY <1>2, TypeStep, PTL DEF Spec

-------------------------------------------------------------------------------
(***************************************************************************)
(* What a step does to one row.                                            *)
(***************************************************************************)

RankUp(old, new) ==
  /\ Rank[new.source] >= Rank[old.source]
  /\ old.source = "MANUAL" => new.source = "MANUAL"

LEMMA RankOf ==
  /\ Rank["MANUAL"] = 3 /\ Rank["PROVIDER"] = 2 /\ Rank["COMPUTED"] = 1
  /\ \A source \in Sources \ {"MANUAL", "PROVIDER", "COMPUTED"} : Rank[source] = 0
BY DEF Rank, Sources

LEMMA RankUpProvider ==
  ASSUME NEW a, NEW b, a.source \in {"MANUAL", "PROVIDER"}, b.source \in {a.source, "PROVIDER"},
         a.source = "MANUAL" => b.source = "MANUAL"
  PROVE  RankUp(a, b)
<1>1. CASE a.source = "MANUAL"
  BY <1>1, RankOf DEF RankUp
<1>2. CASE a.source = "PROVIDER"
  BY <1>2, RankOf DEF RankUp
<1> QED
  BY <1>1, <1>2

LEMMA RankUpOpen ==
  ASSUME NEW a, NEW b, a.source \in Sources \ {"MANUAL", "PROVIDER"},
         b.source \in {"COMPUTED", "PROVIDER", a.source}
  PROVE  RankUp(a, b)
BY RankOf DEF RankUp

\* No row reached by the passes is a manual one left open.
ManualDecided == \A side \in Sides(market) : rows[side].source = "MANUAL" => rows[side].status # "PENDING"

\* Nor is one that the provider graded.
ProviderDecided == \A side \in Sides(market) : rows[side].source = "PROVIDER" => rows[side].status # "PENDING"

Decidedness == TypeOK /\ ManualDecided /\ ProviderDecided /\ Definitive

LEMMA FinalizeRow ==
  ASSUME Decidedness, NEW s \in Scores, NEW scored, NEW side \in Sides(market)
  PROVE  /\ FinalizeRows(s, scored)[side].status # "PENDING"
         /\ RankUp(rows[side], FinalizeRows(s, scored)[side])
<1> DEFINE g == Grade(rows, market, s, scored)
           c == Settle(g, market, s)
<1>1. market \in MarketType /\ s \in ScoreType
  BY PassesAssumption DEF Decidedness, TypeOK
<1>2. /\ g \in [Sides(market) -> RowType]
      /\ \/ g[side] = rows[side]
         \/ rows[side].source # "MANUAL" /\ g[side].source = "PROVIDER" /\ g[side].status # "PENDING"
  BY <1>1, GradePass DEF Decidedness, TypeOK
<1>3. /\ c \in [Sides(market) -> RowType]
      /\ g[side].status # "PENDING" => c[side] = g[side]
      /\ c[side] = g[side] \/ (g[side].source \in {"", "COMPUTED"} /\ c[side].source = "COMPUTED")
  BY <1>1, <1>2, SettlePass
<1>4. /\ VoidPending(c)[side].status # "PENDING"
      /\ c[side].status # "PENDING" => VoidPending(c)[side] = c[side]
      /\ c[side].status = "PENDING" => VoidPending(c)[side].source = "COMPUTED"
  BY <1>3, VoidPass DEF VoidPending
<1>5. FinalizeRows(s, scored) = VoidPending(c)
  BY DEF FinalizeRows
<1>6. rows[side] \in RowType
  BY DEF Decidedness, TypeOK
<1>7. FinalizeRows(s, scored)[side].status # "PENDING"
  BY <1>4, <1>5
<1>8. CASE rows[side].source \in {"MANUAL", "PROVIDER"}
  <2>1. rows[side].status # "PENDING"
    BY <1>8 DEF Decidedness, ManualDecided, ProviderDecided
  <2>2. VoidPending(c)[side] = g[side]
    BY <1>2, <1>3, <1>4, <2>1
  <2>3. /\ FinalizeRows(s, scored)[side].source \in {rows[side].source, "PROVIDER"}
        /\ rows[side].source = "MANUAL" => FinalizeRows(s, scored)[side].source = "MANUAL"
    BY <1>2, <1>5, <2>2
  <2>4. RankUp(rows[side], FinalizeRows(s, scored)[side])
    BY <1>8, <2>3, RankUpProvider
  <2> QED
    BY <1>7, <2>4
<1>9. CASE rows[side].source \in Sources \ {"MANUAL", "PROVIDER"}
  <2>1. FinalizeRows(s, scored)[side].source \in {"COMPUTED", "PROVIDER", rows[side].source}
    BY <1>2, <1>3, <1>4, <1>5
  <2>2. RankUp(rows[side], FinalizeRows(s, scored)[side])
    BY <1>9, <2>1, RankUpOpen
  <2> QED
    BY <1>7, <2>2
<1> QED
  BY <1>6, <1>8, <1>9 DEF RowType

LEMMA FinalizeDecides ==
  ASSUME Decidedness, NEW s \in Scores, NEW scored \in SUBSET Sides(market), Finalize(s, scored)
  PROVE  \A side \in Sides(market) :
           rows'[side].status # "PENDING" /\ RankUp(rows[side], rows'[side])
BY FinalizeRow DEF Finalize

LEMMA VoidRow ==
  ASSUME Decidedness, NEW side \in Sides(market)
  PROVE  /\ VoidPending(rows)[side].status # "PENDING"
         /\ RankUp(rows[side], VoidPending(rows)[side])
<1>1. rows \in [Sides(market) -> RowType] /\ rows[side].source \in Sources
  BY DEF Decidedness, TypeOK, RowType
<1>2. VoidPending(rows)[side].status # "PENDING"
  BY <1>1, VoidPass
<1>3. CASE rows[side].status # "PENDING"
  <2>1. VoidPending(rows)[side] = rows[side]
    BY <1>1, <1>3, VoidPass
  <2> QED
    BY <1>1, <1>2, <2>1, RankUpOpen, RankUpProvider
<1>4. CASE rows[side].status = "PENDING"
  <2>1. rows[side].source \in Sources \ {"MANUAL", "PROVIDER"}
    BY <1>1, <1>4 DEF Decidedness, ManualDecided, ProviderDecided
  <2>2. VoidPending(rows)[side].source = "COMPUTED"
    BY <1>1, <1>4 DEF VoidPending
  <2> QED
    BY <1>2, <2>1, <2>2, RankUpOpen
<1> QED
  BY <1>3, <1>4

LEMMA SettleRow ==
  ASSUME Decidedness, NEW side \in Sides(market)
  PROVE  /\ rows[side].status # "PENDING" => Settle(rows, market, score)[side] = rows[side]
         /\ RankUp(rows[side], Settle(rows, market, score)[side])
<1>1. /\ market \in MarketType /\ score \in ScoreType \cup {None}
      /\ rows \in [Sides(market) -> RowType] /\ rows[side].source \in Sources
  BY PassesAssumption DEF Decidedness, TypeOK, RowType
<1>2. /\ rows[side].status # "PENDING" => Settle(rows, market, score)[side] = rows[side]
      /\ Settle(rows, market, score)[side].source \in {"COMPUTED", rows[side].source}
  BY <1>1, SettlePass
<1>3. CASE rows[side].status # "PENDING"
  BY <1>1, <1>2, <1>3, RankUpOpen, RankUpProvider
<1>4. CASE rows[side].status = "PENDING"
  <2>1. rows[side].source \in Sources \ {"MANUAL", "PROVIDER"}
    BY <1>1, <1>4 DEF Decidedness, ManualDecided, ProviderDecided
  <2> QED
    BY <1>2, <1>4, <2>1, RankUpOpen
<1> QED
  BY <1>3, <1>4

\* Every step moves every row up, and keeps a decided one decided.
RowsGoUp ==
  \A side \in Sides(market) :
    /\ RankUp(rows[side], rows'[side])
    /\ rows[side].status # "PENDING" => rows'[side].status # "PENDING"

LEMMA Upwards == Decidedness /\ [Next]_vars => RowsGoUp
<1> SUFFICES ASSUME Decidedness, [Next]_vars PROVE RowsGoUp
  OBVIOUS
<1>1. \A side \in Sides(market) : rows[side].source \in Sources
  BY DEF Decidedness, TypeOK, RowType
<1>2. \A side \in Sides(market) : RankUp(rows[side], rows[side])
  BY <1>1, RankUpOpen, RankUpProvider
<1>3. ASSUME NEW s \in Scores, NEW scored \in SUBSET Sides(market), Finalize(s, scored)
      PROVE  RowsGoUp
  BY <1>3, FinalizeDecides DEF RowsGoUp
<1>4. CASE AutoVoid
  BY <1>4, VoidRow DEF AutoVoid, RowsGoUp
<1>5. CASE Reappear \/ UNCHANGED vars
  BY <1>2, <1>5 DEF Reappear, vars, RowsGoUp
<1>6. CASE Backfill
  BY <1>6, SettleRow DEF Backfill, RowsGoUp
<1>7. ASSUME NEW hand \in DOMAIN rows, NEW verdict \in Statuses \ {"PENDING"},
             SettleByHand(hand, verdict)
      PROVE  RowsGoUp
  <2> SUFFICES ASSUME NEW side \in Sides(market)
               PROVE  /\ RankUp(rows[side], rows'[side])
                      /\ rows[side].status # "PENDING" => rows'[side].status # "PENDING"
    BY DEF RowsGoUp
  <2>1. rows \in [Sides(market) -> RowType]
    BY DEF Decidedness, TypeOK
  <2>2. CASE side = hand
    <3>1. rows'[side].source = "MANUAL" /\ rows'[side].status # "PENDING"
      BY <1>7, <2>1, <2>2 DEF SettleByHand
    <3>2. RankUp(rows[side], rows'[side])
      <4>1. rows[side].source = "MANUAL" \/ rows[side].source = "PROVIDER" \/ rows[side].source = "COMPUTED"
            \/ rows[side].source \in Sources \ {"MANUAL", "PROVIDER", "COMPUTED"}
        BY <1>1
      <4> QED
        BY <3>1, <4>1, RankOf DEF RankUp
    <3> QED
      BY <3>1, <3>2
  <2>3. CASE side # hand
    <3>1. rows'[side] = rows[side]
      BY <1>7, <2>1, <2>3 DEF SettleByHand
    <3> QED
      BY <1>2, <3>1
  <2> QED
    BY <2>2, <2>3
<1> QED
  BY <1>3, <1>4, <1>5, <1>6, <1>7 DEF Next

-------------------------------------------------------------------------------
(***************************************************************************)
(* A finished event has no open side, and decisions stay.                  *)
(***************************************************************************)

LEMMA DecidednessStep == Decidedness /\ [Next]_vars => Decidedness'
<1> SUFFICES ASSUME Decidedness, [Next]_vars PROVE Decidedness'
  OBVIOUS
<1>1. TypeOK' /\ RowsGoUp
  BY TypeStep, Upwards DEF Decidedness
<1>2. ASSUME NEW s \in Scores, NEW scored \in SUBSET Sides(market), Finalize(s, scored)
      PROVE  Decidedness'
  BY <1>1, <1>2, FinalizeDecides DEF Finalize, Decidedness, ManualDecided, ProviderDecided, Definitive, TypeOK
<1>3. CASE AutoVoid
  BY <1>1, <1>3, VoidRow DEF AutoVoid, Decidedness, ManualDecided, ProviderDecided, Definitive, TypeOK
<1>4. CASE Reappear
  BY <1>1, <1>4 DEF Reappear, Decidedness, ManualDecided, ProviderDecided, Definitive, TypeOK
<1>5. CASE Backfill
  <2>1. \A side \in Sides(market) : rows'[side].status # "PENDING"
    BY <1>1, <1>5 DEF Backfill, Decidedness, Definitive, TypeOK, RowsGoUp
  <2> QED
    BY <1>1, <1>5, <2>1 DEF Backfill, Decidedness, ManualDecided, ProviderDecided, Definitive, TypeOK
<1>6. ASSUME NEW hand \in DOMAIN rows, NEW verdict \in Statuses \ {"PENDING"},
             SettleByHand(hand, verdict)
      PROVE  Decidedness'
  <2>1. \A side \in Sides(market) : rows'[side].status # "PENDING" \/ rows'[side] = rows[side]
    BY <1>6 DEF SettleByHand, Decidedness, TypeOK
  <2> QED
    BY <1>1, <1>6, <2>1 DEF SettleByHand, Decidedness, ManualDecided, ProviderDecided, Definitive, TypeOK
<1>7. CASE UNCHANGED vars
  BY <1>1, <1>7 DEF vars, Decidedness, ManualDecided, ProviderDecided, Definitive
<1> QED
  BY <1>2, <1>3, <1>4, <1>5, <1>6, <1>7 DEF Next

LEMMA DecidednessHolds == Spec => []Decidedness
<1>1. Init => Decidedness
  <2> SUFFICES ASSUME Init PROVE Decidedness
    OBVIOUS
  <2>1. TypeOK
    <3>1. NewSelection \in RowType /\ 0 \in 0 .. MaxRounds
      BY PassesAssumption DEF NewSelection, RowType, Statuses, Sources
    <3> QED
      BY <3>1 DEF Init, TypeOK
  <2>2. \A side \in Sides(market) : rows[side].source \notin {"MANUAL", "PROVIDER"}
    BY DEF Init, NewSelection
  <2> QED
    BY <2>1, <2>2 DEF Init, Decidedness, ManualDecided, ProviderDecided, Definitive
<1> QED
  BY <1>1, DecidednessStep, PTL DEF Spec

\* A finished event has no PENDING selection to announce, whatever was graded,
\* voided, edited or backfilled before.
THEOREM FinishedIsDefinitive == Spec => []Definitive
<1>1. Decidedness => Definitive
  BY DEF Decidedness
<1> QED
  BY <1>1, DecidednessHolds, PTL

\* Sources only move up, and a row settled by hand stays so.
THEOREM SourcesGoUp == Spec => NeverDowngraded
<1>1. Decidedness /\ [Next]_vars =>
        [\A side \in DOMAIN rows :
           /\ Rank[rows'[side].source] >= Rank[rows[side].source]
           /\ rows[side].source = "MANUAL" => rows'[side].source = "MANUAL"]_vars
  <2> SUFFICES ASSUME Decidedness, [Next]_vars
               PROVE  \A side \in DOMAIN rows :
                        /\ Rank[rows'[side].source] >= Rank[rows[side].source]
                        /\ rows[side].source = "MANUAL" => rows'[side].source = "MANUAL"
    OBVIOUS
  <2> QED
    BY Upwards DEF RowsGoUp, RankUp, Decidedness, TypeOK
<1> QED
  BY <1>1, DecidednessHolds, PTL DEF Spec, NeverDowngraded

\* No correction, return to the feed or backfill reopens a decided selection.
THEOREM DecisionsStay == Spec => DecidedForGood
<1>1. Decidedness /\ [Next]_vars =>
        [\A side \in DOMAIN rows :
           rows[side].status # "PENDING" => rows'[side].status # "PENDING"]_vars
  BY Upwards DEF RowsGoUp, Decidedness, TypeOK
<1> QED
  BY <1>1, DecidednessHolds, PTL DEF Spec, DecidedForGood

-------------------------------------------------------------------------------
(***************************************************************************)
(* The rules agree with each other, on every score.                        *)
(***************************************************************************)

\* The provider's grade and the computed fallback never contradict each other.
THEOREM GradersAgree == Spec => []SourcesAgree
<1>1. TypeOK => SourcesAgree
  BY PassesAssumption, RulesAgree DEF TypeOK, SourcesAgree
<1> QED
  BY <1>1, TypeCorrect, PTL

\* Draw no bet is a level spread, and a double chance the union of two 3-way sides.
THEOREM MarketKindsAgree == Spec => []KindsAgree
<1>1. ASSUME TypeOK, score # None
      PROVE  \A side \in {"HOME", "AWAY"} :
               Decide(Like("DRAW_NO_BET"), score, side) = Decide(Level, score, side)
  BY <1>1, PassesAssumption
     DEF TypeOK, Decide, Like, Level, SpreadVerdict, Verdict, Winner, Margin, Quarters, WonIf, ScoreType
<1>2. ASSUME TypeOK, score # None
      PROVE  \A pair \in {<<"1X", "HOME", "DRAW">>, <<"X2", "AWAY", "DRAW">>, <<"12", "HOME", "AWAY">>} :
               Decide(Like("DOUBLE_CHANCE"), score, pair[1]) = "WON"
                 <=> "WON" \in { Decide(Like("MONEYLINE_3WAY"), score, pair[i]) : i \in {2, 3} }
  <2>1. Winner(score) \in {"HOME", "AWAY", "DRAW"}
    BY <1>2, PassesAssumption, WinnerType DEF TypeOK
  <2> QED
    BY <2>1 DEF Decide, Like, WonIf, Covers
<1>3. TypeOK => KindsAgree
  BY <1>1, <1>2 DEF KindsAgree
<1> QED
  BY <1>3, TypeCorrect, PTL

\* A bet and the 3-way side it names are settled alike.
THEOREM BetsFollowSides == Spec => []BetsAgree
<1>1. ASSUME TypeOK, score # None, NEW pair \in Backed
      PROVE  BetDecision(pair[1], score) = "won"
               <=> Decide(Like("MONEYLINE_3WAY"), score, pair[2]) = "WON"
  BY <1>1 DEF Backed, BetDecision, BetSide, AutoSettled, Decide, Like, WonIf
<1>2. TypeOK => BetsAgree
  BY <1>1 DEF BetsAgree
<1> QED
  BY <1>2, TypeCorrect, PTL

-------------------------------------------------------------------------------
(***************************************************************************)
(* The sides of a market are decided together.                             *)
(***************************************************************************)

\* Before the first finalization only the watchdog and a hand decide a row; the
\* first one leaves the others with the verdict of the rule, or voids them.
ByRule(side) ==
  \/ rows[side].source = "MANUAL"
  \/ rows[side].status = "VOID"
  \/ HasLine(market) /\ rows[side].status = Rule(market, score, side)

FirstPass ==
  /\ round = 0 =>
       /\ status # "finished"
       /\ \A side \in Sides(market) : \/ rows[side] = NewSelection
                                      \/ rows[side].source = "MANUAL"
                                      \/ rows[side].status = "VOID"
  /\ status = "finished" => score \in Scores
  /\ status = "finished" /\ round = 1 => \A side \in Sides(market) : ByRule(side)

LEMMA FirstPassStep == Decidedness /\ FirstPass /\ [Next]_vars => FirstPass'
<1> SUFFICES ASSUME Decidedness, FirstPass, [Next]_vars PROVE FirstPass'
  OBVIOUS
<1>1. TypeOK /\ market \in MarketType
  BY PassesAssumption DEF Decidedness, TypeOK
<1>2. ASSUME NEW s \in Scores, NEW scored \in SUBSET Sides(market), Finalize(s, scored)
      PROVE  FirstPass'
  <2>1. round' = round + 1 /\ status' = "finished" /\ score' = s /\ market' = market
    BY <1>2 DEF Finalize
  <2>2. round \in Nat
    BY <1>1, PassesAssumption DEF TypeOK
  <2>3. ASSUME round = 0, NEW side \in Sides(market)
        PROVE  ByRule(side)'
    <3>1. rows \in [Sides(market) -> RowType] /\ s \in ScoreType
      BY <1>1, PassesAssumption DEF TypeOK
    <3>2. rows'[side] = VoidPending(Settle(Grade(rows, market, s, scored), market, s))[side]
      BY <1>2 DEF Finalize, FinalizeRows
    <3>3. \A other \in Sides(market) : \/ rows[other] = NewSelection
                                       \/ rows[other].source = "MANUAL"
                                       \/ rows[other].status = "VOID"
      BY <2>3 DEF FirstPass
    <3>4. \/ rows'[side].source = "MANUAL"
          \/ rows'[side].status = "VOID"
          \/ HasLine(market) /\ rows'[side].status = Rule(market, s, side)
      BY <1>1, <2>3, <3>1, <3>2, <3>3, FreshPass
    <3> QED
      BY <2>1, <3>4 DEF ByRule
  <2> QED
    BY <2>1, <2>2, <2>3 DEF FirstPass
<1>3. CASE AutoVoid
  <2>1. \A side \in Sides(market) :
          \/ rows[side] = NewSelection
          \/ rows[side].source = "MANUAL"
          \/ rows[side].status = "VOID"
          => \/ rows'[side] = NewSelection
             \/ rows'[side].source = "MANUAL"
             \/ rows'[side].status = "VOID"
    BY <1>1, <1>3 DEF AutoVoid, VoidPending, TypeOK
  <2> QED
    BY <1>3, <2>1 DEF AutoVoid, FirstPass
<1>4. CASE Reappear
  BY <1>4 DEF Reappear, FirstPass
<1>5. CASE Backfill
  <2>1. rows' = rows
    <3>1. \A side \in Sides(market) : rows'[side] = rows[side]
      <4>1. score \in ScoreType \cup {None} /\ rows \in [Sides(market) -> RowType]
        BY <1>1, PassesAssumption DEF TypeOK
      <4>2. \A side \in Sides(market) : rows[side].status # "PENDING"
        BY <1>5, <4>1 DEF Backfill, Decidedness, Definitive
      <4>3. \A side \in Sides(market) : Settle(rows, market, score)[side] = rows[side]
        BY <1>1, <4>1, <4>2, SettlePass
      <4> QED
        BY <1>5, <4>3 DEF Backfill
    <3> QED
      BY <1>1, <1>5, <3>1 DEF Backfill, Settle, TypeOK
  <2> QED
    BY <1>5, <2>1 DEF Backfill, FirstPass, ByRule
<1>6. ASSUME NEW hand \in DOMAIN rows, NEW verdict \in Statuses \ {"PENDING"},
             SettleByHand(hand, verdict)
      PROVE  FirstPass'
  <2>1. \A side \in Sides(market) : rows'[side].source = "MANUAL" \/ rows'[side] = rows[side]
    BY <1>1, <1>6 DEF SettleByHand, TypeOK
  <2> QED
    BY <1>6, <2>1 DEF SettleByHand, FirstPass, ByRule
<1>7. CASE UNCHANGED vars
  BY <1>7 DEF vars, FirstPass, ByRule
<1> QED
  BY <1>2, <1>3, <1>4, <1>5, <1>6, <1>7 DEF Next

\* On one score, the rule gives a market's sides verdicts that fit together.
LEMMA RuleFits ==
  ASSUME TypeOK, market \in MarketType, score \in ScoreType, HasLine(market),
         \A side \in Sides(market) : rows[side].status = Rule(market, score, side)
  PROVE  FitTogether
<1>1. DOMAIN rows = Sides(market)
  BY DEF TypeOK
<1>2. Winner(score) \in {"HOME", "AWAY", "DRAW"}
  BY WinnerType
<1>3. CASE market.kind \in Lined
  <2>1. ASSUME NEW one, NEW other, one # other, Sides(market) = {one, other},
               NEW surplus \in Int,
               rows[one].status = Verdict(surplus), rows[other].status = Verdict(0 - surplus)
        PROVE  FitTogether
    <3>1. CASE Verdict(surplus) = "PUSH"
      <4>1. rows[one].status = "PUSH" /\ rows[other].status = "PUSH"
        BY <2>1, <3>1, VerdictType
      <4> QED
        BY <1>1, <1>3, <2>1, <4>1 DEF FitTogether, Count
    <3>2. CASE Verdict(surplus) = "WON"
      <4>1. rows[one].status = "WON" /\ rows[other].status = "LOST"
        BY <2>1, <3>2, VerdictType
      <4>2. Count("WON") = {one} /\ Count("LOST") = {other}
        BY <1>1, <2>1, <4>1 DEF Count
      <4> QED
        BY <1>1, <1>3, <2>1, <4>2 DEF FitTogether, Lined
    <3>3. CASE Verdict(surplus) = "LOST"
      <4>1. rows[one].status = "LOST" /\ rows[other].status = "WON"
        BY <2>1, <3>3, VerdictType
      <4>2. Count("WON") = {other} /\ Count("LOST") = {one}
        BY <1>1, <2>1, <4>1 DEF Count
      <4> QED
        BY <1>1, <1>3, <2>1, <4>2 DEF FitTogether, Lined
    <3> QED
      BY <2>1, <3>1, <3>2, <3>3, VerdictType
  <2>2. CASE market.kind = "SPREAD"
    <3>1. Sides(market) = {"HOME", "AWAY"} /\ market.line \in Int
      BY <2>2, LineIsInt DEF Sides, Lined
    <3>2. PICK surplus \in Int : /\ SpreadVerdict(market, score, "HOME") = Verdict(surplus)
                                 /\ SpreadVerdict(market, score, "AWAY") = Verdict(0 - surplus)
      BY <3>1, SpreadSides
    <3>3. rows["HOME"].status = Verdict(surplus) /\ rows["AWAY"].status = Verdict(0 - surplus)
      BY <2>2, <3>1, <3>2 DEF Rule, Decide
    <3> QED
      BY <2>1, <3>1, <3>3
  <2>3. CASE market.kind \in {"TOTAL", "TEAM_TOTAL"}
    <3>1. Sides(market) = {"OVER", "UNDER"} /\ market.line \in Int
      BY <2>3, LineIsInt DEF Sides, Lined
    <3>2. PICK surplus \in Int : /\ TotalVerdict(market, score, "OVER") = Verdict(surplus)
                                 /\ TotalVerdict(market, score, "UNDER") = Verdict(0 - surplus)
      BY <3>1, TotalSides
    <3>3. rows["OVER"].status = Verdict(surplus) /\ rows["UNDER"].status = Verdict(0 - surplus)
      BY <2>3, <3>1, <3>2 DEF Rule, Decide
    <3> QED
      BY <2>1, <3>1, <3>3
  <2> QED
    BY <1>3, <2>2, <2>3 DEF Lined
<1>4. CASE market.kind \in {"MONEYLINE_3WAY", "REGULATION"}
  <2>1. /\ Sides(market) = {"HOME", "AWAY", "DRAW"}
        /\ \A side \in Sides(market) : rows[side].status = WonIf(side = Winner(score))
    BY <1>4 DEF Sides, Rule, Decide
  <2>2. Count("WON") = {Winner(score)} /\ Count("WON") \cup Count("LOST") = DOMAIN rows
    BY <1>1, <1>2, <2>1 DEF Count, WonIf
  <2> QED
    BY <1>1, <1>2, <1>4, <2>1, <2>2 DEF FitTogether
<1>5. CASE market.kind = "MONEYLINE"
  <2>1. /\ Sides(market) = {"HOME", "AWAY"}
        /\ \A side \in Sides(market) : rows[side].status = WonIf(side = Winner(score))
    BY <1>5 DEF Sides, Rule, Decide
  <2>2. Count("WON") = Sides(market) \cap {Winner(score)}
    BY <1>1, <2>1 DEF Count, WonIf
  <2>3. Count("WON") \cup Count("LOST") = DOMAIN rows
    BY <1>1, <2>1 DEF Count, WonIf
  <2>4. Count("WON") = {"HOME"} \/ Count("WON") = {"AWAY"} \/ (Winner(score) = "DRAW" /\ Count("WON") = {})
    BY <1>2, <2>1, <2>2
  <2> QED
    BY <1>1, <1>5, <2>1, <2>3, <2>4 DEF FitTogether
<1>6. CASE market.kind = "DRAW_NO_BET"
  <2>1. Sides(market) = {"HOME", "AWAY"}
    BY <1>6 DEF Sides
  <2>2. CASE Winner(score) = "DRAW"
    <3>1. \A side \in Sides(market) : rows[side].status = "PUSH"
      BY <1>6, <2>2 DEF Rule, Decide
    <3> QED
      BY <1>1, <1>6, <3>1 DEF FitTogether, Count
  <2>3. CASE Winner(score) # "DRAW"
    <3>1. \A side \in Sides(market) : rows[side].status = WonIf(side = Winner(score))
      BY <1>6, <2>3 DEF Rule, Decide
    <3>2. Count("WON") = {Winner(score)} /\ Count("WON") \cup Count("LOST") = DOMAIN rows
      BY <1>1, <1>2, <2>1, <2>3, <3>1 DEF Count, WonIf
    <3> QED
      BY <1>1, <1>2, <1>6, <2>1, <2>3, <3>2 DEF FitTogether
  <2> QED
    BY <2>2, <2>3
<1>7. CASE market.kind \in {"BTTS", "EVEN_ODD"}
  <2> DEFINE yes == IF market.kind = "BTTS" THEN "YES" ELSE "EVEN"
             no == IF market.kind = "BTTS" THEN "NO" ELSE "ODD"
             holds == IF market.kind = "BTTS" THEN BothScored(score)
                      ELSE Points(market, score) % 2 = 0
  <2>1. Sides(market) = {yes, no} /\ yes # no
    BY <1>7 DEF Sides
  <2>2. rows[yes].status = WonIf(holds) /\ rows[no].status = WonIf(~ holds)
    <3>1. CASE market.kind = "BTTS"
      BY <2>1, <3>1 DEF Rule, Decide, WonIf, BothScored
    <3>2. CASE market.kind = "EVEN_ODD"
      BY <2>1, <3>2 DEF Rule, WonIf
    <3> QED
      BY <1>7, <3>1, <3>2
  <2> HIDE DEF yes, no, holds
  <2>3. \E side \in Sides(market) : Count("WON") = {side}
    BY <1>1, <2>1, <2>2 DEF Count, WonIf
  <2>4. Count("WON") \cup Count("LOST") = DOMAIN rows
    BY <1>1, <2>1, <2>2 DEF Count, WonIf
  <2> QED
    BY <1>1, <1>7, <2>3, <2>4 DEF FitTogether
<1>8. CASE market.kind = "DOUBLE_CHANCE"
  <2>1. /\ Sides(market) = {"1X", "X2", "12"}
        /\ \A side \in Sides(market) : rows[side].status = WonIf(Covers(side, Winner(score)))
    BY <1>8 DEF Sides, Rule, Decide
  <2>2. \A side \in Sides(market) : Covers(side, Winner(score))
          <=> side # CASE Winner(score) = "HOME" -> "X2" [] Winner(score) = "AWAY" -> "1X"
                       [] Winner(score) = "DRAW" -> "12"
    BY <1>2, <2>1 DEF Covers
  <2>3. \E side \in Sides(market) : Count("LOST") = {side}
    BY <1>1, <1>2, <2>1, <2>2 DEF Count, WonIf
  <2>4. Count("WON") \cup Count("LOST") = DOMAIN rows
    BY <1>1, <2>1 DEF Count, WonIf
  <2> QED
    BY <1>1, <1>8, <2>3, <2>4 DEF FitTogether
<1> QED
  BY <1>3, <1>4, <1>5, <1>6, <1>7, <1>8 DEF MarketType, Kinds, Lined

\* The first finalization of a market nobody voided or edited never has two
\* winners, nor a push against a loss, whichever sides the provider graded.
THEOREM SidesAreDecidedTogether == Spec => []SidesFitTogether
<1>1. Init => FirstPass
  BY DEF Init, FirstPass
<1>2. Spec => []FirstPass
  BY <1>1, FirstPassStep, DecidednessHolds, PTL DEF Spec
<1>3. ASSUME Decidedness, FirstPass PROVE SidesFitTogether
  <2> SUFFICES ASSUME status = "finished", round = 1,
                      \A side \in DOMAIN rows : rows[side].source # "MANUAL" /\ rows[side].status # "VOID"
               PROVE  FitTogether
    BY DEF SidesFitTogether
  <2>1. TypeOK /\ market \in MarketType /\ score \in ScoreType
    BY <1>3, PassesAssumption DEF Decidedness, FirstPass, TypeOK
  <2>2. \A side \in Sides(market) : HasLine(market) /\ rows[side].status = Rule(market, score, side)
    BY <1>3, <2>1 DEF FirstPass, ByRule, TypeOK
  <2>3. \E side : side \in Sides(market)
    BY <2>1 DEF Sides, MarketType, Kinds
  <2>4. HasLine(market)
    BY <2>2, <2>3
  <2>5. \A side \in Sides(market) : rows[side].status = Rule(market, score, side)
    BY <2>2
  <2> QED
    BY <2>1, <2>4, <2>5, RuleFits
<1> QED
  BY <1>2, <1>3, DecidednessHolds, PTL
===============================================================================
