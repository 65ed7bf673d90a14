------------------------------ MODULE PriceBoard ------------------------------
(***************************************************************************)
(* The pages that compare the books' moneyline prices of one event         *)
(* (api/analytics.py): live odds with the market's fair probabilities, the *)
(* best edge of the model over them, the table of best prices and the list *)
(* of disagreements. Quotes are upserted (ingest/ingester.py), always as   *)
(* available, and nothing takes one back.                                  *)
(* Probabilities are counted in Whole-ths; prices divide Whole.            *)
(***************************************************************************)
EXTENDS Integers, FiniteSetsExt, Nullable

CONSTANTS
  Books,
  Rows,        \* moneylines a book may offer: side -> price or None
  Model,       \* side -> probability of the model
  Whole,
  Threshold    \* of a disagreement, in percent

Outcomes == {"home", "draw", "away"}
Moneylines == {"ml", "ml3way"}

ASSUME BoardAssumption ==
  /\ Whole \in Nat /\ Threshold \in Nat /\ None \notin 1..Whole
  /\ Rows \subseteq [Outcomes -> (1..Whole) \cup {None}]
  /\ \A row \in Rows, s \in Outcomes : row[s] # None => Whole % row[s] = 0
  /\ Model \in [Outcomes -> 0..Whole] /\ Model.home + Model.draw + Model.away = Whole

VARIABLES
  offer,   \* per book the moneyline it offers at present, or None
  board,   \* market -> side -> book -> price of the row, None without one
  final    \* the event is finalized, and its selections are settled

boardVars == <<offer, board, final>>

BoardInit ==
  /\ offer = [b \in Books |-> None] /\ final = FALSE
  /\ board = [m \in Moneylines |-> [s \in Outcomes |-> [b \in Books |-> None]]]

(* A draw price makes it another market. A side without a price is not in   *)
(* the payload, so its row stays.                                           *)
MarketOf(row) == IF row.draw # None THEN "ml3way" ELSE "ml"
Quote(b, row) ==
  /\ ~final
  /\ offer' = [offer EXCEPT ![b] = row]
  /\ board' = [board EXCEPT ![MarketOf(row)] =
       [s \in Outcomes |-> [o \in Books |->
          IF o = b /\ row[s] # None THEN row[s] ELSE @[s][o]]]]
  /\ UNCHANGED final

Withdraw(b) == offer[b] # None /\ offer' = [offer EXCEPT ![b] = None] /\ UNCHANGED <<board, final>>

FinalizeEvent == ~final /\ final' = TRUE /\ UNCHANGED <<offer, board>>

BoardNext == FinalizeEvent \/ \E b \in Books : Withdraw(b) \/ \E row \in Rows : Quote(b, row)

BoardSpec == BoardInit /\ [][BoardNext]_boardVars
-----------------------------------------------------------------------------
Quoted(m, s) == {b \in Books : board[m][s][b] # None}
QuotedPrices(m, s) == {board[m][s][b] : b \in Quoted(m, s)}

(* _build_live_odds_payload: the best price of each side that has one, what  *)
(* it implies, and all of it together, which exceeds Whole by the vig.       *)
LiveOdds(m) ==
  [s \in {t \in Outcomes : ~final /\ Quoted(m, t) # {}} |-> Max(QuotedPrices(m, s))]
Implied(m, s) == Whole \div LiveOdds(m)[s]
ImpliedIfAny(m, s) == IF s \in DOMAIN LiveOdds(m) THEN Implied(m, s) ELSE 0
Total(m) == ImpliedIfAny(m, "home") + ImpliedIfAny(m, "draw") + ImpliedIfAny(m, "away")

(* _best_edge_from_live_odds: model less fair probability, times Whole * Total *)
EdgeWithVig(m, s) == Model[s] * Total(m) - Implied(m, s) * Total(m)
Edge(m, s) == Model[s] * Total(m) - Implied(m, s) * Whole
BestEdge(m) == Max({Edge(m, s) : s \in DOMAIN LiveOdds(m)})

(* event_best_prices: the row that is flagged. *)
IsBest(m, s) == CHOOSE b \in Quoted(m, s) : \A o \in Quoted(m, s) : board[m][s][o] <= board[m][s][b]

(* disagreements *)
Disagree(m, s) ==
  /\ ~final /\ Cardinality(Quoted(m, s)) > 1
  /\ 100 * (Max(QuotedPrices(m, s)) - Min(QuotedPrices(m, s))) >= Threshold * Min(QuotedPrices(m, s))
-----------------------------------------------------------------------------
(* The pages tell one story: the price that live odds rate best is that of   *)
(* the book flagged in the table and the upper end of a disagreement; who   *)
(* disagrees leaves a price that is not the best. And as probabilities of   *)
(* the model and of a whole market both add up to one, the best edge over   *)
(* such a market is never a loss.                                           *)
PricePagesAgree ==
  \A m \in Moneylines :
    /\ \A s \in DOMAIN LiveOdds(m) :
         /\ LiveOdds(m)[s] = board[m][s][IsBest(m, s)]
         /\ Disagree(m, s) =>
              /\ LiveOdds(m)[s] = Max(QuotedPrices(m, s))
              /\ Threshold > 0 => \E b \in Quoted(m, s) : board[m][s][b] < LiveOdds(m)[s]
    /\ DOMAIN LiveOdds(m) = Outcomes => BestEdge(m) >= 0

(* A best price is one that its book still offers. Not so when the book has  *)
(* withdrawn it, or has gone over to the market with a draw: the row stays. *)
BestIsOffered ==
  \A m \in Moneylines, s \in Outcomes :
    (~final /\ Quoted(m, s) # {}) =>
      LET b == IsBest(m, s)
      IN IF offer[b] = None THEN FALSE
         ELSE MarketOf(offer[b]) = m /\ offer[b][s] = board[m][s][b]
=============================================================================
