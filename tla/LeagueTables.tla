------------------------------ MODULE LeagueTables ------------------------------
(***************************************************************************)
(* What the read side computes, on each request and from scratch, of the   *)
(* finished games of a league and season (api/analytics.py,                *)
(* analytics/soccer_model.py): the table, a team's season, its form, its   *)
(* meetings with another team, its rating, and what a game's page says of  *)
(* the days before it. Games finish, and are corrected, in any order.      *)
(***************************************************************************)
EXTENDS Integers, FiniteSetsExt, Nullable

CONSTANTS
  Teams,                 \* numbered in the order of their names
  Games,                 \* numbered in the order of their ids
  Home, Away, Kickoff,   \* of each game
  Results,               \* scores a finished game may have, or none at all
  Expected(_),           \* home's expected result, by the difference of ratings
  K                      \* a win in units of the rating

ASSUME TablesAssumption ==
  /\ Teams \subseteq Nat /\ IsFiniteSet(Teams)
  /\ Games \subseteq Nat /\ IsFiniteSet(Games)
  /\ \A g \in Games :
       Home[g] \in Teams /\ Away[g] \in Teams \ {Home[g]} /\ Kickoff[g] \in Nat
  /\ Results \subseteq [home : Nat \cup {None}, away : Nat \cup {None}]
  /\ None \notin Results /\ None \notin 1 .. 3 /\ K \in Nat
  /\ \A g, h \in Games :   \* nobody plays two games at once
       g # h /\ Kickoff[g] = Kickoff[h] => {Home[g], Away[g]} \cap {Home[h], Away[h]} = {}

VARIABLE result   \* per game its score once it is finalized, or None

TablesInit == result = [g \in Games |-> None]

(* The walk finalizes a game, or corrects its score. *)
FinalizeGame(g) == \E r \in Results : result' = [result EXCEPT ![g] = r]
TablesNext == \E g \in Games : FinalizeGame(g)
TablesSpec == TablesInit /\ [][TablesNext]_result
-----------------------------------------------------------------------------
Finished == {g \in Games : result[g] # None}
OrZero(points) == IF points = None THEN 0 ELSE points

(* winner_code: 1, 2, 3, or None without a score. *)
WinnerCode(g) ==
  IF result[g].home = None \/ result[g].away = None THEN None
  ELSE IF result[g].home > result[g].away THEN 1
  ELSE IF result[g].home < result[g].away THEN 2 ELSE 3

HomeGames(t, G) == {g \in G : Home[g] = t}
AwayGames(t, G) == {g \in G : Away[g] = t}
Of(t, G) == HomeGames(t, G) \cup AwayGames(t, G)
Won(G, code) == Cardinality({g \in G : WinnerCode(g) = code})
HomeGoals(G) == SumFunction([g \in G |-> OrZero(result[g].home)])
AwayGoals(G) == SumFunction([g \in G |-> OrZero(result[g].away)])

(* _compute_standings: both teams of every game are counted as it comes. *)
StandingSwapped(t, G) ==
  [played |-> Cardinality(HomeGames(t, G)) + Cardinality(AwayGames(t, G)),
   wins |-> Won(HomeGames(t, G), 1) + Won(AwayGames(t, G), 2),
   draws |-> Won(HomeGames(t, G), 3) + Won(AwayGames(t, G), 3),
   losses |-> Won(HomeGames(t, G), 2) + Won(AwayGames(t, G), 1),
   goals_for |-> HomeGoals(HomeGames(t, G)) + HomeGoals(AwayGames(t, G)),
   goals_against |-> AwayGoals(HomeGames(t, G)) + AwayGoals(AwayGames(t, G))]
Standing(t, G) ==
  [played |-> Cardinality(HomeGames(t, G)) + Cardinality(AwayGames(t, G)),
   wins |-> Won(HomeGames(t, G), 1) + Won(AwayGames(t, G), 2),
   draws |-> Won(HomeGames(t, G), 3) + Won(AwayGames(t, G), 3),
   losses |-> Won(HomeGames(t, G), 2) + Won(AwayGames(t, G), 1),
   goals_for |-> HomeGoals(HomeGames(t, G)) + AwayGoals(AwayGames(t, G)),
   goals_against |-> AwayGoals(HomeGames(t, G)) + HomeGoals(AwayGames(t, G))]

TablePoints(row) == 3 * row.wins + row.draws
Difference(row) == row.goals_for - row.goals_against

(* The rank in the table: points, difference, goals, name. *)
Table(G) == {t \in Teams : Of(t, G) # {}}
Ahead(t, u, G) ==
  LET a == Standing(t, G)
      b == Standing(u, G)
  IN \/ TablePoints(a) > TablePoints(b)
     \/ TablePoints(a) = TablePoints(b) /\ Difference(a) > Difference(b)
     \/ TablePoints(a) = TablePoints(b) /\ Difference(a) = Difference(b)
          /\ a.goals_for > b.goals_for
     \/ TablePoints(a) = TablePoints(b) /\ Difference(a) = Difference(b)
          /\ a.goals_for = b.goals_for /\ t < u
TableRank(t, G) == 1 + Cardinality({u \in Table(G) : Ahead(u, t, G)})

(* _team_result_letter, and _result_letter_for of the model. *)
Letter(t, g) ==
  CASE WinnerCode(g) = 3 -> "D"
    [] WinnerCode(g) = 1 -> IF Home[g] = t THEN "W" ELSE "L"
    [] WinnerCode(g) = 2 -> IF Away[g] = t THEN "W" ELSE "L"
    [] OTHER -> "-"
Scored(t, g) == OrZero(IF Home[g] = t THEN result[g].home ELSE result[g].away)
Conceded(t, g) == OrZero(IF Home[g] = t THEN result[g].away ELSE result[g].home)
Letters(t, G, letter) == Cardinality({g \in G : Letter(t, g) = letter})

(* _team_season_stats, of games of the team. *)
SeasonStats(t, G) ==
  [played |-> Cardinality(G), wins |-> Letters(t, G, "W"), draws |-> Letters(t, G, "D"),
   losses |-> Letters(t, G, "L"),
   goals_for |-> SumFunction([g \in G |-> Scored(t, g)]),
   goals_against |-> SumFunction([g \in G |-> Conceded(t, g)])]

(* _team_home_away_split: the same by where the team played. *)
Split(t, G) ==
  [home |-> SeasonStats(t, HomeGames(t, G)), away |-> SeasonStats(t, G \ HomeGames(t, G))]

(* _team_scoring_profile, as sums over the games instead of averages. *)
Profile(t, G) ==
  [played |-> Cardinality(G),
   goals_for |-> SumFunction([g \in G |-> Scored(t, g)]),
   goals_against |-> SumFunction([g \in G |-> Conceded(t, g)]),
   scored |-> Cardinality({g \in G : Scored(t, g) > 0}),
   clean_sheets |-> Cardinality({g \in G : Conceded(t, g) = 0})]
-----------------------------------------------------------------------------
(* Going into a game: the games before it by kickoff and id; through it:    *)
(* these and the game itself.                                               *)
Earlier(g, h) == Kickoff[g] < Kickoff[h] \/ (Kickoff[g] = Kickoff[h] /\ g < h)
GoingIn(e) == {g \in Finished : Earlier(g, e)}
ThroughLater(e) == GoingIn(e)
Through(e) == GoingIn(e) \cup (Finished \cap {e})

PointsDelta(t, e) ==
  TablePoints(SeasonStats(t, Of(t, Through(e)))) - TablePoints(SeasonStats(t, Of(t, GoingIn(e))))
RankDelta(t, e) == TableRank(t, GoingIn(e)) - TableRank(t, Through(e))

(* _form_detail and compute_form_into_match: the last n of a team's games    *)
(* before the kickoff, those that fewer than n of them follow.              *)
Before(t, e) == {g \in Of(t, Finished) : Kickoff[g] < Kickoff[e]}
Form(t, e, n) ==
  {g \in Before(t, e) : Cardinality({h \in Before(t, e) : Kickoff[h] > Kickoff[g]}) < n}
FormPoints(t, g) ==
  CASE Letter(t, g) = "W" -> 3 [] Letter(t, g) = "D" -> 1 [] Letter(t, g) = "L" -> 0
    [] OTHER -> None

(* The meetings before a game, and their balance as seen by its home side.  *)
Meetings(e) ==
  {g \in Finished : /\ Kickoff[g] < Kickoff[e]
                   /\ {Home[g], Away[g]} = {Home[e], Away[e]}}
Balance(home, away, G) ==
  [played |-> Cardinality(G), draws |-> Won(G, 3),
   home |-> Cardinality({g \in G : (WinnerCode(g) = 1 /\ Home[g] = home)
                                \/ (WinnerCode(g) = 2 /\ Home[g] = away)}),
   away |-> Cardinality({g \in G : (WinnerCode(g) = 1 /\ Home[g] = away)
                                \/ (WinnerCode(g) = 2 /\ Home[g] = home)})]
-----------------------------------------------------------------------------
(* compute_elo_for_league: the ratings after all games in order, and of each *)
(* game those before it. An unknown winner counts as a draw.                *)
Actual(g) == CASE WinnerCode(g) = 1 -> K [] WinnerCode(g) = 2 -> 0 [] OTHER -> K \div 2
Rated(g, state) ==
  LET home == state.rating[Home[g]]
      away == state.rating[Away[g]]
      delta == Actual(g) - Expected(home - away)
  IN [rating |-> [state.rating EXCEPT ![Home[g]] = home + delta, ![Away[g]] = away - delta],
      before |-> [state.before EXCEPT ![g] = <<home, away>>]]
Unrated == [rating |-> [t \in Teams |-> 0], before |-> [g \in Games |-> None]]
Latest(G) == CHOOSE g \in G : \A h \in G \ {g} : Earlier(h, g)
Elo(G) == MapThenFoldSet(Rated, Unrated, LAMBDA g : g, Latest, G)

(* elo_snapshot_at *)
Snapshot(e) ==
  LET state == Elo(Finished)
  IN IF e \in Finished THEN state.before[e] ELSE <<state.rating[Home[e]], state.rating[Away[e]]>>

(* league_average_goals, as the sums and the number of games. *)
Averages(G) ==
  LET full == {g \in G : result[g].home # None /\ result[g].away # None}
  IN <<HomeGoals(full), AwayGoals(full), Cardinality(full)>>

(* event_probabilities: what goes into the estimate of a game. *)
Estimate(e) == [elo |-> Snapshot(e), base |-> Averages(Finished)]
-----------------------------------------------------------------------------
(* The table and the page of a team, which count the same games by different *)
(* code, agree in every column, whatever was finished and corrected when;   *)
(* nobody wins what nobody loses, in the table as in the ratings, and a game *)
(* is shown with the ratings of its time, whatever has come in since.       *)
PagesAgree ==
  \A t \in Table(Finished) :
    LET mine == Of(t, Finished)
        split == Split(t, mine)
    IN /\ Standing(t, Finished) = SeasonStats(t, mine)
       /\ \A c \in DOMAIN SeasonStats(t, mine) :
            split.home[c] + split.away[c] = SeasonStats(t, mine)[c]
       /\ \A c \in {"played", "goals_for", "goals_against"} :
            Profile(t, mine)[c] = Standing(t, Finished)[c]
ZeroSum ==
  /\ SumFunction([t \in Teams |-> Standing(t, Finished).wins - Standing(t, Finished).losses]) = 0
  /\ SumFunction([t \in Teams |-> Difference(Standing(t, Finished))]) = 0
  /\ SumFunction(Elo(Finished).rating) = 0
  /\ {TableRank(t, Finished) : t \in Table(Finished)} = 1..Cardinality(Table(Finished))
RatedBefore ==
  \A e \in Finished :
    LET before == Elo(GoingIn(e)).rating IN Snapshot(e) = <<before[Home[e]], before[Away[e]]>>
TablesAgree == PagesAgree /\ ZeroSum /\ RatedBefore

(* The page of a game continues that of the game before: what a team had    *)
(* after one is what it goes into the next with. Its delta is one result,   *)
(* who wins loses no place, the form of a team is of its last games and     *)
(* brings the points that its earlier ones leave open, and the balance of a *)
(* pairing is the same from both sides.                                     *)
Follows(t, e, f) ==
  /\ e \in Of(t, Finished) /\ f \in Of(t, Games) /\ Earlier(e, f)
  /\ ~\E g \in Of(t, Finished) : Earlier(e, g) /\ Earlier(g, f)
Chained ==
  \A t \in Teams : \A e, f \in Games : Follows(t, e, f) =>
    SeasonStats(t, Of(t, GoingIn(f))) = SeasonStats(t, Of(t, Through(e)))
OneResultApart ==
  \A e \in Finished :
    <<PointsDelta(Home[e], e), PointsDelta(Away[e], e)>> \in
      IF WinnerCode(e) = None THEN {<<0, 0>>} ELSE {<<3, 0>>, <<1, 1>>, <<0, 3>>}
FormAddsUp ==
  \A e \in Games : \A t \in {Home[e], Away[e]} \cap Table(GoingIn(e)) :
    LET all == Of(t, GoingIn(e))
        table == Standing(t, GoingIn(e))
    IN \A n \in 0 .. Cardinality(Games) :
         LET form == Form(t, e, n)
             older == all \ form
         IN /\ Cardinality(form) = IF n < table.played THEN n ELSE table.played
            /\ \A g \in form, h \in older : Earlier(h, g)
            /\ SumFunction([g \in form |-> OrZero(FormPoints(t, g))])
                 + TablePoints(SeasonStats(t, older)) = TablePoints(table)
Mirrored ==
  \A e \in Games :
    LET there == Balance(Home[e], Away[e], Meetings(e))
        back == Balance(Away[e], Home[e], Meetings(e))
    IN /\ there.home = back.away /\ there.away = back.home
       /\ there.home = Letters(Home[e], Meetings(e), "W")
       /\ there.away = Letters(Home[e], Meetings(e), "L")
WinnersRise ==
  \A e \in Finished : \A t \in {Home[e], Away[e]} \cap Table(GoingIn(e)) :
    Letter(t, e) = "W" => RankDelta(t, e) >= 0
HistoryAgrees == Chained /\ OneResultApart /\ WinnersRise /\ FormAddsUp /\ Mirrored

(* "What would the model have said at the time" (api/analytics.py:332): a   *)
(* later game, or its correction, leaves the estimate of an earlier one     *)
(* alone. It does not: the averages are those of all games.                 *)
NoHindsight ==
  [][\A e \in Finished :
       (\A g \in Games : ~Earlier(e, g) => result'[g] = result[g]) =>
         Estimate(e)' = Estimate(e)]_result
=============================================================================
