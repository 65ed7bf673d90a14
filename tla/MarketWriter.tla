----------------------------- MODULE MarketWriter -----------------------------
(***************************************************************************)
(* From the provider's prices of one event to its rows: translation into   *)
(* one odd per side (ingest/odds_api_translate.py), grouping into markets  *)
(* whose ids are made of what the group has in common (ingest/normalize.py) *)
(* and upserts that keep a history of prices (ingest/ingester.py).          *)
(* A line is a number, in the smallest unit that occurs, and the way it is  *)
(* written: 3 and 3.0 are one number and two texts, and Decimal keeps the   *)
(* text. Prices are compared only.                                         *)
(***************************************************************************)
EXTENDS Integers, Sequences, FiniteSets, Nullable

CONSTANTS
  Payloads,   \* sequences of the books' feeds, in the order of the response
  Forms,      \* ways to write a number
  Writers,    \* transactions that may write the event
  MaxWrites   \* bound on payloads written

(* A feed is what one book offers: a moneyline row, ladders of handicap and  *)
(* totals rows. Prices that are missing or not above 1.0 are None; a draw   *)
(* that is there makes a row three-way whatever its price. The canonical    *)
(* total is that of the event's sport, if it has one.                       *)
Lines == [number : Int, form : Forms]
IsLadder(rows, sides) ==
  /\ Len(rows) \in Nat /\ DOMAIN rows = 1..Len(rows)
  /\ \A n \in DOMAIN rows :
       DOMAIN rows[n] = {"hdp"} \cup sides /\ rows[n].hdp \in Lines \cup {None}
IsFeed(feed) ==
  /\ feed.ml # None =>
       /\ DOMAIN feed.ml = {"home", "away", "draw", "threeway"}
       /\ feed.ml.threeway \in BOOLEAN /\ (feed.ml.draw # None => feed.ml.threeway)
  /\ IsLadder(feed.handicap, {"home", "away"}) /\ IsLadder(feed.totals, {"over", "under"})
  /\ feed.canonical \in Int \cup {None}

ASSUME FeedAssumption ==
  /\ MaxWrites \in Nat /\ None \notin Int \cup Lines
  /\ \A p \in Payloads :
       /\ Len(p) \in Nat /\ DOMAIN p = 1..Len(p)
       /\ \A n \in DOMAIN p : IsFeed(p[n])

VARIABLES
  batch,    \* per writer the payload it is writing with the prices it has read
  markets,   \* ids of the market rows
  price,    \* selection id -> decimal_odds
  quote,    \* selection id -> prices of its rows of OddsQuote, and the last one
  alone,    \* no two transactions so far have had the event in hand at once
  whole,    \* no row so far lacked the price of a side
  writes

writerVars == <<batch, markets, price, quote, alone, whole, writes>>
-----------------------------------------------------------------------------
(* odds_api_translate.py: the odds of one row. An odd is at the place where *)
(* the dictionary of the payload gets it: book after book, home before away. *)
Abs(n) == IF n < 0 THEN -n ELSE n
Odd(at, bet, entity, side, line, price_) ==
  [at |-> at, bet |-> bet, entity |-> entity, side |-> side, line |-> line, price |-> price_]

Moneyline(row, at) ==
  LET bet == IF row.threeway THEN "ml3way" ELSE "ml"
  IN {Odd(at + 1, bet, "home", "home", None, row.home),
      Odd(at + 2, bet, "away", "away", None, row.away),
      Odd(at + 3, bet, "draw", "draw", None, row.draw)}

(* The first of the rows that are nearest to the wanted line, if there is   *)
(* one; rows without a line are never the main one.                         *)
WithLine(rows) == {n \in DOMAIN rows : rows[n].hdp # None}
Nearest(rows, wanted) ==
  {n \in WithLine(rows) : \A m \in WithLine(rows) :
     /\ Abs(rows[n].hdp.number - wanted) <= Abs(rows[m].hdp.number - wanted)
     /\ Abs(rows[n].hdp.number - wanted) = Abs(rows[m].hdp.number - wanted) => n <= m}

(* Where the sport has no canonical total: the median of the sorted rows.   *)
Below(rows, n) ==
  {m \in WithLine(rows) : \/ rows[m].hdp.number < rows[n].hdp.number
                          \/ rows[m].hdp.number = rows[n].hdp.number /\ m < n}
Median(rows) ==
  {n \in WithLine(rows) : Cardinality(Below(rows, n)) = Cardinality(WithLine(rows)) \div 2}
MainTotal(feed) ==
  IF feed.canonical = None THEN Median(feed.totals) ELSE Nearest(feed.totals, feed.canonical)

Opposite(line) == [line EXCEPT !.number = -@]
Handicap(row, at) ==
  {Odd(at + 4, "sp", "home", "home", row.hdp, row.home),
   Odd(at + 5, "sp", "away", "away", Opposite(row.hdp), row.away)}

TotalOdds(row, at) ==
  {Odd(at + 6, "ou", "all", "over", row.hdp, row.over),
   Odd(at + 7, "ou", "all", "under", row.hdp, row.under)}

BookOdds(feed, at) ==
  {o \in (IF feed.ml = None THEN {} ELSE Moneyline(feed.ml, at))
         \cup (UNION {Handicap(feed.handicap[n], at) : n \in Nearest(feed.handicap, 0)})
         \cup (UNION {TotalOdds(feed.totals[n], at) : n \in MainTotal(feed)}) :
     o.price # None}

(* _translate_odds: the first book sets the price and the line of an odd.   *)
OddId(o) == <<o.bet, o.entity, o.side>>
AllOdds(payload) == UNION {BookOdds(payload[n], 7 * n) : n \in DOMAIN payload}
Translated(payload) ==
  {o \in AllOdds(payload) : \A q \in AllOdds(payload) : OddId(q) = OddId(o) => o.at <= q.at}

(* normalize.py: _group_key *)
KeyWithLine(o) == IF o.bet \in {"ou", "sp"} THEN <<o.bet, o.line>> ELSE <<o.bet, None>>
Key(o) == IF o.bet = "ou" THEN <<"ou", o.line>> ELSE <<o.bet, None>>
Members(odds, key) == {o \in odds : Key(o) = key}
Lead(members) == CHOOSE o \in members : \A q \in members : o.at <= q.at

(* _canonical_line: that of the home side, else the opposite of the other's *)
CanonicalLine(members) ==
  LET home == {o \in members : o.side = "home"}
  IN CASE Lead(members).bet = "ou" -> Lead(members).line
       [] Lead(members).bet = "sp" ->
            IF home # {} THEN Lead(home).line ELSE Opposite(Lead(members).line)
       [] OTHER -> None

(* build_market_id: the entity is that of the member that happens to be first *)
MarketIdNoLine(members) ==
  [bet |-> Lead(members).bet, entity |-> Lead(members).entity, line |-> None]
MarketId(members) ==
  [bet |-> Lead(members).bet, entity |-> Lead(members).entity,
   line |-> CanonicalLine(members)]

SelectionId(id, o) == [market |-> id, entity |-> o.entity, side |-> o.side]

(* _market_specs, as one set of selections with their prices. *)
GroupKeys(odds) == {Key(o) : o \in odds}
Specs(odds) ==
  {[id |-> MarketId(Members(odds, k)), members |-> Members(odds, k)] : k \in GroupKeys(odds)}
Selections(specs) ==
  UNION {{[id |-> SelectionId(s.id, o), price |-> o.price] : o \in s.members} : s \in specs}

Complete(payload) ==
  \A n \in DOMAIN payload :
    LET feed == payload[n] IN
    /\ feed.ml # None =>
         feed.ml.home # None /\ feed.ml.away # None /\ (feed.ml.threeway => feed.ml.draw # None)
    /\ \A m \in DOMAIN feed.handicap : feed.handicap[m].home # None /\ feed.handicap[m].away # None
    /\ \A m \in DOMAIN feed.totals : feed.totals[m].over # None /\ feed.totals[m].under # None
-----------------------------------------------------------------------------
WriterInit ==
  /\ batch = [w \in Writers |-> None] /\ markets = {} /\ price = <<>> /\ quote = <<>>
  /\ alone = TRUE /\ whole = TRUE /\ writes = 0

Known(prices, id) == IF id \in DOMAIN prices THEN prices[id] ELSE None

(* write_markets: the prices before, of the selections it is about to write. *)
Prefetch(w, payload) ==
  LET specs == Specs(Translated(payload)) IN
  /\ batch[w] = None /\ specs # {} /\ writes < MaxWrites
  /\ batch' = [batch EXCEPT ![w] =
       [specs |-> specs, prior |-> price, whole |-> Complete(payload)]]
  /\ alone' = (alone /\ \A v \in Writers : batch[v] = None)
  /\ writes' = writes + 1
  /\ UNCHANGED <<markets, price, quote, whole>>

Overlaid(f, g) == [id \in DOMAIN f \cup DOMAIN g |-> IF id \in DOMAIN g THEN g[id] ELSE f[id]]
NewPrices(specs) ==
  [id \in {s.id : s \in Selections(specs)} |->
     (CHOOSE s \in Selections(specs) : s.id = id).price]

(* A quote only of the selections whose price is another than the one read. *)
MovedAny(now, prior) == [id \in DOMAIN now \ DOMAIN prior |-> now[id]]
Moved(now, prior) == [id \in {i \in DOMAIN now : Known(prior, i) # now[i]} |-> now[id]]

WithQuotes(now) ==
  [id \in DOMAIN quote \cup DOMAIN now |->
     IF id \notin DOMAIN now THEN quote[id]
     ELSE [last |-> now[id],
           ever |-> {now[id]} \cup (IF id \in DOMAIN quote THEN quote[id].ever ELSE {})]]

Write(w) ==
  /\ batch[w] # None
  /\ LET now == NewPrices(batch[w].specs) IN
       /\ markets' = markets \cup {s.id : s \in batch[w].specs}
       /\ price' = Overlaid(price, now)
       /\ quote' = WithQuotes(Moved(now, batch[w].prior))
  /\ whole' = (whole /\ batch[w].whole)
  /\ batch' = [batch EXCEPT ![w] = None]
  /\ UNCHANGED <<alone, writes>>

(* The savepoint of the event rolls back. *)
Abandon(w) ==
  /\ batch[w] # None /\ batch' = [batch EXCEPT ![w] = None]
  /\ UNCHANGED <<markets, price, quote, alone, whole, writes>>

WriterNext ==
  \E w \in Writers : Write(w) \/ Abandon(w) \/ \E p \in Payloads : Prefetch(w, p)

WriterSpec == WriterInit /\ [][WriterNext]_writerVars
-----------------------------------------------------------------------------
(* No upsert meets a row twice: PostgreSQL refuses the statement, and the   *)
(* event with it. Whatever books and sides are missing, markets of one      *)
(* payload have ids of their own, and so have their selections.             *)
IdsApart ==
  \A w \in Writers : batch[w] # None =>
    \A s, t \in Selections(batch[w].specs) : s.id = t.id => s = t
IdsApartMarkets ==
  \A w \in Writers : batch[w] # None =>
    \A s, t \in batch[w].specs : s.id = t.id => s = t
StatementsAccepted == IdsApart /\ IdsApartMarkets

(* No price is shown that the history does not have, whatever transactions   *)
(* overlap and roll back; and as long as they follow one another, it ends    *)
(* with the price that is shown.                                            *)
HistoryEndsWithPrice ==
  \A id \in DOMAIN price :
    /\ id \in DOMAIN quote /\ price[id] \in quote[id].ever
    /\ alone => quote[id].last = price[id]

(* As long as every row has prices for all its sides, a bet at a line, as it *)
(* is written, is one market with all of its sides, in whatever order the    *)
(* books come.                                                              *)
SidesOf(m) ==
  {<<s.entity, s.side>> : s \in {i \in DOMAIN price : i.market = m}}
Offered(m) ==
  CASE m.bet = "ou" -> {<<"all", "over">>, <<"all", "under">>}
    [] m.bet = "ml3way" -> {<<"home", "home">>, <<"away", "away">>, <<"draw", "draw">>}
    [] OTHER -> {<<"home", "home">>, <<"away", "away">>}
WholeMarkets ==
  whole =>
    /\ \A m \in markets : SidesOf(m) = Offered(m)
    /\ \A m, n \in markets : m.bet = n.bet /\ m.line = n.line => m = n
=============================================================================
