-------------------------- MODULE TransactionProofs ---------------------------
(***************************************************************************)
(* What is proved of rows that overlapping transactions write: the ids that *)
(* MarketWriter makes of any books' feeds, and the history it keeps;        *)
(* TenantKeys for any users, keys and number of callers; ReenqueueBatch for *)
(* any selection of any events and deliveries.                              *)
(***************************************************************************)
EXTENDS MarketWriter, TenantKeys, ReenqueueBatch, FiniteSetTheorems,
        WellFoundedInduction, TLAPS

(* A set of numbers has a least one.                                        *)
LEMMA LeastNumber ==
  ASSUME NEW T \in SUBSET Nat, T # {}
  PROVE  \E n \in T : \A m \in T : n <= m
<1> DEFINE R == OpToRel(<, Nat)
<1>1. \E n \in T : \A m \in T : <<m, n>> \notin R
  <2> HIDE DEF R
  <2>1. IsWellFoundedOn(R, Nat)
    BY NatLessThanWellFounded DEF R
  <2> QED BY <2>1, WFMin
<1>2. ASSUME NEW n \in Nat, NEW m \in Nat, m < n
      PROVE  <<m, n>> \in R
  BY <1>2 DEF OpToRel
<1> HIDE DEF R
<1>3. PICK n \in T : \A m \in T : <<m, n>> \notin R
  BY <1>1
<1>4. ASSUME NEW m \in T
      PROVE  n <= m
  <2>1. n \in Nat /\ m \in Nat /\ ~(m < n)
    BY <1>2, <1>3
  <2> QED BY <2>1
<1> QED BY <1>4
-----------------------------------------------------------------------------
(* The odds of a payload                                                    *)

LEMMA LadderLines ==
  ASSUME NEW rows, NEW sides, IsLadder(rows, sides)
  PROVE  /\ WithLine(rows) \subseteq Nat /\ IsFiniteSet(WithLine(rows))
         /\ \A n \in WithLine(rows) : rows[n].hdp \in Lines /\ rows[n].hdp.number \in Int
<1>1. Len(rows) \in Nat /\ DOMAIN rows = 1..Len(rows)
  BY DEF IsLadder
<1>2. IsFiniteSet(DOMAIN rows)
  BY <1>1, FS_Interval
<1>3. WithLine(rows) \subseteq DOMAIN rows
  BY DEF WithLine
<1>4. IsFiniteSet(WithLine(rows))
  BY <1>2, <1>3, FS_Subset
<1> QED BY <1>1, <1>3, <1>4 DEF IsLadder, WithLine, Lines

LEMMA OneNearest ==
  ASSUME NEW rows, NEW sides, IsLadder(rows, sides), NEW wanted,
         NEW n \in Nearest(rows, wanted), NEW m \in Nearest(rows, wanted), wanted \in Int
  PROVE  n = m
<1>1. n \in Nat /\ m \in Nat /\ rows[n].hdp.number \in Int /\ rows[m].hdp.number \in Int
  BY LadderLines DEF Nearest
<1>2. Abs(rows[n].hdp.number - wanted) \in Int /\ Abs(rows[m].hdp.number - wanted) \in Int
  BY <1>1 DEF Abs
<1>3. /\ Abs(rows[n].hdp.number - wanted) <= Abs(rows[m].hdp.number - wanted)
      /\ Abs(rows[m].hdp.number - wanted) <= Abs(rows[n].hdp.number - wanted)
      /\ Abs(rows[n].hdp.number - wanted) = Abs(rows[m].hdp.number - wanted) => n <= m /\ m <= n
  BY DEF Nearest
<1> QED BY <1>1, <1>2, <1>3

(* Of two rows of a ladder one is below the other, with all that is below.  *)
LEMMA OneMedian ==
  ASSUME NEW rows, NEW sides, IsLadder(rows, sides),
         NEW n \in Median(rows), NEW m \in Median(rows)
  PROVE  n = m
<1>1. /\ n \in WithLine(rows) /\ m \in WithLine(rows)
      /\ Cardinality(Below(rows, n)) = Cardinality(Below(rows, m))
  BY DEF Median
<1>2. ASSUME NEW i \in WithLine(rows), NEW j \in WithLine(rows), i \in Below(rows, j)
      PROVE  Cardinality(Below(rows, i)) # Cardinality(Below(rows, j))
  <2>1. \A k \in WithLine(rows) : k \in Nat /\ rows[k].hdp.number \in Int
    BY LadderLines
  <2>2. Below(rows, i) \subseteq Below(rows, j) /\ i \notin Below(rows, i)
    BY <1>2, <2>1 DEF Below
  <2>3. IsFiniteSet(Below(rows, j))
    <3>1. Below(rows, j) \subseteq WithLine(rows)
      BY DEF Below
    <3> QED BY <3>1, LadderLines, FS_Subset
  <2>4. Below(rows, i) # Below(rows, j)
    BY <1>2, <2>2
  <2> DEFINE S == Below(rows, j)  T == Below(rows, i)
  <2>5. T \in SUBSET S /\ IsFiniteSet(S) /\ S # T
    BY <2>2, <2>3, <2>4
  <2> HIDE DEF S, T
  <2>6. Cardinality(S) # Cardinality(T)
    BY <2>5, FS_Subset
  <2> QED BY <2>6 DEF S, T
<1>3. n \in Below(rows, m) \/ m \in Below(rows, n) \/ n = m
  <2>1. /\ n \in Nat /\ m \in Nat
        /\ rows[n].hdp.number \in Int /\ rows[m].hdp.number \in Int
    BY <1>1, LadderLines
  <2> QED BY <1>1, <2>1 DEF Below
<1> QED BY <1>1, <1>2, <1>3

LEMMA OneMainTotal ==
  ASSUME NEW feed, IsFeed(feed), NEW n \in MainTotal(feed)
  PROVE  /\ n \in WithLine(feed.totals)
         /\ \A m \in MainTotal(feed) : n = m
<1>1. IsLadder(feed.totals, {"over", "under"}) /\ feed.canonical \in Int \cup {None}
  BY DEF IsFeed
<1>2. CASE feed.canonical = None
  BY <1>1, <1>2, OneMedian DEF MainTotal, Median
<1>3. CASE feed.canonical # None
  BY <1>1, <1>3, OneNearest DEF MainTotal, Nearest
<1> QED BY <1>2, <1>3

(* What an odd may be of.                                                   *)
Shape(o) ==
  /\ o.price # None /\ o.at \in Nat
  /\ \/ /\ o.bet \in {"ml", "ml3way"} /\ o.line = None
        /\ o.entity = o.side /\ o.side \in {"home", "away", "draw"}
        /\ o.bet = "ml" => o.side # "draw"
     \/ o.bet = "sp" /\ o.line \in Lines /\ o.entity = o.side /\ o.side \in {"home", "away"}
     \/ o.bet = "ou" /\ o.line \in Lines /\ o.entity = "all" /\ o.side \in {"over", "under"}

LEMMA FromRows ==
  ASSUME NEW feed, NEW at, NEW o \in BookOdds(feed, at)
  PROVE  /\ o.price # None
         /\ \/ feed.ml # None /\ o \in Moneyline(feed.ml, at)
            \/ \E n \in Nearest(feed.handicap, 0) : o \in Handicap(feed.handicap[n], at)
            \/ \E n \in MainTotal(feed) : o \in TotalOdds(feed.totals[n], at)
BY DEF BookOdds

LEMMA BookShape ==
  ASSUME NEW feed, IsFeed(feed), NEW at \in Nat, NEW o \in BookOdds(feed, at)
  PROVE  Shape(o) /\ at < o.at /\ o.at <= at + 7
<1>1. CASE feed.ml # None /\ o \in Moneyline(feed.ml, at)
  BY <1>1, FromRows DEF IsFeed, Moneyline, Odd, Shape
<1>2. CASE \E n \in Nearest(feed.handicap, 0) : o \in Handicap(feed.handicap[n], at)
  <2>1. PICK n \in Nearest(feed.handicap, 0) : o \in Handicap(feed.handicap[n], at)
    BY <1>2
  <2>2. feed.handicap[n].hdp \in Lines
    BY LadderLines DEF IsFeed, Nearest
  <2>3. Opposite(feed.handicap[n].hdp) \in Lines
    BY <2>2 DEF Opposite, Lines
  <2> QED BY <2>1, <2>2, <2>3, FromRows DEF Handicap, Odd, Shape
<1>3. CASE \E n \in MainTotal(feed) : o \in TotalOdds(feed.totals[n], at)
  <2>1. PICK n \in MainTotal(feed) : o \in TotalOdds(feed.totals[n], at)
    BY <1>3
  <2>2. feed.totals[n].hdp \in Lines
    BY OneMainTotal, LadderLines DEF IsFeed
  <2> QED BY <2>1, <2>2, FromRows DEF TotalOdds, Odd, Shape
<1> QED BY <1>1, <1>2, <1>3, FromRows

(* A book has one odd at a place, and one by a name.                        *)
LEMMA BookOddsApart ==
  ASSUME NEW feed, IsFeed(feed), NEW at \in Nat,
         NEW o \in BookOdds(feed, at), NEW q \in BookOdds(feed, at)
  PROVE  /\ o.at = q.at \/ OddId(o) = OddId(q) => o = q
         /\ o.bet = "ou" /\ q.bet = "ou" => o.line = q.line
         /\ o.bet = q.bet /\ o.side = "home" => o.at <= q.at
         /\ o.bet \in {"ml", "ml3way"} /\ q.bet \in {"ml", "ml3way"} => o.bet = q.bet
<1>1. CASE feed.ml # None /\ o \in Moneyline(feed.ml, at)
  <2>1. CASE feed.ml # None /\ q \in Moneyline(feed.ml, at)
    BY <1>1, <2>1 DEF Moneyline, Odd, OddId
  <2>2. CASE \E n \in Nearest(feed.handicap, 0) : q \in Handicap(feed.handicap[n], at)
    BY <1>1, <2>2 DEF Moneyline, Handicap, Odd, OddId
  <2>3. CASE \E n \in MainTotal(feed) : q \in TotalOdds(feed.totals[n], at)
    BY <1>1, <2>3 DEF Moneyline, TotalOdds, Odd, OddId
  <2> QED BY <2>1, <2>2, <2>3, FromRows
<1>2. CASE \E n \in Nearest(feed.handicap, 0) : o \in Handicap(feed.handicap[n], at)
  <2>1. CASE feed.ml # None /\ q \in Moneyline(feed.ml, at)
    BY <1>2, <2>1 DEF Moneyline, Handicap, Odd, OddId
  <2>2. CASE \E n \in Nearest(feed.handicap, 0) : q \in Handicap(feed.handicap[n], at)
    <3>1. PICK n \in Nearest(feed.handicap, 0) : o \in Handicap(feed.handicap[n], at)
      BY <1>2
    <3>2. q \in Handicap(feed.handicap[n], at)
      BY <2>2, OneNearest DEF IsFeed
    <3> QED BY <3>1, <3>2 DEF Handicap, Odd, OddId
  <2>3. CASE \E n \in MainTotal(feed) : q \in TotalOdds(feed.totals[n], at)
    BY <1>2, <2>3 DEF Handicap, TotalOdds, Odd, OddId
  <2> QED BY <2>1, <2>2, <2>3, FromRows
<1>3. CASE \E n \in MainTotal(feed) : o \in TotalOdds(feed.totals[n], at)
  <2>1. CASE feed.ml # None /\ q \in Moneyline(feed.ml, at)
    BY <1>3, <2>1 DEF Moneyline, TotalOdds, Odd, OddId
  <2>2. CASE \E n \in Nearest(feed.handicap, 0) : q \in Handicap(feed.handicap[n], at)
    BY <1>3, <2>2 DEF TotalOdds, Handicap, Odd, OddId
  <2>3. CASE \E n \in MainTotal(feed) : q \in TotalOdds(feed.totals[n], at)
    <3>1. PICK n \in MainTotal(feed) : o \in TotalOdds(feed.totals[n], at)
      BY <1>3
    <3>2. q \in TotalOdds(feed.totals[n], at)
      BY <2>3, OneMainTotal
    <3> QED BY <3>1, <3>2 DEF TotalOdds, Odd, OddId
  <2> QED BY <2>1, <2>2, <2>3, FromRows
<1> QED BY <1>1, <1>2, <1>3, FromRows
-----------------------------------------------------------------------------
(* The dictionary of a payload                                              *)

LEMMA OfABook ==
  ASSUME NEW p \in Payloads, NEW o \in AllOdds(p)
  PROVE  \E n \in DOMAIN p :
           n \in Nat /\ IsFeed(p[n]) /\ o \in BookOdds(p[n], 7 * n) /\ 7 * n < o.at /\ o.at <= 7 * n + 7
<1>1. PICK n \in DOMAIN p : o \in BookOdds(p[n], 7 * n)
  BY DEF AllOdds
<1>2. n \in Nat /\ IsFeed(p[n])
  BY FeedAssumption
<1>3. 7 * n \in Nat
  BY <1>2
<1> QED BY <1>1, <1>2, <1>3, BookShape

LEMMA AllShaped ==
  ASSUME NEW p \in Payloads, NEW o \in AllOdds(p)
  PROVE  Shape(o)
<1>1. PICK n \in DOMAIN p : n \in Nat /\ IsFeed(p[n]) /\ o \in BookOdds(p[n], 7 * n)
  BY OfABook
<1>2. 7 * n \in Nat
  BY <1>1
<1> QED BY <1>1, <1>2, BookShape

LEMMA OnePerPlace ==
  ASSUME NEW p \in Payloads, NEW o \in AllOdds(p), NEW q \in AllOdds(p), o.at = q.at
  PROVE  o = q
<1>1. PICK n \in DOMAIN p :
        n \in Nat /\ IsFeed(p[n]) /\ o \in BookOdds(p[n], 7 * n) /\ 7 * n < o.at /\ o.at <= 7 * n + 7
  BY OfABook
<1>2. PICK m \in DOMAIN p :
        m \in Nat /\ IsFeed(p[m]) /\ q \in BookOdds(p[m], 7 * m) /\ 7 * m < q.at /\ q.at <= 7 * m + 7
  BY OfABook
<1>3. o.at \in Nat
  BY AllShaped DEF Shape
<1>4. n = m
  BY <1>1, <1>2, <1>3
<1>5. 7 * n \in Nat
  BY <1>1
<1> QED BY <1>1, <1>2, <1>4, <1>5, BookOddsApart

(* The dictionary has one odd by a name, and one at a place.                *)
LEMMA TranslatedApart ==
  ASSUME NEW p \in Payloads, NEW o \in Translated(p), NEW q \in Translated(p)
  PROVE  Shape(o) /\ (OddId(o) = OddId(q) \/ o.at = q.at => o = q)
<1>1. o \in AllOdds(p) /\ q \in AllOdds(p) /\ (OddId(o) = OddId(q) => o.at <= q.at /\ q.at <= o.at)
  BY DEF Translated
<1>2. Shape(o) /\ Shape(q)
  BY <1>1, AllShaped
<1>3. o.at \in Nat /\ q.at \in Nat
  BY <1>2 DEF Shape
<1>4. OddId(o) = OddId(q) => o.at = q.at
  BY <1>1, <1>3
<1> QED BY <1>1, <1>2, <1>4, OnePerPlace

(* Whatever has a name in a book's feed has it in the dictionary, from the  *)
(* same book or an earlier one.                                             *)
LEMMA FirstOfName ==
  ASSUME NEW p \in Payloads, NEW o \in AllOdds(p)
  PROVE  \E q \in Translated(p) : OddId(q) = OddId(o) /\ q.at <= o.at
<1> DEFINE Named == {q \in AllOdds(p) : OddId(q) = OddId(o)}
           Places == {q.at : q \in Named}
<1>1. Places \subseteq Nat /\ Places # {}
  BY AllShaped DEF Shape
<1>2. PICK n \in Places : \A m \in Places : n <= m
  BY <1>1, LeastNumber
<1>3. PICK q \in Named : q.at = n
  BY <1>2
<1>4. \A r \in Named : q.at <= r.at
  BY <1>2, <1>3
<1>5. q \in Translated(p)
  BY <1>4 DEF Translated
<1> QED BY <1>4, <1>5

LEMMA LeadLeads ==
  ASSUME NEW p \in Payloads, NEW M \in SUBSET Translated(p), M # {}
  PROVE  Lead(M) \in M /\ \A q \in M : Lead(M).at <= q.at
<1> DEFINE Places == {q.at : q \in M}
<1>1. Places \subseteq Nat /\ Places # {}
  BY TranslatedApart DEF Shape
<1>2. PICK n \in Places : \A m \in Places : n <= m
  BY <1>1, LeastNumber
<1>3. \E o \in M : \A q \in M : o.at <= q.at
  BY <1>2
<1> QED BY <1>3 DEF Lead

(* The id of a group tells its key.                                         *)
LEMMA IdTellsKey ==
  ASSUME NEW p \in Payloads, NEW k \in GroupKeys(Translated(p))
  PROVE  LET M == Members(Translated(p), k)
         IN /\ M # {} /\ Lead(M) \in M /\ Key(Lead(M)) = k
            /\ k = IF MarketId(M).bet = "ou" THEN <<"ou", MarketId(M).line>>
                   ELSE <<MarketId(M).bet, None>>
<1> DEFINE M == Members(Translated(p), k)
           L == Lead(M)
<1>1. M \subseteq Translated(p) /\ M # {} /\ \A o \in M : Key(o) = k
  BY DEF Members, GroupKeys
<1> HIDE DEF M
<1>2. L \in M /\ Key(L) = k
  BY <1>1, LeadLeads
<1>3. MarketId(M).bet = L.bet /\ (L.bet = "ou" => MarketId(M).line = L.line)
  BY DEF MarketId, CanonicalLine
<1> HIDE DEF L
<1>4. k = IF MarketId(M).bet = "ou" THEN <<"ou", MarketId(M).line>> ELSE <<MarketId(M).bet, None>>
  BY <1>2, <1>3 DEF Key
<1> QED BY <1>1, <1>2, <1>4 DEF M, L
-----------------------------------------------------------------------------
(* The ids of a payload                                                     *)

LEMMA MarketsApart ==
  ASSUME NEW p \in Payloads, NEW s \in Specs(Translated(p)), NEW t \in Specs(Translated(p)),
         s.id = t.id
  PROVE  s = t
<1>1. PICK k \in GroupKeys(Translated(p)) :
        s = [id |-> MarketId(Members(Translated(p), k)), members |-> Members(Translated(p), k)]
  BY DEF Specs
<1>2. PICK l \in GroupKeys(Translated(p)) :
        t = [id |-> MarketId(Members(Translated(p), l)), members |-> Members(Translated(p), l)]
  BY DEF Specs
<1>3. MarketId(Members(Translated(p), k)) = MarketId(Members(Translated(p), l))
  BY <1>1, <1>2
<1>4. k = l
  BY <1>3, IdTellsKey
<1> QED BY <1>1, <1>2, <1>4

LEMMA OfASpec ==
  ASSUME NEW p \in Payloads, NEW s \in Selections(Specs(Translated(p)))
  PROVE  \E c \in Specs(Translated(p)), o \in Translated(p), k \in GroupKeys(Translated(p)) :
           /\ s.id = SelectionId(c.id, o) /\ s.price = o.price
           /\ s = [id |-> s.id, price |-> s.price]
           /\ c.id = MarketId(Members(Translated(p), k)) /\ Key(o) = k
<1>1. PICK c \in Specs(Translated(p)) :
        \E o \in c.members : s = [id |-> SelectionId(c.id, o), price |-> o.price]
  BY DEF Selections
<1>2. PICK o \in c.members : s = [id |-> SelectionId(c.id, o), price |-> o.price]
  BY <1>1
<1>3. PICK k \in GroupKeys(Translated(p)) :
        c = [id |-> MarketId(Members(Translated(p), k)), members |-> Members(Translated(p), k)]
  BY DEF Specs
<1>4. o \in Translated(p) /\ Key(o) = k
  BY <1>2, <1>3 DEF Members
<1> QED BY <1>2, <1>3, <1>4

LEMMA SelectionsApart ==
  ASSUME NEW p \in Payloads, NEW s \in Selections(Specs(Translated(p))),
         NEW t \in Selections(Specs(Translated(p)))
  PROVE  s.price # None /\ (s.id = t.id => s = t)
<1>1. PICK c \in Specs(Translated(p)), o \in Translated(p), k \in GroupKeys(Translated(p)) :
        /\ s.id = SelectionId(c.id, o) /\ s.price = o.price
        /\ s = [id |-> s.id, price |-> s.price]
        /\ c.id = MarketId(Members(Translated(p), k)) /\ Key(o) = k
  BY OfASpec
<1>2. PICK d \in Specs(Translated(p)), q \in Translated(p), l \in GroupKeys(Translated(p)) :
        /\ t.id = SelectionId(d.id, q) /\ t.price = q.price
        /\ t = [id |-> t.id, price |-> t.price]
        /\ d.id = MarketId(Members(Translated(p), l)) /\ Key(q) = l
  BY OfASpec
<1>3. o.price # None
  BY TranslatedApart DEF Shape
<1>4. ASSUME s.id = t.id
      PROVE  s = t
  <2>1. c.id = d.id /\ o.entity = q.entity /\ o.side = q.side
    BY <1>1, <1>2, <1>4 DEF SelectionId
  <2>2. k = l
    <3>1. MarketId(Members(Translated(p), k)) = MarketId(Members(Translated(p), l))
      BY <1>1, <1>2, <2>1
    <3> QED BY <3>1, IdTellsKey
  <2>3. o.bet = q.bet
    BY <1>1, <1>2, <2>2 DEF Key
  <2>4. o = q
    BY <2>1, <2>3, TranslatedApart DEF OddId
  <2> QED BY <1>1, <1>2, <1>4, <2>4
<1> QED BY <1>1, <1>3, <1>4

(* What a transaction has in hand is what normalize.py made of a payload.   *)
BatchesOfPayloads ==
  /\ DOMAIN batch = Writers /\ batch = [w \in Writers |-> batch[w]]
  /\ \A w \in Writers : batch[w] # None =>
       \E p \in Payloads : batch[w].specs = Specs(Translated(p)) /\ batch[w].whole = Complete(p)

LEMMA BatchesKept == WriterSpec => []BatchesOfPayloads
<1>1. WriterInit => BatchesOfPayloads
  BY DEF WriterInit, BatchesOfPayloads
<1>2. ASSUME BatchesOfPayloads, [WriterNext]_writerVars
      PROVE  BatchesOfPayloads'
  <2>1. ASSUME NEW w \in Writers, Write(w) \/ Abandon(w)
        PROVE  BatchesOfPayloads'
    <3>1. batch' = [batch EXCEPT ![w] = None]
      BY <2>1 DEF Write, Abandon
    <3> QED BY <1>2, <3>1 DEF BatchesOfPayloads
  <2>2. ASSUME NEW w \in Writers, NEW p \in Payloads, Prefetch(w, p)
        PROVE  BatchesOfPayloads'
    <3> DEFINE b == [specs |-> Specs(Translated(p)), prior |-> price, whole |-> Complete(p)]
    <3>1. batch' = [batch EXCEPT ![w] = b]
      BY <2>2 DEF Prefetch
    <3>2. b.specs = Specs(Translated(p)) /\ b.whole = Complete(p)
      OBVIOUS
    <3> HIDE DEF b
    <3> QED BY <1>2, <3>1, <3>2 DEF BatchesOfPayloads
  <2>3. CASE UNCHANGED writerVars
    BY <1>2, <2>3 DEF BatchesOfPayloads, writerVars
  <2> QED BY <1>2, <2>1, <2>2, <2>3 DEF WriterNext
<1> QED BY <1>1, <1>2, PTL DEF WriterSpec

(* No statement of write_markets meets a row twice (ingest/ingester.py:138), *)
(* whatever books, rows, sides and lines the feeds have, and in whatever    *)
(* order: the markets that normalize.py makes of a payload have ids of their *)
(* own, and so have their selections.                                       *)
THEOREM NoRowTwice == WriterSpec => []StatementsAccepted
<1>1. BatchesOfPayloads => StatementsAccepted
  BY MarketsApart, SelectionsApart DEF BatchesOfPayloads, StatementsAccepted, IdsApart, IdsApartMarkets
<1> QED BY <1>1, BatchesKept, PTL
-----------------------------------------------------------------------------
(* The history of prices                                                    *)

(* Every price that is shown or was read has its row.                       *)
Recorded(prices) ==
  \A id \in DOMAIN prices : id \in DOMAIN quote /\ prices[id] \in quote[id].ever
PricesRecorded ==
  /\ Recorded(price)
  /\ \A w \in Writers : batch[w] # None => Recorded(batch[w].prior)
PriorIsCurrent ==
  alone =>
    /\ \A v, w \in Writers : batch[v] # None /\ batch[w] # None => v = w
    /\ \A w \in Writers : batch[w] # None => batch[w].prior = price
    /\ \A id \in DOMAIN price : quote[id].last = price[id]

LEMMA NewPricesPriced ==
  ASSUME NEW p \in Payloads, NEW id \in DOMAIN NewPrices(Specs(Translated(p)))
  PROVE  NewPrices(Specs(Translated(p)))[id] # None
<1> DEFINE S == Selections(Specs(Translated(p)))
<1>1. \E s \in S : s.id = id
  BY DEF NewPrices
<1>2. (CHOOSE s \in S : s.id = id) \in S
  BY <1>1
<1> QED BY <1>2, SelectionsApart DEF NewPrices

(* What a transaction that commits leaves in the history.                   *)
LEMMA QuotesFollow ==
  ASSUME NEW prior, NEW now, \A id \in DOMAIN now : now[id] # None,
         Recorded(price), Recorded(prior),
         quote' = WithQuotes(Moved(now, prior)), price' = Overlaid(price, now)
  PROVE  /\ Recorded(price)'
         /\ \A prices : Recorded(prices) =>
              \A id \in DOMAIN prices : id \in DOMAIN quote' /\ prices[id] \in quote'[id].ever
         /\ prior = price /\ (\A id \in DOMAIN price : quote[id].last = price[id]) =>
              \A id \in DOMAIN price' : quote'[id].last = price'[id]
<1> DEFINE moved == Moved(now, prior)
<1>1. /\ DOMAIN moved \subseteq DOMAIN now
      /\ \A id \in DOMAIN moved : moved[id] = now[id]
      /\ \A id \in DOMAIN now \ DOMAIN moved : id \in DOMAIN prior /\ prior[id] = now[id]
  BY DEF Moved, Known
<1> HIDE DEF moved
<1>2. /\ DOMAIN quote' = DOMAIN quote \cup DOMAIN moved
      /\ \A id \in DOMAIN moved : now[id] \in quote'[id].ever /\ quote'[id].last = now[id]
      /\ \A id \in DOMAIN quote \ DOMAIN moved : quote'[id] = quote[id]
      /\ \A id \in DOMAIN quote \cap DOMAIN moved : quote[id].ever \subseteq quote'[id].ever
  BY <1>1 DEF WithQuotes, moved
<1>3. /\ DOMAIN price' = DOMAIN price \cup DOMAIN now
      /\ \A id \in DOMAIN now : price'[id] = now[id]
      /\ \A id \in DOMAIN price \ DOMAIN now : price'[id] = price[id]
  BY DEF Overlaid
<1>4. \A id \in DOMAIN quote : quote[id].ever \subseteq quote'[id].ever
  BY <1>2
<1>5. ASSUME NEW prices, Recorded(prices), NEW id \in DOMAIN prices
      PROVE  id \in DOMAIN quote' /\ prices[id] \in quote'[id].ever
  BY <1>2, <1>4, <1>5 DEF Recorded
<1>6. ASSUME NEW id \in DOMAIN price'
      PROVE  id \in DOMAIN quote' /\ price'[id] \in quote'[id].ever
  <2>1. CASE id \in DOMAIN moved
    BY <1>1, <1>2, <1>3, <2>1
  <2>2. CASE id \in DOMAIN now \ DOMAIN moved
    BY <1>1, <1>3, <1>5, <2>2
  <2>3. CASE id \notin DOMAIN now
    BY <1>3, <1>5, <2>3
  <2> QED BY <1>1, <2>1, <2>2, <2>3
<1>7. ASSUME prior = price, \A id \in DOMAIN price : quote[id].last = price[id],
             NEW id \in DOMAIN price'
      PROVE  quote'[id].last = price'[id]
  <2>1. CASE id \in DOMAIN moved
    BY <1>1, <1>2, <1>3, <2>1
  <2>2. CASE id \notin DOMAIN moved
    <3>1. id \in DOMAIN price /\ price'[id] = price[id]
      BY <1>1, <1>3, <1>7, <2>2
    <3>2. id \in DOMAIN quote
      BY <3>1 DEF Recorded
    <3> QED BY <1>2, <1>7, <2>2, <3>1, <3>2
  <2> QED BY <2>1, <2>2
<1> QED BY <1>5, <1>6, <1>7 DEF Recorded

(* No price is shown that has no row of OddsQuote, whatever transactions     *)
(* write the event at once (ingest/ingester.py:101-136); and as long as none *)
(* have, the row that was added last has the price that is shown, with every *)
(* roll-back in between.                                                     *)
THEOREM HistoriesEnd == WriterSpec => []HistoryEndsWithPrice
<1>1. WriterInit => PricesRecorded /\ PriorIsCurrent
  BY DEF WriterInit, PricesRecorded, Recorded, PriorIsCurrent
<1>2. ASSUME BatchesOfPayloads, PricesRecorded, PriorIsCurrent, [WriterNext]_writerVars
      PROVE  PricesRecorded' /\ PriorIsCurrent'
  <2>1. ASSUME NEW w \in Writers, Write(w)
        PROVE  PricesRecorded' /\ PriorIsCurrent'
    <3> DEFINE now == NewPrices(batch[w].specs)  prior == batch[w].prior
    <3>1. /\ price' = Overlaid(price, now) /\ quote' = WithQuotes(Moved(now, prior))
          /\ batch' = [batch EXCEPT ![w] = None] /\ batch[w] # None /\ alone' = alone
      BY <2>1 DEF Write
    <3>2. \A id \in DOMAIN now : now[id] # None
      BY <1>2, <3>1, NewPricesPriced DEF BatchesOfPayloads
    <3>3. Recorded(price) /\ Recorded(prior)
      BY <1>2, <3>1 DEF PricesRecorded
    <3>4. alone => prior = price /\ \A id \in DOMAIN price : quote[id].last = price[id]
      BY <1>2, <3>1 DEF PriorIsCurrent
    <3> HIDE DEF now, prior
    <3>5. /\ Recorded(price)'
          /\ \A prices : Recorded(prices) =>
               \A id \in DOMAIN prices : id \in DOMAIN quote' /\ prices[id] \in quote'[id].ever
          /\ alone => \A id \in DOMAIN price' : quote'[id].last = price'[id]
      BY <3>1, <3>2, <3>3, <3>4, QuotesFollow
    <3>6. \A v \in Writers : batch'[v] = IF v = w THEN None ELSE batch[v]
      BY <1>2, <3>1 DEF BatchesOfPayloads
    <3>7. PricesRecorded'
      BY <1>2, <3>5, <3>6 DEF PricesRecorded, Recorded
    <3>8. alone => \A v \in Writers : batch'[v] = None
      BY <1>2, <3>1, <3>6 DEF PriorIsCurrent
    <3> QED BY <3>1, <3>5, <3>7, <3>8 DEF PriorIsCurrent
  <2>2. ASSUME NEW w \in Writers, Abandon(w)
        PROVE  PricesRecorded' /\ PriorIsCurrent'
    <3>1. /\ UNCHANGED <<price, quote, alone>>
          /\ \A v \in Writers : batch'[v] = IF v = w THEN None ELSE batch[v]
      BY <1>2, <2>2 DEF Abandon, BatchesOfPayloads
    <3> QED BY <1>2, <3>1 DEF PricesRecorded, Recorded, PriorIsCurrent
  <2>3. ASSUME NEW w \in Writers, NEW p \in Payloads, Prefetch(w, p)
        PROVE  PricesRecorded' /\ PriorIsCurrent'
    <3> DEFINE b == [specs |-> Specs(Translated(p)), prior |-> price, whole |-> Complete(p)]
    <3>1. /\ batch' = [batch EXCEPT ![w] = b] /\ price' = price /\ quote' = quote
          /\ alone' = (alone /\ \A v \in Writers : batch[v] = None)
      BY <2>3 DEF Prefetch
    <3>2. b.prior = price
      OBVIOUS
    <3> HIDE DEF b
    <3>3. \A v \in Writers : batch'[v] = IF v = w THEN b ELSE batch[v]
      BY <1>2, <3>1 DEF BatchesOfPayloads
    <3>4. PricesRecorded'
      BY <1>2, <3>1, <3>2, <3>3 DEF PricesRecorded, Recorded
    <3>5. alone' => alone /\ \A v \in Writers : batch[v] = None
      BY <3>1
    <3> QED BY <1>2, <3>1, <3>2, <3>3, <3>4, <3>5 DEF PriorIsCurrent
  <2>4. CASE UNCHANGED writerVars
    BY <1>2, <2>4 DEF writerVars, PricesRecorded, Recorded, PriorIsCurrent
  <2> QED BY <1>2, <2>1, <2>2, <2>3, <2>4 DEF WriterNext
<1>3. PricesRecorded /\ PriorIsCurrent => HistoryEndsWithPrice
  BY DEF PricesRecorded, Recorded, PriorIsCurrent, HistoryEndsWithPrice
<1> QED BY <1>1, <1>2, <1>3, BatchesKept, PTL DEF WriterSpec
-----------------------------------------------------------------------------
(* Whole markets                                                            *)

(* A complete book that offers a bet offers all its sides.                  *)
LEMMA BookIsWhole ==
  ASSUME NEW p \in Payloads, Complete(p), NEW n \in DOMAIN p, NEW at \in Nat,
         NEW o \in BookOdds(p[n], at), NEW side \in Offered(o)
  PROVE  \E q \in BookOdds(p[n], at) : q.bet = o.bet /\ <<q.entity, q.side>> = side
<1> DEFINE feed == p[n]
<1>1. CASE feed.ml # None /\ o \in Moneyline(feed.ml, at)
  <2>1. \E q \in Moneyline(feed.ml, at) :
          q.bet = o.bet /\ <<q.entity, q.side>> = side /\ q.price # None
    BY <1>1 DEF Moneyline, Odd, Offered, Complete
  <2> QED BY <1>1, <2>1 DEF BookOdds
<1>2. CASE \E m \in Nearest(feed.handicap, 0) : o \in Handicap(feed.handicap[m], at)
  <2>1. PICK m \in Nearest(feed.handicap, 0) : o \in Handicap(feed.handicap[m], at)
    BY <1>2
  <2>2. m \in DOMAIN feed.handicap
    BY DEF Nearest, WithLine
  <2>3. \E q \in Handicap(feed.handicap[m], at) :
          q.bet = o.bet /\ <<q.entity, q.side>> = side /\ q.price # None
    BY <2>1, <2>2 DEF Handicap, Odd, Offered, Complete
  <2> QED BY <2>3 DEF BookOdds
<1>3. CASE \E m \in MainTotal(feed) : o \in TotalOdds(feed.totals[m], at)
  <2>1. PICK m \in MainTotal(feed) : o \in TotalOdds(feed.totals[m], at)
    BY <1>3
  <2>2. m \in DOMAIN feed.totals
    BY OneMainTotal, FeedAssumption DEF WithLine
  <2>3. \E q \in TotalOdds(feed.totals[m], at) :
          q.bet = o.bet /\ <<q.entity, q.side>> = side /\ q.price # None
    BY <2>1, <2>2 DEF TotalOdds, Odd, Offered, Complete
  <2> QED BY <2>3 DEF BookOdds
<1> QED BY <1>1, <1>2, <1>3, FromRows

(* The other sides of an odd of the dictionary are there, under its key: of *)
(* totals, whose key has the line, because both sides are from one book.    *)
LEMMA SidesTogether ==
  ASSUME NEW p \in Payloads, Complete(p), NEW o \in Translated(p), NEW side \in Offered(o)
  PROVE  \E q \in Translated(p) :
           /\ Key(q) = Key(o) /\ q.bet = o.bet /\ <<q.entity, q.side>> = side
           /\ q.side = "home" => q.at <= o.at
<1>1. o \in AllOdds(p) /\ Shape(o) /\ (o.bet = "ou" => side \in {<<"all", "over">>, <<"all", "under">>})
  BY TranslatedApart DEF Translated, Offered
<1>2. PICK n \in DOMAIN p :
        n \in Nat /\ IsFeed(p[n]) /\ o \in BookOdds(p[n], 7 * n) /\ 7 * n < o.at /\ o.at <= 7 * n + 7
  BY <1>1, OfABook
<1>3. PICK r \in BookOdds(p[n], 7 * n) : r.bet = o.bet /\ <<r.entity, r.side>> = side
  BY <1>2, BookIsWhole
<1>4. r \in AllOdds(p) /\ Shape(r) /\ 7 * n \in Nat
  BY <1>2, AllShaped DEF AllOdds
<1>5. PICK q \in Translated(p) : OddId(q) = OddId(r) /\ q.at <= r.at
  BY <1>4, FirstOfName
<1>6. q.bet = o.bet /\ <<q.entity, q.side>> = side /\ Shape(q) /\ q \in AllOdds(p)
  BY <1>3, <1>5, TranslatedApart DEF OddId, Translated
<1>7. q.side = "home" => q.at <= o.at
  <2>1. r.side = "home" <=> q.side = "home"
    BY <1>5 DEF OddId
  <2>2. r.side = "home" => r.at <= o.at
    BY <1>2, <1>3, <1>4, BookOddsApart
  <2> QED BY <1>1, <1>4, <1>5, <1>6, <2>1, <2>2 DEF Shape
<1>8. CASE o.bet # "ou"
  BY <1>6, <1>7, <1>8 DEF Key
<1>9. CASE o.bet = "ou"
  <2>1. PICK m \in DOMAIN p :
          m \in Nat /\ IsFeed(p[m]) /\ q \in BookOdds(p[m], 7 * m) /\ 7 * m < q.at /\ q.at <= 7 * m + 7
    BY <1>6, OfABook
  <2>2. PICK s \in BookOdds(p[m], 7 * m) :
          s.bet = q.bet /\ <<s.entity, s.side>> = <<o.entity, o.side>>
    <3>1. <<o.entity, o.side>> \in Offered(q)
      BY <1>1, <1>6, <1>9 DEF Shape, Offered
    <3> QED BY <2>1, <3>1, BookIsWhole
  <2>3. s \in AllOdds(p) /\ OddId(s) = OddId(o)
    BY <1>6, <2>2 DEF AllOdds, OddId
  <2>4. o.at <= s.at /\ s.at <= 7 * m + 7 /\ s.at \in Nat /\ r.at <= 7 * n + 7 /\ r.at \in Nat
    <3>1. o.at <= s.at
      BY <2>3 DEF Translated
    <3>2. 7 * m \in Nat
      BY <2>1
    <3> QED BY <1>2, <1>4, <2>1, <3>1, <3>2, BookShape DEF Shape
  <2>5. n = m
    BY <1>1, <1>2, <1>5, <1>6, <2>1, <2>4 DEF Shape
  <2>6. q.line = o.line
    BY <1>2, <1>4, <1>6, <1>9, <2>1, <2>5, BookOddsApart
  <2> QED BY <1>6, <1>7, <1>9, <2>6 DEF Key
<1> QED BY <1>8, <1>9

LEMMA SameKeySameBet ==
  ASSUME NEW o, NEW q, Key(o) = Key(q)
  PROVE  o.bet = q.bet
BY DEF Key

(* The id of a group of complete books: the lead is an odd of the home side, *)
(* or of a total, and the sides of the group are those that its bet offers. *)
WholeId(id) ==
  /\ id = [bet |-> id.bet, entity |-> id.entity, line |-> id.line]
  /\ id.entity = IF id.bet = "ou" THEN "all" ELSE "home"
SidesOfMembers(M) == {<<o.entity, o.side>> : o \in M}

LEMMA WholeSpecs ==
  ASSUME NEW p \in Payloads, Complete(p), NEW s \in Specs(Translated(p))
  PROVE  WholeId(s.id) /\ SidesOfMembers(s.members) = Offered(s.id)
<1>1. PICK k \in GroupKeys(Translated(p)) :
        s = [id |-> MarketId(Members(Translated(p), k)), members |-> Members(Translated(p), k)]
  BY DEF Specs
<1> DEFINE M == Members(Translated(p), k)
           L == Lead(M)
<1>2. M \subseteq Translated(p) /\ M # {} /\ \A o \in Translated(p) : o \in M <=> Key(o) = k
  BY IdTellsKey DEF Members
<1>3. s.id = [bet |-> L.bet, entity |-> L.entity, line |-> CanonicalLine(M)] /\ s.members = M
  BY <1>1 DEF MarketId
<1> HIDE DEF M
<1>4. L \in M /\ \A q \in M : L.at <= q.at
  BY <1>2, LeadLeads
<1> HIDE DEF L
<1>5. L \in Translated(p) /\ Key(L) = k /\ Shape(L)
  BY <1>2, <1>4, TranslatedApart
<1>6. Offered(L) = Offered(s.id) /\ s.id.bet = L.bet
  BY <1>3 DEF Offered
<1>7. L.bet # "ou" => L.side = "home" /\ L.entity = "home"
  <2>1. SUFFICES ASSUME L.bet # "ou" PROVE L.side = "home"
    BY <1>5 DEF Shape
  <2>2. <<"home", "home">> \in Offered(L)
    BY <1>5, <2>1 DEF Shape, Offered
  <2>3. PICK q \in Translated(p) :
          /\ Key(q) = Key(L) /\ q.bet = L.bet /\ <<q.entity, q.side>> = <<"home", "home">>
          /\ q.side = "home" => q.at <= L.at
    BY <1>5, <2>2, SidesTogether
  <2>4. q \in M /\ Shape(q)
    BY <1>2, <1>5, <2>3, TranslatedApart
  <2>5. q.at = L.at
    BY <1>4, <1>5, <2>3, <2>4 DEF Shape
  <2> QED BY <1>5, <2>3, <2>5, TranslatedApart
<1>8. WholeId(s.id)
  <2>1. L.entity = IF L.bet = "ou" THEN "all" ELSE "home"
    BY <1>5, <1>7 DEF Shape
  <2> QED BY <1>3, <2>1 DEF WholeId
<1>9. ASSUME NEW o \in M
      PROVE  <<o.entity, o.side>> \in Offered(L)
  <2>1. Shape(o) /\ o.bet = L.bet
    BY <1>2, <1>5, SameKeySameBet, TranslatedApart
  <2> QED BY <2>1 DEF Shape, Offered
<1>10. ASSUME NEW side \in Offered(L)
       PROVE  \E o \in M : <<o.entity, o.side>> = side
  BY <1>2, <1>5, SidesTogether
<1> QED BY <1>3, <1>6, <1>8, <1>9, <1>10 DEF SidesOfMembers

(* The rows that a payload writes, market by market.                        *)
SidesIn(prices, m) == {<<i.entity, i.side>> : i \in {j \in DOMAIN prices : j.market = m}}

LEMMA WrittenSides ==
  ASSUME NEW p \in Payloads
  PROVE  /\ \A i \in DOMAIN NewPrices(Specs(Translated(p))) :
              \E s \in Specs(Translated(p)) : i.market = s.id
         /\ \A s \in Specs(Translated(p)) :
              SidesIn(NewPrices(Specs(Translated(p))), s.id) = SidesOfMembers(s.members)
<1> DEFINE S == Specs(Translated(p))
           now == NewPrices(S)
<1>1. DOMAIN now = {x.id : x \in Selections(S)}
  BY DEF NewPrices
<1>2. ASSUME NEW i \in DOMAIN now
      PROVE  \E s \in S : \E o \in s.members : i = SelectionId(s.id, o)
  BY <1>1 DEF Selections
<1>3. ASSUME NEW s \in S, NEW o \in s.members
      PROVE  SelectionId(s.id, o) \in DOMAIN now
  <2>1. [id |-> SelectionId(s.id, o), price |-> o.price] \in Selections(S)
    BY DEF Selections
  <2> QED BY <1>1, <2>1
<1> HIDE DEF now
<1>4. ASSUME NEW s \in S
      PROVE  SidesIn(now, s.id) = SidesOfMembers(s.members)
  <2>1. ASSUME NEW i \in DOMAIN now, i.market = s.id
        PROVE  <<i.entity, i.side>> \in SidesOfMembers(s.members)
    <3>1. PICK t \in S : \E o \in t.members : i = SelectionId(t.id, o)
      BY <1>2
    <3>2. PICK o \in t.members : i = SelectionId(t.id, o)
      BY <3>1
    <3>3. t.id = s.id /\ i.entity = o.entity /\ i.side = o.side
      BY <2>1, <3>2 DEF SelectionId
    <3>4. t = s
      BY <3>3, MarketsApart
    <3> QED BY <3>2, <3>3, <3>4 DEF SidesOfMembers
  <2>2. ASSUME NEW o \in s.members
        PROVE  <<o.entity, o.side>> \in SidesIn(now, s.id)
    <3>1. SelectionId(s.id, o) \in DOMAIN now
      BY <1>3
    <3>2. /\ SelectionId(s.id, o).market = s.id /\ SelectionId(s.id, o).entity = o.entity
          /\ SelectionId(s.id, o).side = o.side
      BY DEF SelectionId
    <3> QED BY <3>1, <3>2 DEF SidesIn
  <2> QED BY <2>1, <2>2 DEF SidesIn, SidesOfMembers
<1>5. ASSUME NEW i \in DOMAIN now
      PROVE  \E s \in S : i.market = s.id
  BY <1>2 DEF SelectionId
<1> QED BY <1>4, <1>5 DEF now

(* What holds of the rows as long as every payload was complete.            *)
RowsWhole ==
  /\ \A i \in DOMAIN price : i.market \in markets
  /\ whole => \A m \in markets : WholeId(m) /\ SidesOf(m) = Offered(m)

LEMMA WriteKeepsWhole ==
  ASSUME BatchesOfPayloads, RowsWhole, NEW w \in Writers, Write(w)
  PROVE  RowsWhole'
<1> DEFINE S == batch[w].specs
           now == NewPrices(S)
<1>1. /\ markets' = markets \cup {s.id : s \in S} /\ price' = Overlaid(price, now)
      /\ whole' = (whole /\ batch[w].whole) /\ batch[w] # None
  BY DEF Write
<1>2. PICK p \in Payloads : S = Specs(Translated(p)) /\ batch[w].whole = Complete(p)
  BY <1>1 DEF BatchesOfPayloads
<1>3. DOMAIN price' = DOMAIN price \cup DOMAIN now
  BY <1>1 DEF Overlaid
<1>4. /\ \A i \in DOMAIN now : \E s \in S : i.market = s.id
      /\ \A s \in S : SidesIn(now, s.id) = SidesOfMembers(s.members)
  BY <1>2, WrittenSides
<1> HIDE DEF now
<1>5. \A i \in DOMAIN price' : i.market \in markets'
  BY <1>1, <1>3, <1>4 DEF RowsWhole
<1>6. \A m : SidesOf(m)' = SidesOf(m) \cup SidesIn(now, m)
  BY <1>3 DEF SidesOf, SidesIn
<1>7. ASSUME whole', NEW m \in markets'
      PROVE  WholeId(m) /\ SidesOf(m)' = Offered(m)
  <2>1. whole /\ Complete(p)
    BY <1>1, <1>2, <1>7
  <2>2. CASE \E s \in S : m = s.id
    <3>1. PICK s \in S : m = s.id
      BY <2>2
    <3>2. WholeId(m) /\ SidesIn(now, m) = Offered(m)
      BY <1>2, <1>4, <2>1, <3>1, WholeSpecs
    <3>3. SidesOf(m) = Offered(m) \/ SidesOf(m) = {}
      BY <2>1 DEF RowsWhole, SidesOf
    <3> QED BY <1>6, <3>2, <3>3
  <2>3. CASE ~\E s \in S : m = s.id
    <3>1. m \in markets
      BY <1>1, <2>3
    <3>2. SidesIn(now, m) = {}
      BY <1>4, <2>3 DEF SidesIn
    <3> QED BY <1>6, <2>1, <3>1, <3>2 DEF RowsWhole
  <2> QED BY <2>2, <2>3
<1> QED BY <1>5, <1>7 DEF RowsWhole

(* As long as the books price all sides of what they offer, a bet at a line *)
(* is one market with all its sides, for any number of books, in any order, *)
(* with ladders and several writers: the id is made of the first member of   *)
(* a group (ingest/normalize.py:316), and yet no group is torn.             *)
THEOREM MarketsWhole == WriterSpec => []WholeMarkets
<1>1. WriterInit => RowsWhole
  BY DEF WriterInit, RowsWhole
<1>2. BatchesOfPayloads /\ RowsWhole /\ [WriterNext]_writerVars => RowsWhole'
  <2> SUFFICES ASSUME BatchesOfPayloads, RowsWhole, [WriterNext]_writerVars
               PROVE  RowsWhole'
    OBVIOUS
  <2>1. ASSUME NEW w \in Writers, Write(w)
        PROVE  RowsWhole'
    BY <2>1, WriteKeepsWhole
  <2>2. CASE UNCHANGED <<markets, price, whole>>
    BY <2>2 DEF RowsWhole, SidesOf
  <2> QED BY <2>1, <2>2 DEF WriterNext, Abandon, Prefetch, writerVars
<1>3. RowsWhole => WholeMarkets
  BY DEF RowsWhole, WholeMarkets, WholeId
<1> QED BY <1>1, <1>2, <1>3, BatchesKept, PTL DEF WriterSpec
-----------------------------------------------------------------------------
(* Tenants and their keys                                                   *)

(* What a transaction has read is still so when it commits, except that     *)
(* keys may have been revoked meanwhile; and the key it issues is its own.  *)
CallOK(r) ==
  /\ r.op # "provision" => r.user \in DOMAIN tenant
  /\ r.all \subseteq DOMAIN key /\ r.live \subseteq r.all
  /\ \A k \in r.all : key[k].owner = r.user
  /\ \A k \in r.all \ r.live : key[k].revoked
  /\ r.op # "entitle" => r.issues \in Keys \ DOMAIN key
CallsOK == \A c \in Callers : call[c] # None => CallOK(call[c])
IssuesApart ==
  \A c, d \in Callers :
    c # d /\ call[c] # None /\ call[d] # None /\ call[c].issues # None
      => call[c].issues # call[d].issues
RotatedAreDead == \A k \in rotated : key[k].revoked
NobodyWithout ==
  \A u \in DOMAIN tenant : \E k \in DOMAIN key : key[k].owner = u /\ ~key[k].revoked
TenantIInv == TenantTypeOK /\ CallsOK /\ IssuesApart /\ RotatedAreDead /\ NobodyWithout

LEMMA TenantInitHolds == TenantInit => TenantIInv
BY DEF TenantInit, TenantIInv, TenantTypeOK, CallsOK, IssuesApart, RotatedAreDead, NobodyWithout

(* A transaction begins.                                                    *)
LEMMA TenantBeginKeeps ==
  ASSUME TenantIInv, NEW c \in Callers, NEW u \in Users, NEW op, NEW want, NEW issues,
         op \in {"provision", "entitle", "rotate"}, want \in TenantUser,
         op # "provision" => u \in DOMAIN tenant,
         op # "entitle" => issues \in Keys \ Issued, op = "entitle" => issues = None,
         BeginCall(c, op, u, want, issues)
  PROVE  TenantIInv'
<1> DEFINE r == [op |-> op, user |-> u, base |-> IF u \in DOMAIN tenant THEN tenant[u] ELSE None,
                 want |-> want, live |-> Live(u), all |-> KeysOf(u), issues |-> issues]
<1>1. /\ call' = [call EXCEPT ![c] = r] /\ call[c] = None
      /\ tenant' = tenant /\ key' = key /\ rotated' = rotated
      /\ sent' = [sent EXCEPT ![u] = IF op = "rotate" THEN @ ELSE @ \cup {<<want.tier, want.status>>}]
  BY DEF BeginCall
<1>2. r \in Call
  BY DEF TenantIInv, TenantTypeOK, Call, Live, KeysOf
<1>3. TenantTypeOK'
  <2>1. want.tier \in Tiers /\ want.status \in UserStatuses
    BY DEF TenantUser
  <2>2. sent' \in [Users -> SUBSET (Tiers \X UserStatuses)]
    BY <1>1, <2>1 DEF TenantIInv, TenantTypeOK
  <2>3. call' \in [Callers -> Call \cup {None}]
    BY <1>1, <1>2 DEF TenantIInv, TenantTypeOK
  <2> QED BY <1>1, <2>2, <2>3 DEF TenantIInv, TenantTypeOK
<1>4. CallOK(r)
  BY DEF CallOK, KeysOf, Live, Issued
<1>5. CallsOK'
  <2>1. \A d \in Callers : call'[d] = IF d = c THEN r ELSE call[d]
    BY <1>1 DEF TenantIInv, TenantTypeOK
  <2> HIDE DEF r
  <2> QED BY <1>1, <1>4, <2>1 DEF TenantIInv, CallsOK, CallOK
<1>6. IssuesApart'
  <2>1. \A d \in Callers : call'[d] = IF d = c THEN r ELSE call[d]
    BY <1>1 DEF TenantIInv, TenantTypeOK
  <2>2. r.issues = issues
    OBVIOUS
  <2>3. \A d \in Callers \ {c} : call[d] # None /\ issues # None => call[d].issues # issues
    BY <1>1, KeysAssumption DEF Issued
  <2> HIDE DEF r
  <2> QED BY <2>1, <2>2, <2>3 DEF TenantIInv, IssuesApart
<1> QED BY <1>1, <1>3, <1>5, <1>6 DEF TenantIInv, RotatedAreDead, NobodyWithout

(* One commits.                                                             *)
LEMMA TenantCommitKeeps ==
  ASSUME TenantIInv, NEW c \in Callers, CommitCall(c)
  PROVE  TenantIInv'
<1> DEFINE r == call[c]
<1>1. r # None /\ r \in Call /\ CallOK(r) /\ sent' = sent /\ call' = [call EXCEPT ![c] = None]
  BY DEF CommitCall, TenantIInv, TenantTypeOK, CallsOK
<1>2. \A d \in Callers : call'[d] = IF d = c THEN None ELSE call[d]
  BY <1>1 DEF TenantIInv, TenantTypeOK
<1>3. IssuesApart'
  BY <1>2 DEF TenantIInv, IssuesApart
<1>4. /\ r.op \in {"provision", "entitle", "rotate"} /\ r.user \in Users
      /\ r.want \in TenantUser /\ r.live \subseteq Keys /\ r.all \subseteq Keys
  BY <1>1 DEF Call
<1>5. ASSUME UNCHANGED <<tenant, key, rotated>> PROVE TenantIInv'
  <2>1. TenantTypeOK'
    BY <1>1, <1>5 DEF TenantIInv, TenantTypeOK
  <2>2. CallsOK'
    BY <1>2, <1>5 DEF TenantIInv, CallsOK, CallOK
  <2> QED BY <1>3, <1>5, <2>1, <2>2 DEF TenantIInv, RotatedAreDead, NobodyWithout
<1>6. CASE r.op = "provision"
  <2>0. Provisioned(r)
    BY <1>1, <1>6 DEF CommitCall
  <2>1. CASE r.user \in DOMAIN tenant
    BY <1>5, <2>0, <2>1 DEF Provisioned
  <2>2. CASE r.user \notin DOMAIN tenant
    <3> DEFINE row == [owner |-> r.user, revoked |-> FALSE]
    <3>1. r.issues \in Keys \ DOMAIN key
      BY <1>1, <1>6 DEF CallOK
    <3>2. tenant' = Put(tenant, r.user, r.want) /\ key' = Put(key, r.issues, row) /\ rotated' = rotated
      BY <2>0, <2>2 DEF Provisioned
    <3>3. row \in TenantApiKey /\ row.owner = r.user /\ ~row.revoked
      BY <1>4 DEF TenantApiKey
    <3>4. /\ DOMAIN tenant' = DOMAIN tenant \cup {r.user} /\ tenant'[r.user] = r.want
          /\ \A u \in DOMAIN tenant : tenant'[u] = tenant[u]
      BY <2>2, <3>2 DEF Put
    <3>5. /\ DOMAIN key' = DOMAIN key \cup {r.issues} /\ key'[r.issues] = row
          /\ \A k \in DOMAIN key : key'[k] = key[k]
      BY <3>1, <3>2 DEF Put
    <3> HIDE DEF row
    <3>6. TenantTypeOK'
      BY <1>1, <1>2, <1>4, <3>1, <3>2, <3>3, <3>4, <3>5 DEF TenantIInv, TenantTypeOK
    <3>7. \A d \in Callers : d # c /\ call[d] # None => call[d].issues # r.issues
      BY <1>1, <3>1, KeysAssumption DEF TenantIInv, IssuesApart
    <3>8. CallsOK'
      BY <1>2, <3>4, <3>5, <3>7 DEF TenantIInv, CallsOK, CallOK
    <3>9. RotatedAreDead'
      BY <3>2, <3>5 DEF TenantIInv, TenantTypeOK, RotatedAreDead
    <3>10. NobodyWithout'
      BY <3>3, <3>4, <3>5 DEF TenantIInv, NobodyWithout
    <3> QED BY <1>3, <3>6, <3>8, <3>9, <3>10 DEF TenantIInv
  <2> QED BY <2>1, <2>2
<1>7. CASE r.op = "entitle"
  <2>1. Entitled(r)
    BY <1>1, <1>7 DEF CommitCall
  <2>2. key' = key /\ rotated' = rotated
    BY <2>1 DEF Entitled
  <2>3. r.user \in DOMAIN tenant
    BY <1>1, <1>7 DEF CallOK
  <2>4. DOMAIN tenant' = DOMAIN tenant
    BY <2>1 DEF Entitled
  <2>5. \A u \in DOMAIN tenant : u # r.user => tenant'[u] = tenant[u]
    BY <2>1 DEF Entitled
  <2>6. tenant'[r.user] \in TenantUser
    <3>1. tenant'[r.user] =
            [f \in DOMAIN tenant[r.user] |-> Column(r.base[f], r.want[f], tenant[r.user][f])]
      BY <2>1, <2>3 DEF Entitled
    <3>2. tenant[r.user] \in TenantUser
      BY <2>3 DEF TenantIInv, TenantTypeOK
    <3>3. \A f \in {"tier", "status", "revoked"} :
            tenant'[r.user][f] \in {r.want[f], tenant[r.user][f]}
      BY <3>1, <3>2 DEF TenantUser, Column
    <3>4. tenant'[r.user] =
            [tier |-> tenant'[r.user].tier, status |-> tenant'[r.user].status,
             revoked |-> tenant'[r.user].revoked]
      BY <3>1, <3>2 DEF TenantUser
    <3>5. tenant'[r.user].tier \in Tiers /\ tenant'[r.user].status \in UserStatuses
      BY <1>4, <3>2, <3>3 DEF TenantUser
    <3>6. tenant'[r.user].revoked \in BOOLEAN
      BY <1>4, <3>2, <3>3 DEF TenantUser
    <3> QED BY <3>4, <3>5, <3>6 DEF TenantUser
  <2>7. TenantTypeOK'
    BY <1>1, <1>2, <2>2, <2>4, <2>5, <2>6 DEF TenantIInv, TenantTypeOK
  <2>8. CallsOK'
    BY <1>2, <2>2, <2>4 DEF TenantIInv, CallsOK, CallOK
  <2> QED BY <1>3, <2>2, <2>4, <2>7, <2>8 DEF TenantIInv, RotatedAreDead, NobodyWithout
<1>8. CASE r.op = "rotate"
  <2> DEFINE row == [owner |-> r.user, revoked |-> FALSE]
             dead == [k \in DOMAIN key |-> [key[k] EXCEPT !.revoked = @ \/ k \in Revokes(r)]]
  <2>1. Rotated(r)
    BY <1>1, <1>8 DEF CommitCall
  <2>2. r.issues \in Keys \ DOMAIN key /\ r.user \in DOMAIN tenant
    BY <1>1, <1>8 DEF CallOK
  <2>3. tenant' = tenant /\ rotated' = rotated \cup r.all /\ key' = Put(dead, r.issues, row)
    BY <2>1 DEF Rotated
  <2>4. row \in TenantApiKey /\ row.owner = r.user /\ ~row.revoked
    BY <1>4 DEF TenantApiKey
  <2>5. ASSUME NEW k \in DOMAIN key
        PROVE  /\ dead[k] \in TenantApiKey /\ dead[k].owner = key[k].owner
               /\ dead[k].revoked <=> key[k].revoked \/ k \in r.live
    <3>1. key[k] \in TenantApiKey
      BY DEF TenantIInv, TenantTypeOK
    <3>2. dead[k] = [key[k] EXCEPT !.revoked = key[k].revoked \/ k \in r.live]
      BY DEF Revokes
    <3> QED BY <3>1, <3>2 DEF TenantApiKey
  <2>6. /\ DOMAIN key' = DOMAIN key \cup {r.issues} /\ key'[r.issues] = row
        /\ \A k \in DOMAIN key : key'[k] = dead[k]
    <3>1. DOMAIN dead = DOMAIN key
      OBVIOUS
    <3> HIDE DEF dead
    <3> QED BY <2>2, <2>3, <3>1 DEF Put
  <2> HIDE DEF row, dead
  <2>7. TenantTypeOK'
    <3>1. DOMAIN key' \subseteq Keys /\ \A k \in DOMAIN key' : key'[k] \in TenantApiKey
      BY <2>2, <2>4, <2>5, <2>6 DEF TenantIInv, TenantTypeOK
    <3>2. rotated' \subseteq DOMAIN key'
      BY <1>1, <2>3, <2>6 DEF TenantIInv, TenantTypeOK, CallOK
    <3> QED BY <1>1, <1>2, <2>3, <3>1, <3>2 DEF TenantIInv, TenantTypeOK
  <2>8. \A d \in Callers : d # c /\ call[d] # None => call[d].issues # r.issues
    BY <1>1, <2>2, KeysAssumption DEF TenantIInv, IssuesApart
  <2>9. CallsOK'
    BY <1>2, <2>3, <2>5, <2>6, <2>8 DEF TenantIInv, CallsOK, CallOK
  <2>10. RotatedAreDead'
    BY <1>1, <2>3, <2>5, <2>6 DEF TenantIInv, TenantTypeOK, RotatedAreDead, CallOK
  <2>11. NobodyWithout'
    <3> SUFFICES ASSUME NEW u \in DOMAIN tenant
                 PROVE  \E k \in DOMAIN key' : key'[k].owner = u /\ ~key'[k].revoked
      BY <2>3 DEF NobodyWithout
    <3>1. CASE u = r.user
      BY <2>4, <2>6, <3>1
    <3>2. CASE u # r.user
      <4>1. PICK k \in DOMAIN key : key[k].owner = u /\ ~key[k].revoked
        BY DEF TenantIInv, NobodyWithout
      <4>2. k \notin r.live
        BY <1>1, <3>2, <4>1 DEF CallOK
      <4> QED BY <2>5, <2>6, <4>1, <4>2
    <3> QED BY <3>1, <3>2
  <2> QED BY <1>3, <2>7, <2>9, <2>10, <2>11 DEF TenantIInv
<1> QED BY <1>4, <1>6, <1>7, <1>8

(* A transaction fails, or a user is revoked.                               *)
LEMMA OthersKeep ==
  ASSUME TenantIInv, (\E c \in Callers : FailCall(c)) \/ (\E u \in Users : RevokeUser(u))
  PROVE  TenantIInv'
<1>1. ASSUME NEW c \in Callers, FailCall(c) PROVE TenantIInv'
  <2>1. \A d \in Callers : call'[d] = IF d = c THEN None ELSE call[d]
    BY <1>1 DEF FailCall, TenantIInv, TenantTypeOK
  <2> QED BY <1>1, <2>1
          DEF FailCall, TenantIInv, TenantTypeOK, CallsOK, CallOK, IssuesApart, RotatedAreDead, NobodyWithout
<1>2. ASSUME NEW u \in Users, RevokeUser(u) PROVE TenantIInv'
  <2>1. /\ DOMAIN tenant' = DOMAIN tenant
        /\ \A v \in DOMAIN tenant : tenant'[v] \in TenantUser
    BY <1>2 DEF RevokeUser, TenantIInv, TenantTypeOK, TenantUser
  <2> QED BY <1>2, <2>1
          DEF RevokeUser, TenantIInv, TenantTypeOK, CallsOK, CallOK, IssuesApart, RotatedAreDead, NobodyWithout
<1> QED BY <1>1, <1>2

THEOREM TenantInductive == TenantSpec => []TenantIInv
<1>1. TenantIInv /\ [TenantNext]_tenantVars => TenantIInv'
  <2> SUFFICES ASSUME TenantIInv, [TenantNext]_tenantVars PROVE TenantIInv'
    OBVIOUS
  <2>1. ASSUME NEW c \in Callers, NEW u \in Users, NEW tier \in Tiers, NEW status \in UserStatuses,
               ProvisionUser(c, u, tier, status)
        PROVE  TenantIInv'
    <3> DEFINE want == [tier |-> tier, status |-> status, revoked |-> FALSE]
    <3>1. PICK k \in Fresh : BeginCall(c, "provision", u, want, k)
      BY <2>1 DEF ProvisionUser
    <3>2. k \in Keys \ Issued
      BY DEF Fresh
    <3>3. want \in TenantUser
      BY DEF TenantUser
    <3> HIDE DEF want
    <3> QED BY <3>1, <3>2, <3>3, TenantBeginKeeps
  <2>2. ASSUME NEW c \in Callers, NEW u \in Users, NEW tier \in Tiers, NEW status \in UserStatuses,
               UpdateEntitlements(c, u, tier, status)
        PROVE  TenantIInv'
    <3> DEFINE want == [tenant[u] EXCEPT !.tier = tier, !.status = status]
    <3>1. u \in DOMAIN tenant /\ BeginCall(c, "entitle", u, want, None)
      BY <2>2 DEF UpdateEntitlements
    <3>2. want \in TenantUser
      BY <3>1 DEF TenantIInv, TenantTypeOK, TenantUser
    <3> HIDE DEF want
    <3> QED BY <3>1, <3>2, TenantBeginKeeps
  <2>3. ASSUME NEW c \in Callers, NEW u \in Users, RotateApiKey(c, u) PROVE TenantIInv'
    <3>1. PICK k \in Fresh : u \in DOMAIN tenant /\ BeginCall(c, "rotate", u, tenant[u], k)
      BY <2>3 DEF RotateApiKey
    <3>2. k \in Keys \ Issued /\ tenant[u] \in TenantUser
      BY <3>1 DEF Fresh, TenantIInv, TenantTypeOK
    <3> QED BY <3>1, <3>2, TenantBeginKeeps
  <2>4. CASE UNCHANGED tenantVars
    BY <2>4 DEF tenantVars, TenantIInv, TenantTypeOK, CallsOK, CallOK, IssuesApart, RotatedAreDead, NobodyWithout
  <2> QED BY <2>1, <2>2, <2>3, <2>4, TenantCommitKeeps, OthersKeep DEF TenantNext
<1> QED BY <1>1, TenantInitHolds, PTL DEF TenantSpec

(* Users, keys and calls are what models/tenant.py and the handlers make of *)
(* them.                                                                   *)
THEOREM TenantTypeCorrect == TenantSpec => []TenantTypeOK
BY TenantInductive, PTL DEF TenantIInv

(* However many calls overlap: a key that was there when a successful       *)
(* rotation began is refused for ever, no user that is not revoked is left  *)
(* without a key, and the service may act for it (api/internal.py:209).     *)
THEOREM RotationsRevoke == TenantSpec => []RotationRevokes
<1>1. TenantIInv => RotationRevokes
  <2> SUFFICES ASSUME TenantIInv PROVE RotationRevokes
    OBVIOUS
  <2>1. ASSUME NEW k \in rotated, NEW u \in Users PROVE Acting(k, u) = None
    BY DEF Acting, Authenticated, TenantIInv, RotatedAreDead
  <2>2. ASSUME NEW u \in DOMAIN tenant, ~tenant[u].revoked
        PROVE  \E k \in KeysOf(u) : k \in Keys /\ Authenticated(k) = u
    BY <2>2 DEF TenantIInv, TenantTypeOK, NobodyWithout, KeysOf, Authenticated
  <2>3. ASSUME NEW u \in DOMAIN tenant, ~tenant[u].revoked
        PROVE  \E k \in Keys : Acting(k, None) = u
    BY <2>2, <2>3, KeysAssumption DEF Acting, TenantIInv, TenantTypeOK
  <2>4. ASSUME NEW u \in DOMAIN tenant, ~tenant[u].revoked,
               Service \in DOMAIN tenant, ~tenant[Service].revoked
        PROVE  \E k \in KeysOf(Service) : Acting(k, u) = u
    <3>1. u # None /\ Service # None
      BY <2>4, KeysAssumption DEF TenantIInv, TenantTypeOK
    <3> QED BY <2>2, <2>4, <3>1 DEF Acting
  <2> QED BY <2>1, <2>3, <2>4 DEF RotationRevokes
<1> QED BY <1>1, TenantInductive, PTL
-----------------------------------------------------------------------------
(* ReenqueueBatch: an event that a row was flushed for is one the action has *)
(* seen, and it will not meet it again; without an error the counter is the *)
(* number of such events.                                                   *)
Flushed(f) == {e \in Events : f[e] > 0}
SelectionOK ==
  resend # None =>
    /\ resend.kind = "resend" => resend.todo \subseteq Deliveries
    /\ resend.kind = "re-enqueue" => resend.todo \subseteq Events \ resend.seen
FlushedOnce ==
  resend # None =>
    /\ \A e \in Events : resend.flushed[e] <= 1
    /\ Flushed(resend.flushed) \subseteq resend.seen
    /\ resend.errors = 0 => resend.enqueued = Cardinality(Flushed(resend.flushed))
BatchIInv == BatchTypeOK /\ SelectionOK /\ FlushedOnce /\ CleanReportIsTrue

(* What a step of the loop over the selection has to show.                  *)
LEMMA ProcessKeeps ==
  ASSUME BatchIInv, NEW pk, NEW after, Process(pk, after),
         after \in Batch, after.kind = resend.kind, after.todo = resend.todo \ {pk},
         after.kind = "re-enqueue" => after.todo \subseteq Events \ after.seen,
         \A e \in Events : after.flushed[e] <= 1,
         Flushed(after.flushed) \subseteq after.seen,
         after.errors = 0 => after.enqueued = Cardinality(Flushed(after.flushed))
  PROVE  BatchIInv'
<1>1. /\ resend # None /\ resend' = after
      /\ event' = event /\ delivery' = delivery /\ url' = url /\ report' = report
  BY DEF Process
<1>2. BatchTypeOK'
  BY <1>1 DEF BatchIInv, BatchTypeOK
<1>3. SelectionOK'
  BY <1>1 DEF BatchIInv, SelectionOK
<1>4. FlushedOnce' /\ CleanReportIsTrue'
  BY <1>1 DEF BatchIInv, FlushedOnce, CleanReportIsTrue
<1> QED BY <1>2, <1>3, <1>4 DEF BatchIInv

LEMMA NothingFlushed ==
  /\ Nothing \in [Events -> Nat] /\ Flushed(Nothing) = {} /\ Cardinality({}) = 0
  /\ \A e \in Events : Nothing[e] <= 1
BY FS_EmptySet DEF Nothing, Flushed

LEMMA SeeSees ==
  ASSUME NEW b \in Batch, NEW pk, ~Missing(pk) => Target(pk) \in Events
  PROVE  /\ See(pk, b) \in Batch /\ See(pk, b).kind = b.kind /\ See(pk, b).todo = b.todo \ {pk}
         /\ See(pk, b).seen = IF Missing(pk) THEN b.seen ELSE b.seen \cup {Target(pk)}
         /\ See(pk, b).flushed = b.flushed /\ See(pk, b).enqueued = b.enqueued
         /\ See(pk, b).skipped = b.skipped /\ See(pk, b).errors = b.errors
<1> DEFINE seen == IF Missing(pk) THEN b.seen ELSE b.seen \cup {Target(pk)}
<1>1. See(pk, b) = [b EXCEPT !.todo = @ \ {pk}, !.seen = seen]
  BY DEF See, Batch
<1>2. seen \subseteq Events
  BY DEF Batch
<1> HIDE DEF seen
<1>3. /\ [b EXCEPT !.todo = @ \ {pk}, !.seen = seen] \in Batch
      /\ [b EXCEPT !.todo = @ \ {pk}, !.seen = seen].kind = b.kind
      /\ [b EXCEPT !.todo = @ \ {pk}, !.seen = seen].todo = b.todo \ {pk}
      /\ [b EXCEPT !.todo = @ \ {pk}, !.seen = seen].seen = seen
      /\ [b EXCEPT !.todo = @ \ {pk}, !.seen = seen].flushed = b.flushed
      /\ [b EXCEPT !.todo = @ \ {pk}, !.seen = seen].enqueued = b.enqueued
      /\ [b EXCEPT !.todo = @ \ {pk}, !.seen = seen].skipped = b.skipped
      /\ [b EXCEPT !.todo = @ \ {pk}, !.seen = seen].errors = b.errors
  BY <1>2 DEF Batch
<1> QED BY <1>1, <1>3 DEF seen

(* Counting and flushing leave the selection as it is.                      *)
Failed(b) == [b EXCEPT !.errors = @ + 1]
Skipped(b) == [b EXCEPT !.skipped = @ + 1]
Emptied(b) == [b EXCEPT !.flushed = Nothing, !.errors = @ + 1]
Filled(b, e) == [b EXCEPT !.enqueued = @ + 1, !.flushed[e] = @ + 1]
SameSelection(a, b) == a \in Batch /\ a.kind = b.kind /\ a.todo = b.todo /\ a.seen = b.seen

LEMMA Counting ==
  ASSUME NEW b \in Batch
  PROVE  /\ SameSelection(Failed(b), b) /\ Failed(b).flushed = b.flushed /\ Failed(b).errors # 0
         /\ SameSelection(Skipped(b), b) /\ Skipped(b).flushed = b.flushed
         /\ Skipped(b).errors = b.errors /\ Skipped(b).enqueued = b.enqueued
         /\ SameSelection(Emptied(b), b) /\ Emptied(b).flushed = Nothing /\ Emptied(b).errors # 0
<1> DEFINE n == b.errors + 1
           m == b.skipped + 1
<1>1. n \in Nat /\ n # 0 /\ m \in Nat
  BY DEF Batch
<1>2. /\ Failed(b) = [b EXCEPT !.errors = n] /\ Skipped(b) = [b EXCEPT !.skipped = m]
      /\ Emptied(b) = [b EXCEPT !.flushed = Nothing, !.errors = n]
  BY DEF Failed, Skipped, Emptied, Batch
<1> HIDE DEF n, m
<1>3. SameSelection(Failed(b), b) /\ Failed(b).flushed = b.flushed /\ Failed(b).errors # 0
  BY <1>1, <1>2 DEF Batch, SameSelection
<1>4. SameSelection(Skipped(b), b) /\ Skipped(b).flushed = b.flushed
        /\ Skipped(b).errors = b.errors /\ Skipped(b).enqueued = b.enqueued
  BY <1>1, <1>2 DEF Batch, SameSelection
<1>5. SameSelection(Emptied(b), b) /\ Emptied(b).flushed = Nothing /\ Emptied(b).errors # 0
  BY <1>1, <1>2, NothingFlushed DEF Batch, SameSelection
<1> QED BY <1>3, <1>4, <1>5

LEMMA Filling ==
  ASSUME NEW b \in Batch, NEW e \in Events
  PROVE  /\ SameSelection(Filled(b, e), b) /\ Filled(b, e).errors = b.errors
         /\ Filled(b, e).flushed = [b.flushed EXCEPT ![e] = @ + 1]
         /\ Filled(b, e).enqueued = b.enqueued + 1
<1> DEFINE k == b.enqueued + 1
           f == [b.flushed EXCEPT ![e] = @ + 1]
<1>1. k \in Nat /\ f \in [Events -> Nat]
  BY DEF Batch
<1>2. Filled(b, e) = [b EXCEPT !.enqueued = k, !.flushed = f]
  BY DEF Filled, Batch
<1> HIDE DEF k, f
<1>3. SameSelection(Filled(b, e), b) /\ Filled(b, e).errors = b.errors
        /\ Filled(b, e).flushed = f /\ Filled(b, e).enqueued = k
  BY <1>1, <1>2 DEF Batch, SameSelection
<1> QED BY <1>3 DEF k, f

(* The event that a fresh selection leads to has no row yet.                *)
LEMMA ReachedIsNew ==
  ASSUME BatchIInv, resend # None, NEW pk \in resend.todo, Reached(pk)
  PROVE  /\ Target(pk) \in Events \ resend.seen /\ ~Missing(pk)
         /\ resend.kind = "re-enqueue" => Target(pk) = pk
<1>1. resend \in Batch
  BY DEF BatchIInv, BatchTypeOK
<1>2. CASE resend.kind = "resend"
  <2>1. pk \in Deliveries /\ pk \in delivery /\ EventOf[pk] \notin resend.seen
    BY <1>1, <1>2 DEF BatchIInv, SelectionOK, Reached, Repeated, Missing
  <2> QED BY <1>2, <2>1, BatchAssumption DEF Target, Missing
<1>3. CASE resend.kind = "re-enqueue"
  BY <1>1, <1>3 DEF BatchIInv, SelectionOK, Target, Missing
<1> QED BY <1>1, <1>2, <1>3 DEF Batch, BatchKinds

LEMMA SelectKeeps ==
  ASSUME BatchIInv, NEW kind \in BatchKinds, NEW pks \in SUBSET (Events \cup Deliveries),
         Select(kind, pks)
  PROVE  BatchIInv'
<1> DEFINE b == [kind |-> kind, todo |-> pks, seen |-> {}, flushed |-> Nothing,
                 enqueued |-> 0, skipped |-> 0, errors |-> 0]
<1>1. /\ resend' = b /\ event' = event /\ delivery' = delivery /\ url' = url /\ report' = report
      /\ kind = "resend" => pks \subseteq Deliveries
      /\ kind = "re-enqueue" => pks \subseteq Events
  BY DEF Select, BatchIInv, BatchTypeOK, BatchKinds
<1>2. b \in Batch /\ b.kind = kind /\ b.todo = pks /\ b.seen = {} /\ b.flushed = Nothing
        /\ b.enqueued = 0 /\ b.errors = 0
  BY NothingFlushed DEF Batch
<1> HIDE DEF b
<1>3. BatchTypeOK' /\ SelectionOK' /\ CleanReportIsTrue'
  BY <1>1, <1>2 DEF BatchIInv, BatchTypeOK, SelectionOK, CleanReportIsTrue
<1>4. FlushedOnce'
  BY <1>1, <1>2, NothingFlushed DEF FlushedOnce
<1> QED BY <1>3, <1>4 DEF BatchIInv

(* Steps of the loop that force no row.                                     *)
LEMMA UnforcedKeeps ==
  ASSUME BatchIInv, resend # None, NEW pk \in resend.todo,
         Repeat(pk) \/ NotFound(pk) \/ Skip(pk) \/ Raises(pk)
  PROVE  BatchIInv'
<1>0. resend \in Batch /\ SelectionOK /\ FlushedOnce
  BY DEF BatchIInv, BatchTypeOK
<1>1. CASE Repeat(pk)
  <2> DEFINE after == [resend EXCEPT !.todo = @ \ {pk}]
  <2>1. /\ after \in Batch /\ after.kind = resend.kind /\ after.todo = resend.todo \ {pk}
        /\ after.seen = resend.seen /\ after.flushed = resend.flushed
        /\ after.errors = resend.errors /\ after.enqueued = resend.enqueued
    BY <1>0 DEF Batch
  <2>2. Process(pk, after)
    BY <1>1 DEF Repeat
  <2> HIDE DEF after
  <2> QED BY <1>0, <2>1, <2>2, ProcessKeeps DEF SelectionOK, FlushedOnce
<1>2. CASE NotFound(pk)
  <2> DEFINE after == Failed(See(pk, resend))
  <2>1. ~Missing(pk) => Target(pk) \in Events
    BY <1>0, BatchAssumption DEF Missing, Target, SelectionOK, Batch, BatchKinds
  <2>2. resend.kind = "re-enqueue" => ~Missing(pk) /\ Target(pk) = pk
    BY DEF Missing, Target
  <2>3. SameSelection(after, See(pk, resend)) /\ after.flushed = resend.flushed /\ after.errors # 0
  <3>1. See(pk, resend) \in Batch /\ See(pk, resend).flushed = resend.flushed
          /\ See(pk, resend).errors = resend.errors /\ See(pk, resend).enqueued = resend.enqueued
    BY <1>0, <2>1, SeeSees
  <3> QED BY <3>1, Counting
  <2>4. Process(pk, after)
    BY <1>2 DEF NotFound, Failed
  <2>5. /\ after \in Batch /\ after.kind = resend.kind /\ after.todo = resend.todo \ {pk}
        /\ resend.seen \subseteq after.seen
        /\ resend.kind = "re-enqueue" => after.seen = resend.seen \cup {pk}
  <3>1. /\ See(pk, resend).kind = resend.kind /\ See(pk, resend).todo = resend.todo \ {pk}
        /\ See(pk, resend).seen
             = IF Missing(pk) THEN resend.seen ELSE resend.seen \cup {Target(pk)}
    BY <1>0, <2>1, SeeSees
  <3> QED BY <2>2, <2>3, <3>1 DEF SameSelection
  <2> HIDE DEF after
  <2> QED BY <1>0, <2>3, <2>4, <2>5, ProcessKeeps DEF SelectionOK, FlushedOnce
<1>3. CASE Skip(pk)
  <2> DEFINE after == Skipped(See(pk, resend))
  <2>1. /\ Target(pk) \in Events \ resend.seen /\ ~Missing(pk)
        /\ resend.kind = "re-enqueue" => Target(pk) = pk
    BY <1>3, ReachedIsNew DEF Skip
  <2>2. /\ SameSelection(after, See(pk, resend)) /\ after.flushed = resend.flushed
        /\ after.errors = resend.errors /\ after.enqueued = resend.enqueued
  <3>1. See(pk, resend) \in Batch /\ See(pk, resend).flushed = resend.flushed
          /\ See(pk, resend).errors = resend.errors /\ See(pk, resend).enqueued = resend.enqueued
    BY <1>0, <2>1, SeeSees
  <3> QED BY <3>1, Counting
  <2>3. Process(pk, after)
    BY <1>3 DEF Skip, Skipped
  <2>4. /\ after \in Batch /\ after.kind = resend.kind /\ after.todo = resend.todo \ {pk}
        /\ after.seen = resend.seen \cup {Target(pk)}
    BY <1>0, <2>1, <2>2, SeeSees DEF SameSelection
  <2> HIDE DEF after
  <2> QED BY <1>0, <2>1, <2>2, <2>3, <2>4, ProcessKeeps DEF SelectionOK, FlushedOnce
<1>4. CASE Raises(pk)
  <2> DEFINE after == Emptied(See(pk, resend))
  <2>1. /\ Target(pk) \in Events \ resend.seen /\ ~Missing(pk)
        /\ resend.kind = "re-enqueue" => Target(pk) = pk
    BY <1>4, ReachedIsNew DEF Raises
  <2>2. SameSelection(after, See(pk, resend)) /\ after.flushed = Nothing /\ after.errors # 0
  <3>1. See(pk, resend) \in Batch /\ See(pk, resend).flushed = resend.flushed
          /\ See(pk, resend).errors = resend.errors /\ See(pk, resend).enqueued = resend.enqueued
    BY <1>0, <2>1, SeeSees
  <3> QED BY <3>1, Counting
  <2>3. Process(pk, after)
    BY <1>4 DEF Raises, Emptied
  <2>4. /\ after \in Batch /\ after.kind = resend.kind /\ after.todo = resend.todo \ {pk}
        /\ after.seen = resend.seen \cup {Target(pk)}
    BY <1>0, <2>1, <2>2, SeeSees DEF SameSelection
  <2> HIDE DEF after
  <2> QED BY <1>0, <2>1, <2>2, <2>3, <2>4, NothingFlushed, ProcessKeeps
             DEF SelectionOK, FlushedOnce
<1> QED BY <1>1, <1>2, <1>3, <1>4

(* A row more is an event more.                                             *)
LEMMA ForceKeeps ==
  ASSUME BatchIInv, resend # None, NEW pk \in resend.todo, ForceRow(pk)
  PROVE  BatchIInv'
<1> DEFINE e == Target(pk)
           after == Filled(See(pk, resend), Target(pk))
<1>0. resend \in Batch /\ SelectionOK /\ FlushedOnce
  BY DEF BatchIInv, BatchTypeOK
<1>1. /\ e \in Events \ resend.seen /\ ~Missing(pk)
      /\ resend.kind = "re-enqueue" => e = pk
  BY ReachedIsNew DEF ForceRow
<1>2. /\ after \in Batch /\ after.kind = resend.kind /\ after.todo = resend.todo \ {pk}
      /\ after.seen = resend.seen \cup {e}
      /\ after.flushed = [resend.flushed EXCEPT ![e] = @ + 1]
      /\ after.errors = resend.errors /\ after.enqueued = resend.enqueued + 1
  <2> DEFINE s == See(pk, resend)
  <2>1. /\ s \in Batch /\ s.kind = resend.kind /\ s.todo = resend.todo \ {pk}
        /\ s.seen = resend.seen \cup {e} /\ s.flushed = resend.flushed
        /\ s.enqueued = resend.enqueued /\ s.errors = resend.errors
    BY <1>0, <1>1, SeeSees
  <2> HIDE DEF s, e
  <2>2. /\ SameSelection(after, s) /\ after.errors = s.errors
        /\ after.flushed = [s.flushed EXCEPT ![e] = @ + 1] /\ after.enqueued = s.enqueued + 1
    BY <1>1, <2>1, Filling DEF s, e
  <2> HIDE DEF after
  <2> QED BY <2>1, <2>2 DEF SameSelection
<1>3. Process(pk, after)
  BY DEF ForceRow, Filled
<1>4. resend.flushed \in [Events -> Nat] /\ resend.flushed[e] = 0
  <2>1. resend.flushed \in [Events -> Nat]
    BY <1>0 DEF Batch
  <2>2. e \notin Flushed(resend.flushed)
    BY <1>0, <1>1 DEF FlushedOnce
  <2> QED BY <1>1, <2>1, <2>2 DEF Flushed
<1> HIDE DEF after, e
<1>5. Flushed(after.flushed) = Flushed(resend.flushed) \cup {e} /\ e \notin Flushed(resend.flushed)
  BY <1>1, <1>2, <1>4 DEF Flushed
<1>6. Cardinality(Flushed(after.flushed)) = Cardinality(Flushed(resend.flushed)) + 1
  <2>1. IsFiniteSet(Flushed(resend.flushed))
    BY BatchAssumption, FS_Subset DEF Flushed
  <2> QED BY <1>5, <2>1, FS_AddElement
<1>7. \A x \in Events : after.flushed[x] <= 1
  BY <1>0, <1>1, <1>2, <1>4 DEF FlushedOnce
<1> QED BY <1>0, <1>1, <1>2, <1>3, <1>5, <1>6, <1>7, ProcessKeeps DEF SelectionOK, FlushedOnce

(* The report is what the loop came to.                                     *)
LEMMA CommitBatchKeeps ==
  ASSUME BatchIInv, CommitBatch
  PROVE  BatchIInv'
<1> DEFINE r == [enqueued |-> resend.enqueued, skipped |-> resend.skipped,
                 errors |-> resend.errors, committed |-> resend.flushed,
                 notified |-> resend.enqueued > 0]
<1>1. /\ resend # None /\ resend' = None /\ report' = r
      /\ event' = event /\ delivery' = delivery /\ url' = url
  BY DEF CommitBatch
<1>2. resend \in Batch /\ FlushedOnce
  BY <1>1 DEF BatchIInv, BatchTypeOK
<1>3. r \in Report /\ r.enqueued = resend.enqueued /\ r.errors = resend.errors
        /\ r.committed = resend.flushed /\ r.notified = (resend.enqueued > 0)
  BY <1>2 DEF Batch, Report
<1> HIDE DEF r
<1>3a. r.errors = 0 => (r.notified <=> \E e \in Events : r.committed[e] > 0)
  <2>1. IsFiniteSet(Flushed(resend.flushed))
    BY BatchAssumption, FS_Subset DEF Flushed
  <2>2. /\ Cardinality(Flushed(resend.flushed)) \in Nat
        /\ Cardinality(Flushed(resend.flushed)) = 0 <=> Flushed(resend.flushed) = {}
    BY <2>1, FS_CardinalityType, FS_EmptySet
  <2>3. resend.errors = 0 => resend.enqueued = Cardinality(Flushed(resend.flushed))
    BY <1>1, <1>2 DEF FlushedOnce
  <2>4. Flushed(r.committed) # {} <=> \E e \in Events : r.committed[e] > 0
    BY DEF Flushed
  <2>5. resend.errors = 0 => (resend.enqueued > 0 <=> Flushed(resend.flushed) # {})
    BY <2>2, <2>3
  <2>6. r.notified \in BOOLEAN
    BY <1>3 DEF Report
  <2> QED BY <1>3, <2>4, <2>5, <2>6
<1>4. BatchTypeOK'
  BY <1>1, <1>3 DEF BatchIInv, BatchTypeOK
<1>5. SelectionOK' /\ FlushedOnce'
  BY <1>1 DEF SelectionOK, FlushedOnce
<1>6. CleanReportIsTrue'
  BY <1>1, <1>2, <1>3, <1>3a DEF CleanReportIsTrue, FlushedOnce, Flushed
<1> QED BY <1>4, <1>5, <1>6 DEF BatchIInv

(* Steps around an action, and those of others beside it.                   *)
LEMMA BesidesKeeps ==
  ASSUME BatchIInv,
         \/ FailBatch \/ CloseReport \/ UNCHANGED batchVars
         \/ \E e \in Events : End(e) \/ DeleteEvent(e)
         \/ \E d \in Deliveries : DeleteDelivery(d)
  PROVE  BatchIInv'
<1>1. CASE FailBatch
  BY <1>1 DEF FailBatch, BatchIInv, BatchTypeOK, SelectionOK, FlushedOnce, CleanReportIsTrue
<1>2. CASE CloseReport
  BY <1>2 DEF CloseReport, BatchIInv, BatchTypeOK, SelectionOK, FlushedOnce, CleanReportIsTrue
<1>3. CASE UNCHANGED batchVars
  BY <1>3 DEF batchVars, BatchIInv, BatchTypeOK, SelectionOK, FlushedOnce, CleanReportIsTrue
<1>4. ASSUME NEW e \in Events, End(e) \/ DeleteEvent(e) PROVE BatchIInv'
  <2>1. /\ resend' = resend /\ report' = report /\ url' = url
        /\ delivery' \subseteq delivery
        /\ event' \in [Events -> {"open", "terminal", "deleted"}]
    BY <1>4 DEF End, DeleteEvent, BatchIInv, BatchTypeOK
  <2> QED BY <2>1 DEF BatchIInv, BatchTypeOK, SelectionOK, FlushedOnce, CleanReportIsTrue
<1>5. ASSUME NEW d \in Deliveries, DeleteDelivery(d) PROVE BatchIInv'
  BY <1>5 DEF DeleteDelivery, BatchIInv, BatchTypeOK, SelectionOK, FlushedOnce, CleanReportIsTrue
<1> QED BY <1>1, <1>2, <1>3, <1>4, <1>5

THEOREM BatchInductive == BatchSpec => []BatchIInv
<1>1. BatchInit => BatchIInv
  BY DEF BatchInit, BatchIInv, BatchTypeOK, SelectionOK, FlushedOnce, CleanReportIsTrue
<1>2. BatchIInv /\ [BatchNext]_batchVars => BatchIInv'
  BY SelectKeeps, UnforcedKeeps, ForceKeeps, CommitBatchKeeps, BesidesKeeps DEF BatchNext
<1> QED BY <1>1, <1>2, PTL DEF BatchSpec

(* What "Resend" and "Re-enqueue webhook" say without an error is what they *)
(* committed (admin/views.py:323-354): a row per event, however many of its *)
(* deliveries were selected, in any order, with events that end and rows    *)
(* that are deleted under way.                                             *)
THEOREM CleanReportsAreTrue == BatchSpec => []CleanReportIsTrue
BY BatchInductive, PTL DEF BatchIInv
===============================================================================
