----------------------------- MODULE MCComponents -----------------------------
(* Small instances of nine components that keep tables of the database and *)
(* share no step, for one run.  In each behaviour one of them moves, the   *)
(* others stay as they start.                                              *)
EXTENDS SettlementPasses, TeamDirectory, MarketWriter, BetLedger, ReenqueueBatch,
        TenantKeys, PriceBoard, LeagueTables, TLC

VARIABLES
  part,
  known, jobs, crest, up, logo, run

settlementVars == <<market, status, score, rows, round>>
logoVars == <<known, jobs, crest, up, logo, run>>
-----------------------------------------------------------------------------
\* Every kind; lines that push, that cannot push, that split, and none.
MCMarkets ==
  { [kind |-> k, line |-> None, team |-> None] : k \in Kinds \ Lined }
  \cup [kind: {"SPREAD"}, line: {-4, 0, 2}, team: {None}]
  \cup [kind: {"TOTAL"}, line: {4, 6, None}, team: {None}]
  \cup [kind: {"TEAM_TOTAL"}, line: {4, 5}, team: {"HOME", "AWAY"}]

\* Both winners, a draw with and without goals, a margin on the line.
MCScores == { [home |-> 0, away |-> 0], [home |-> 1, away |-> 1],
              [home |-> 1, away |-> 0], [home |-> 0, away |-> 2] }

\* A file that grows: a club without a key, with one, and a second club.
MCFeeds == {"k" :> "C" @@ "m" :> "D", "k" :> "N" @@ "m" :> "D"}
MCRegistries == {"C" :> None @@ "D" :> None, "C" :> "k" @@ "D" :> None,
                 "C" :> "k" @@ "D" :> "m"}

\* Four books: a whole card on two lines of each kind; one with a draw, that
\* writes 3 as 3.0 and 7 as 7.0; and two with prices (that of a draw, too) and
\* lines missing.  One or two of them in any order, of a sport with a canonical
\* total or without.
MCRow(home, away, draw) == [home |-> home, away |-> away, draw |-> draw]
MCMl(home, away, draw, threeway) ==
  [home |-> home, away |-> away, draw |-> draw, threeway |-> threeway]
MCLine(number, form) == [number |-> number, form |-> form]
MCHdp(line, home, away) == [hdp |-> line, home |-> home, away |-> away]
MCOu(line, over, under) == [hdp |-> line, over |-> over, under |-> under]
MCBook(ml, handicap, totals) ==
  [ml |-> ml, handicap |-> handicap, totals |-> totals, canonical |-> 5]
MCShort(n) == MCLine(n, "short")
MCBooks ==
  {MCBook(MCMl(1, 1, None, FALSE),
          <<MCHdp(MCShort(-3), 1, 1), MCHdp(MCShort(3), 1, 1)>>,
          <<MCOu(MCShort(7), 1, 1), MCOu(MCShort(5), 1, 1)>>),
   MCBook(MCMl(2, 1, 1, TRUE), <<MCHdp(MCLine(3, "padded"), 2, 1)>>,
          <<MCOu(MCLine(7, "padded"), 2, 1)>>),
   MCBook(MCMl(None, 2, None, TRUE), <<MCHdp(MCShort(3), None, 1), MCHdp(None, 2, 2)>>,
          <<MCOu(MCShort(5), 2, None)>>),
   MCBook(None, <<MCHdp(MCShort(3), 1, None)>>, <<MCOu(None, 1, 1)>>)}
MCMedian(book) == [book EXCEPT !.canonical = None]
MCPayloads ==
  {<<f>> : f \in MCBooks} \cup {<<MCMedian(f)>> : f \in MCBooks}
  \cup {<<f, g>> : f, g \in MCBooks}

\* Of a PATCH: a verdict with a payout, with a time or without either, the way
\* back, and a payout, a time or nothing alone.
MCBodies ==
  [status: {"open", "won", "void", None}, payout: {None}, settled_at: {None}]
  \cup [status: {"won", None}, payout: {"own"}, settled_at: {None}]
  \cup [status: {"lost", None}, payout: {None}, settled_at: {"own"}]

MCEventOf == "d1" :> "e1" @@ "d2" :> "e1" @@ "d3" :> "e2"

\* Of 24: rows with and without a margin of the book, a lone favourite, and
\* two-way against three-way.
MCRows ==
  {MCRow(2, 2, None), MCRow(4, None, None), MCRow(2, 3, 3), MCRow(4, 2, 4), MCRow(None, 6, 2)}
MCModel == MCRow(11, 6, 7)

Logos == INSTANCE TeamLogos WITH
  Teams <- {"t", "u"}, Runs <- {"backfill", "get"}, Backfill <- "backfill", Forced <- FALSE

\* Two teams meet three times, one of them twice on one evening's programme;
\* ratings give the side ahead a sixth of a win more.
MCHome == <<1, 2, 3, 4, 1>>
MCAway == <<2, 1, 1, 2, 2>>
MCKickoff == <<1, 2, 3, 3, 4>>
MCResults ==
  {[home |-> 1, away |-> 0], [home |-> 0, away |-> 2], [home |-> 1, away |-> 1],
   [home |-> None, away |-> None]}
MCExpected(d) == IF d > -1 THEN 6 ELSE IF d < -1 THEN 4 ELSE 5

\* What the theorems on these components assume of their users holds here too.
ASSUME ComponentsAssumption ==
  /\ Logos!LogoAssumption
  /\ ~Overlap /\ ClubsKnown /\ ClubsListedOnce
-----------------------------------------------------------------------------
Parts == {"settlement", "directory", "logos", "writer", "ledger", "tables", "resend",
          "tenants", "board"}

\* Of a part that stays put, one of its initial states is enough.
ComponentsInit ==
  /\ part \in Parts
  /\ Init /\ DirectoryInit /\ Logos!Init /\ WriterInit /\ LedgerInit
  /\ TablesInit /\ BatchInit /\ TenantInit /\ BoardInit
  /\ part # "settlement" => market = [kind |-> "MONEYLINE", line |-> None, team |-> None]
  /\ part # "directory" => feed["k"] = "C" /\ reg = "C" :> None @@ "D" :> None
  /\ part # "logos" => crest = {} /\ up
  /\ part # "ledger" => keeps
  /\ part # "resend" => url /\ \A e \in {"e1", "e2"} : event[e] = "open"

Settles(A) ==
  /\ part = "settlement" /\ A
  /\ UNCHANGED <<part, directoryVars, logoVars, writerVars, ledgerVars, result,
                 batchVars, tenantVars, boardVars>>
Writes(A) ==
  /\ part = "writer" /\ A
  /\ UNCHANGED <<part, settlementVars, directoryVars, logoVars, ledgerVars, result,
                 batchVars, tenantVars, boardVars>>
Registers(A) ==
  /\ part = "directory" /\ A
  /\ UNCHANGED <<part, settlementVars, logoVars, writerVars, ledgerVars, result,
                 batchVars, tenantVars, boardVars>>
Fetches(A) ==
  /\ part = "logos" /\ A
  /\ UNCHANGED <<part, settlementVars, directoryVars, writerVars, ledgerVars, result,
                 batchVars, tenantVars, boardVars>>
Logs(A) ==
  /\ part = "ledger" /\ A
  /\ UNCHANGED <<part, settlementVars, directoryVars, logoVars, writerVars, result,
                 batchVars, tenantVars, boardVars>>
Finishes(A) ==
  /\ part = "tables" /\ A
  /\ UNCHANGED <<part, settlementVars, directoryVars, logoVars, writerVars, ledgerVars,
                 batchVars, tenantVars, boardVars>>
Resends(A) ==
  /\ part = "resend" /\ A
  /\ UNCHANGED <<part, settlementVars, directoryVars, logoVars, writerVars, ledgerVars,
                 result, tenantVars, boardVars>>
Admits(A) ==
  /\ part = "tenants" /\ A
  /\ UNCHANGED <<part, settlementVars, directoryVars, logoVars, writerVars, ledgerVars,
                 result, batchVars, boardVars>>
Shows(A) ==
  /\ part = "board" /\ A
  /\ UNCHANGED <<part, settlementVars, directoryVars, logoVars, writerVars, ledgerVars,
                 result, batchVars, tenantVars>>

ComponentsNext ==
  \/ Settles(Next) \/ Registers(DirectoryNext) \/ Fetches(Logos!Next) \/ Writes(WriterNext)
  \/ Logs(LedgerNext) \/ Finishes(TablesNext) \/ Resends(BatchNext)
  \/ Admits(TenantNext) \/ Shows(BoardNext)

componentsVars ==
  <<part, settlementVars, directoryVars, logoVars, writerVars, ledgerVars, result,
    batchVars, tenantVars, boardVars>>

\* The backfill starts every week, and each run goes on.
ComponentsSpec ==
  /\ ComponentsInit /\ [][ComponentsNext]_componentsVars
  /\ WF_componentsVars(Fetches(Logos!StartBackfill(FALSE)))
  /\ \A r \in {"backfill", "get"} : WF_componentsVars(Fetches(Logos!Work1(r)))
-----------------------------------------------------------------------------
\* What TeamLogos promises.
LogoArrives == part = "logos" => Logos!LogoArrives
=============================================================================
