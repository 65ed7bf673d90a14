------------------------------- MODULE BetLedger -------------------------------
(***************************************************************************)
(* The bets a user logs (api/bets.py, queries/bets.py) beside the walk     *)
(* that settles them (ingest/bet_autosettle.py). Both read rows, and write *)
(* the columns they changed when their transaction commits: the walk at    *)
(* the end of the league, a request when its session does. The session of  *)
(* db.get_session never does: it is closed behind the answer, and what was *)
(* flushed is rolled back. The one the integration tests put in its place  *)
(* keeps what it is given, as the handlers expect.                         *)
(* Payouts are known by where they come from: the stake, the win, nothing, *)
(* or an amount of the user's own.                                         *)
(***************************************************************************)
EXTENDS Naturals, FiniteSetsExt, Nullable

CONSTANTS
  Bettors, Bets,
  Types,     \* selection types, the moneyline ones by their side
  Bodies,    \* bodies of PATCH
  Codes,     \* winner codes a final event may have
  Sessions   \* do the sessions of requests keep what they flush?

BetStatuses == {"open", "won", "lost", "push", "void"}
Payouts == {"stake", "win", "zero", "own"}
Times == {"now", "own"}
WinnerCodes == [home |-> 1, away |-> 2, draw |-> 3]

VARIABLES
  bet,      \* id -> row
  request,  \* per user the PATCH or DELETE under way, or None
  walk,     \* the rows autosettle has read and what it makes of them, or None
  keeps,    \* whether a request's session keeps what it flushed
  told      \* the bets whose last answer was that they are there

ledgerVars == <<bet, request, walk, keeps, told>>

BetType ==
  [owner : Bettors, type : Types, event : BOOLEAN, status : BetStatuses,
   settled_at : Times \cup {None}, payout : Payouts \cup {None}]

ASSUME LedgerAssumption ==
  /\ None \notin Bettors \cup Bets \cup BetStatuses \cup Payouts \cup Times
  /\ None \notin BetType
  /\ IsFiniteSet(Bets) /\ IsFiniteSet(Types)
  /\ Codes \subseteq {1, 2, 3, None} /\ Sessions \subseteq BOOLEAN
  /\ \A body \in Bodies :
       /\ body.status \in BetStatuses \cup {None}
       /\ body.payout \in {"own", None} /\ body.settled_at \in {"own", None}

LedgerTypeOK ==
  /\ DOMAIN bet \subseteq Bets /\ \A b \in DOMAIN bet : bet[b] \in BetType
  /\ \A u \in Bettors : request[u] # None =>
       request[u].base \in BetType /\ request[u].want \in BetType \cup {None}
  /\ walk # None =>
       \A b \in DOMAIN walk.want : walk.base[b] \in BetType /\ walk.want[b] \in BetType
  /\ keeps \in Sessions /\ told \subseteq Bets

(* Bets that a session did not keep may be there by other ways.             *)
LedgerInit ==
  /\ keeps \in Sessions
  /\ bet \in IF keeps THEN {<<>>} ELSE UNION {[B -> [owner : Bettors, type : Types,
       event : BOOLEAN, status : {"open"}, settled_at : {None}, payout : {None}]] :
       B \in SUBSET Bets}
  /\ request = [u \in Bettors |-> None] /\ walk = None /\ told = {}
-----------------------------------------------------------------------------
CreateBet(u, b, type, event) ==
  /\ b \notin DOMAIN bet
  /\ bet' = IF ~keeps THEN bet ELSE
       [x \in DOMAIN bet \cup {b} |-> IF x \in DOMAIN bet THEN bet[x] ELSE
         [owner |-> u, type |-> type, event |-> event,
          status |-> "open", settled_at |-> None, payout |-> None]]
  /\ told' = told \cup {b}
  /\ UNCHANGED <<request, walk, keeps>>

(* A push and a void that refund nothing.                                   *)
PayoutForNoRefund(status) ==
  CASE status = "won" -> "win" [] status = "lost" -> "zero" [] OTHER -> None
PayoutFor(status) ==
  CASE status = "won" -> "win" [] status = "lost" -> "zero" [] OTHER -> "stake"

(* A PATCH with a verdict.                                                  *)
PatchDecided(row, body) ==
  [row EXCEPT !.status = body.status,
    !.settled_at = IF body.settled_at # None THEN body.settled_at ELSE "now",
    !.payout = IF body.payout # None THEN body.payout ELSE PayoutFor(body.status)]

Edited(row, body) ==
  CASE body.status = None ->
         [row EXCEPT !.payout = IF body.payout # None THEN body.payout ELSE @,
                     !.settled_at = IF body.settled_at # None THEN body.settled_at ELSE @]
    [] body.status = "open" ->
         [row EXCEPT !.status = "open", !.payout = None, !.settled_at = body.settled_at]
    [] OTHER -> PatchDecided(row, body)

(* A bet of somebody else is as good as none. *)
Owned(u, b) == b \in DOMAIN bet /\ bet[b].owner = u

UpdateBet(u, b, body) ==
  /\ request[u] = None /\ Owned(u, b)
  /\ request' = [request EXCEPT ![u] =
       [id |-> b, base |-> bet[b], want |-> Edited(bet[b], body),
        stamped |-> IF body.status \notin {None, "open"} /\ body.settled_at = None
                    THEN {"settled_at"} ELSE {}]]
  /\ UNCHANGED <<bet, walk, keeps, told>>

DeleteBet(u, b) ==
  /\ request[u] = None /\ Owned(u, b)
  /\ request' = [request EXCEPT ![u] =
       [id |-> b, base |-> bet[b], want |-> None, stamped |-> {}]]
  /\ told' = told \ {b}
  /\ UNCHANGED <<bet, walk, keeps>>

(* The columns a transaction changed, on the row as it is by now. A time    *)
(* that was taken just now differs from any that is there.                  *)
WholeRow(now, base, want, stamped) == want
Written(now, base, want, stamped) ==
  [c \in DOMAIN want |-> IF want[c] = base[c] /\ c \notin stamped THEN now[c] ELSE want[c]]

(* The request ends. With the row gone an UPDATE raises and the request fails, *)
(* a DELETE is fine.                                                       *)
CloseRequest(u) ==
  /\ request[u] # None
  /\ LET r == request[u] IN
       bet' = IF ~keeps THEN bet
              ELSE IF r.want = None THEN [x \in DOMAIN bet \ {r.id} |-> bet[x]]
              ELSE IF r.id \notin DOMAIN bet THEN bet
              ELSE [bet EXCEPT ![r.id] = Written(@, r.base, r.want, r.stamped)]
  /\ request' = [request EXCEPT ![u] = None]
  /\ UNCHANGED <<walk, keeps, told>>

(* _settle_decision; None leaves the bet to its user. *)
Decision(type, code) ==
  CASE type \notin DOMAIN WinnerCodes -> None
    [] code = None -> "void"
    [] OTHER -> IF code = WinnerCodes[type] THEN "won"
                ELSE IF code = 3 THEN "push" ELSE "lost"

Settled(row, code) ==
  [row EXCEPT !.status = Decision(row.type, code), !.settled_at = "now",
              !.payout = PayoutFor(Decision(row.type, code))]

AutoSettle(code) ==
  LET open == {b \in DOMAIN bet : bet[b].event /\ bet[b].status = "open"}
      decided == {b \in open : Decision(bet[b].type, code) # None}
  IN /\ walk = None /\ decided # {}
     /\ walk' = [base |-> [b \in decided |-> bet[b]],
                 want |-> [b \in decided |-> Settled(bet[b], code)]]
     /\ UNCHANGED <<bet, request, keeps, told>>

(* With a row gone the driver may notice, and the event's savepoint is lost. *)
WalkCommits ==
  /\ walk # None
  /\ bet' = [b \in DOMAIN bet |->
       IF b \in DOMAIN walk.want
       THEN Written(bet[b], walk.base[b], walk.want[b], {"settled_at"}) ELSE bet[b]]
  /\ walk' = None /\ UNCHANGED <<request, keeps, told>>

WalkRollsBack == walk # None /\ walk' = None /\ UNCHANGED <<bet, request, keeps, told>>

(* The event is deleted: ON DELETE SET NULL. *)
Detach ==
  /\ \E b \in DOMAIN bet : bet[b].event
  /\ bet' = [b \in DOMAIN bet |-> [bet[b] EXCEPT !.event = FALSE]]
  /\ UNCHANGED <<request, walk, keeps, told>>

LedgerNext ==
  \/ \E u \in Bettors : CloseRequest(u) \/ \E b \in Bets :
       \/ \E type \in Types, event \in BOOLEAN : CreateBet(u, b, type, event)
       \/ \E body \in Bodies : UpdateBet(u, b, body)
       \/ DeleteBet(u, b)
  \/ \E code \in Codes : AutoSettle(code)
  \/ WalkCommits \/ WalkRollsBack \/ Detach

LedgerSpec == LedgerInit /\ [][LedgerNext]_ledgerVars
-----------------------------------------------------------------------------
(* queries/bets.py: the filter of the list. *)
Mine(u) == {b \in DOMAIN bet : bet[b].owner = u}
Listed(u, filter) ==
  CASE filter = "all" -> Mine(u)
    [] filter = "settled" -> {b \in Mine(u) : bet[b].status # "open"}
    [] OTHER -> {b \in Mine(u) : bet[b].status = filter}

(* bets_summary and _roi_by_bucket, with one stake and price for all bets:   *)
(* a payout that is missing counts as nothing.                              *)
Stake == 2
Amount(payout) ==
  CASE payout = "stake" -> Stake [] payout = "win" -> 5 [] payout = "own" -> 1 [] OTHER -> 0
Paid(B) == SumFunction([b \in B |-> Amount(bet[b].payout)])
Bucket(u, type) == {b \in Listed(u, "settled") : bet[b].type = type}
Summary(u) ==
  LET settled == Listed(u, "settled")
  IN [total |-> Cardinality(Mine(u)), open |-> Cardinality(Listed(u, "open")),
      settled |-> Cardinality(UNION {Listed(u, s) : s \in BetStatuses \ {"open"}}),
      staked |-> Stake * Cardinality(settled), paid |-> Paid(settled)]
-----------------------------------------------------------------------------
(* A settled bet has a payout and a time, so that the summary, which counts *)
(* a missing payout as nothing won (api/bets.py:181), loses no money. Not   *)
(* so where requests are kept and one of them gives an open bet a payout or *)
(* a time: the walk may settle the bet while another clears that column.    *)
SettledHasPayout ==
  \A b \in DOMAIN bet : bet[b].status # "open" => bet[b].payout # None /\ bet[b].settled_at # None

(* The summary of a user leaves out no bet and no money: its counts and its *)
(* buckets add up; and as deployed, where the walk alone writes, payouts    *)
(* are all there.                                                           *)
SummaryAddsUp ==
  /\ ~keeps => SettledHasPayout
  /\ \A u \in Bettors :
       LET sum == Summary(u) IN
       /\ sum.total = sum.open + sum.settled
       /\ sum.paid = SumFunction([t \in Types |-> Paid(Bucket(u, t))])
       /\ sum.staked = SumFunction([t \in Types |-> Stake * Cardinality(Bucket(u, t))])

(* A bet that was answered with 201 is in the list the user asks for next   *)
(* (tests/integration/test_tenant_auth_bets.py, "creates + reads bets").    *)
BetKept == \A b \in told : b \in DOMAIN bet

(* Two writers of one row leave the verdict of one of them: the payout is   *)
(* that of the status, or the user's own. Not so when the walk read the bet *)
(* before two edits of it and commits between them.                         *)
OneVerdict ==
  \A b \in DOMAIN bet : bet[b].status # "open" =>
    bet[b].payout \in {"own", PayoutFor(bet[b].status)}
=============================================================================
