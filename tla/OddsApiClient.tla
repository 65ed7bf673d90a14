---------------------------- MODULE OddsApiClient ----------------------------
(***************************************************************************)
(* ingest/odds_api_http.py: one GET with retry, backoff and header capture *)
(* (_send), by the clients of several task runs that share one API key and *)
(* with it one hourly bucket of requests, and the verdict that             *)
(* odds_api_quota.py reads off the captured headers. One unit of time is    *)
(* one second of the code.                                                 *)
(***************************************************************************)
EXTENDS Naturals, Nullable

CONSTANTS
  Clients,       \* task runs with a client of their own
  Limit,         \* requests the bucket holds
  Hour,          \* seconds until a drained bucket is full again
  MaxRetries,    \* AGG_ODDS_API_MAX_RETRIES
  MaxWait,       \* _MAX_RETRY_WAIT
  ThrottlePct    \* AGG_ODDSAPI_THROTTLE_PCT

VARIABLES
  left, reset,   \* the bucket: requests left, seconds until it is full again
  send,          \* per client its _send under way, or None
  hdr,           \* per client last_ratelimit_limit and last_ratelimit_remaining
  verdict        \* per client what quota_status said

clientVars == <<left, reset, send, hdr, verdict>>

Maybe(S) == S \cup {None}
Least(a, b) == IF a < b THEN a ELSE b

Calls == [attempt : 0..MaxRetries, backoff : 1..MaxWait,
          slept : 0..(MaxRetries * MaxWait), timer : Maybe(0..MaxWait)]

ASSUME ClientAssumption ==
  /\ {Limit, Hour, MaxWait} \subseteq Nat \ {0}
  /\ MaxRetries \in Nat /\ ThrottlePct \in 1..100
  /\ None \notin Nat \cup Calls

ClientTypeOK ==
  /\ left \in 0..Limit /\ reset \in 1..Hour
  /\ send \in [Clients -> Maybe(Calls)]
  /\ hdr \in [Clients -> Maybe(0..Limit)]
  /\ verdict \in [Clients -> {None, "go", "skip"}]

ClientInit ==
  /\ left = Limit /\ reset = Hour
  /\ send = [c \in Clients |-> None]
  /\ hdr = [c \in Clients |-> None]
  /\ verdict = [c \in Clients |-> None]

Ready(c) == send[c] # None /\ send[c].timer = None

(* Rate-limit headers may be missing from a response: the last ones stay. *)
Captured(c, remaining) ==
  \E h \in {hdr[c], remaining} : hdr' = [hdr EXCEPT ![c] = h]

Ask(c) ==
  /\ send[c] = None
  /\ send' = [send EXCEPT ![c] = [attempt |-> 0, backoff |-> 1, slept |-> 0,
                                  timer |-> None]]
  /\ UNCHANGED <<left, reset, hdr, verdict>>

(* The transport fails: no response and no headers, although the provider   *)
(* may have counted the request.                                            *)
TransportFails(c) ==
  /\ Ready(c)
  /\ left' \in {left} \cup (IF left > 0 THEN {left - 1} ELSE {})
  /\ send' = [send EXCEPT ![c] = None]
  /\ UNCHANGED <<reset, hdr, verdict>>

(* 200, 4xx, 5xx or a body that is not JSON: the call is over. *)
AnsweredAgain(c) ==
  /\ Ready(c) /\ left > 0
  /\ left' = left - 1
  /\ Captured(c, left - 1)
  /\ send' \in {send, [send EXCEPT ![c] = None]}
  /\ UNCHANGED <<reset, verdict>>
Answered(c) ==
  /\ Ready(c) /\ left > 0
  /\ left' = left - 1
  /\ Captured(c, left - 1)
  /\ send' = [send EXCEPT ![c] = None]
  /\ UNCHANGED <<reset, verdict>>

(* Retry-After if it is a number, else x-ratelimit-reset, else the backoff. *)
Wait(c, retryAfter, resetAt) ==
  IF retryAfter # None THEN retryAfter
  ELSE IF resetAt # None THEN resetAt ELSE send[c].backoff

(* RateLimitExceededError instead of a sleep: the wait is beyond the cap, or *)
(* the attempts are used up.                                                *)
GivesUp(c, wait) == wait > MaxWait \/ send[c].attempt >= MaxRetries

Limited(c) ==
  /\ Ready(c) /\ left = 0
  /\ Captured(c, 0)
  /\ \E retryAfter \in Maybe(0..Hour), resetAt \in {reset, None} :
       LET wait == Wait(c, retryAfter, resetAt) IN
       send' = [send EXCEPT ![c] =
         IF GivesUp(c, wait) THEN None
         ELSE [attempt |-> @.attempt + 1, timer |-> wait,
               backoff |-> Least(2 * @.backoff, MaxWait),
               slept |-> @.slept + wait]]
  /\ UNCHANGED <<left, reset, verdict>>

Wake(c) ==
  /\ send[c] # None /\ send[c].timer = 0
  /\ send' = [send EXCEPT ![c].timer = None]
  /\ UNCHANGED <<left, reset, hdr, verdict>>

(* quota_status: after a cold start's probe, whatever came of it. *)
Exhausted(remaining) ==
  /\ ThrottlePct < 100 /\ remaining # None
  /\ (Limit - remaining) * 100 >= ThrottlePct * Limit

Judge(c) ==
  /\ send[c] = None /\ verdict[c] = None
  /\ verdict' = [verdict EXCEPT ![c] = IF Exhausted(hdr[c]) THEN "skip" ELSE "go"]
  /\ UNCHANGED <<left, reset, send, hdr>>

(* The next task run builds a new client. *)
NewRun(c) ==
  /\ send[c] = None /\ verdict[c] # None
  /\ verdict' = [verdict EXCEPT ![c] = None]
  /\ hdr' = [hdr EXCEPT ![c] = None]
  /\ UNCHANGED <<left, reset, send>>

Second ==
  /\ IF reset = 1 THEN left' = Limit /\ reset' = Hour
                  ELSE reset' = reset - 1 /\ UNCHANGED left
  /\ send' = [c \in Clients |->
       IF send[c] = None \/ Ready(c) \/ send[c].timer = 0 THEN send[c]
       ELSE [send[c] EXCEPT !.timer = @ - 1]]
  /\ UNCHANGED <<hdr, verdict>>

ClientStep(c) == TransportFails(c) \/ Answered(c) \/ Limited(c) \/ Wake(c)

ClientNext == Second \/ \E c \in Clients : Ask(c) \/ ClientStep(c) \/ Judge(c) \/ NewRun(c)

ClientSpec == ClientInit /\ [][ClientNext]_clientVars
-----------------------------------------------------------------------------
(* What the exchange says of a call, read off _send.                        *)
CallsOpen == {c \in Clients : send[c] # None}
StillToWait ==
  [c \in Clients |-> IF c \notin CallsOpen \/ Ready(c) THEN 0 ELSE send[c].timer]
Refusals == [c \in Clients |-> IF c \in CallsOpen THEN send[c].attempt ELSE 0]

(* A call that meets any number of 429s costs the bucket one request at     *)
(* most, sends none before the wait it was told is over, and ends once,     *)
(* with what it has asked.                                                  *)
Exchange == INSTANCE OddsApiExchange WITH
  busy <- CallsOpen, told <- StillToWait, refused <- Refusals
ExchangeSpec == Exchange!Spec
=============================================================================
