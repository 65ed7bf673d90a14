---------------------------- MODULE ProviderProofs ----------------------------
(***************************************************************************)
(* Theorems about the components on the provider's side: OddsApiClient for *)
(* any number of clients and retries, any bucket and any cap on the waits; *)
(* LeagueWalk for any leagues, seasons and workers; ProviderCatalog for any *)
(* bases, phases and listings, and for ids derived from bases in any way,  *)
(* colliding as they may; TeamDirectory for any names, keys and files.     *)
(***************************************************************************)
EXTENDS OddsApiClient, LeagueWalk, ProviderCatalog, TeamDirectory, FiniteSetTheorems,
        WellFoundedInduction, TLAPS

(* What a call has slept is bounded by its attempts.                        *)
SleepOK == \A c \in Clients : send[c] # None => send[c].slept <= send[c].attempt * MaxWait
ClientIInv == ClientTypeOK /\ SleepOK

LEMMA Products ==
  ASSUME NEW a \in Nat, NEW m \in Nat, NEW w \in Nat, a < m
  PROVE  (a + 1) * w = a * w + w /\ (a + 1) * w <= m * w
<1>1. PICK d \in Nat : m = (a + 1) + d
  <2> WITNESS m - (a + 1) \in Nat
  <2> QED OBVIOUS
<1>2. m * w = (a + 1) * w + d * w /\ d * w \in Nat
  BY <1>1
<1> QED BY <1>2

(* The wait before another attempt is within the cap.                       *)
LEMMA WaitsAreCapped ==
  ASSUME ClientTypeOK, NEW c \in Clients, send[c] # None,
         NEW r \in Maybe(0..Hour), NEW a \in {reset, None},
         ~GivesUp(c, Wait(c, r, a))
  PROVE  Wait(c, r, a) \in 0..MaxWait
<1>1. send[c] \in Calls
  BY DEF ClientTypeOK, Maybe
<1>2. Wait(c, r, a) \in Nat
  BY <1>1, ClientAssumption DEF Wait, Maybe, Calls, ClientTypeOK
<1> QED BY <1>2, ClientAssumption DEF GivesUp

(* What Limited makes of a call that asks again is a call.                  *)
LEMMA LimitedCall ==
  ASSUME ClientIInv, NEW c \in Clients, send[c] # None,
         NEW wait \in 0..MaxWait, send[c].attempt < MaxRetries
  PROVE  LET r == [attempt |-> send[c].attempt + 1, timer |-> wait,
                   backoff |-> Least(2 * send[c].backoff, MaxWait),
                   slept |-> send[c].slept + wait]
         IN r \in Calls /\ r.slept <= r.attempt * MaxWait
<1> DEFINE k == send[c]
<1>1. k \in Calls /\ k.slept <= k.attempt * MaxWait
  BY DEF ClientIInv, ClientTypeOK, SleepOK, Maybe
<1>2. /\ k.attempt \in Nat /\ k.slept \in Nat /\ k.backoff \in 1..MaxWait
      /\ MaxWait \in Nat \ {0} /\ MaxRetries \in Nat
  BY <1>1, ClientAssumption DEF Calls
<1>3. /\ (k.attempt + 1) * MaxWait = k.attempt * MaxWait + MaxWait
      /\ (k.attempt + 1) * MaxWait <= MaxRetries * MaxWait
  BY <1>2, Products
<1>4. k.slept + wait <= (k.attempt + 1) * MaxWait
  <2>1. k.attempt * MaxWait \in Nat
    BY <1>2
  <2> QED BY <1>1, <1>2, <1>3, <2>1
<1>5. k.slept + wait \in 0..(MaxRetries * MaxWait)
  <2>1. (k.attempt + 1) * MaxWait \in Nat /\ MaxRetries * MaxWait \in Nat
    BY <1>2
  <2> QED BY <1>2, <1>3, <1>4, <2>1
<1>6. Least(2 * k.backoff, MaxWait) \in 1..MaxWait
  BY <1>2 DEF Least
<1> QED BY <1>1, <1>2, <1>4, <1>5, <1>6 DEF Calls, Maybe

LEMMA ClientInitHolds == ClientInit => ClientIInv
BY ClientAssumption DEF ClientInit, ClientIInv, ClientTypeOK, SleepOK, Maybe

LEMMA LimitedKeeps ==
  ASSUME ClientIInv, NEW c \in Clients, Limited(c)
  PROVE  ClientIInv'
<1>1. Ready(c) /\ send[c] \in Calls
  BY ClientAssumption DEF Limited, Ready, ClientIInv, ClientTypeOK, Maybe
<1>2. PICK r \in Maybe(0..Hour), a \in {reset, None} :
        send' = [send EXCEPT ![c] =
          IF GivesUp(c, Wait(c, r, a)) THEN None
          ELSE [attempt |-> @.attempt + 1, timer |-> Wait(c, r, a),
                backoff |-> Least(2 * @.backoff, MaxWait), slept |-> @.slept + Wait(c, r, a)]]
  BY DEF Limited
<1>3. hdr' \in [Clients -> Maybe(0..Limit)]
  BY ClientAssumption DEF Limited, Captured, ClientIInv, ClientTypeOK, Maybe
<1>4. CASE GivesUp(c, Wait(c, r, a))
  BY <1>1, <1>2, <1>3, <1>4 DEF ClientIInv, ClientTypeOK, SleepOK, Maybe, Limited
<1>5. CASE ~GivesUp(c, Wait(c, r, a))
  <2> DEFINE n == [attempt |-> send[c].attempt + 1, timer |-> Wait(c, r, a),
                   backoff |-> Least(2 * send[c].backoff, MaxWait),
                   slept |-> send[c].slept + Wait(c, r, a)]
  <2>1. Wait(c, r, a) \in 0..MaxWait
    BY <1>1, <1>5, WaitsAreCapped DEF ClientIInv, Ready
  <2>2. send[c].attempt < MaxRetries
    BY <1>1, <1>5, ClientAssumption DEF GivesUp, Calls
  <2>3. n \in Calls /\ n.slept <= n.attempt * MaxWait
    BY <1>1, <2>1, <2>2, LimitedCall DEF Ready
  <2>4. send' = [send EXCEPT ![c] = n]
    BY <1>2, <1>5
  <2> HIDE DEF n
  <2> QED BY <1>3, <2>3, <2>4 DEF ClientIInv, ClientTypeOK, SleepOK, Maybe, Limited
<1> QED BY <1>4, <1>5

(* A call that goes on as it is, except that its timer runs, stays a call. *)
LEMMA SecondKeeps ==
  ASSUME ClientIInv, Second
  PROVE  ClientIInv'
<1>1. left' \in 0..Limit /\ reset' \in 1..Hour
  BY ClientAssumption DEF Second, ClientIInv, ClientTypeOK
<1>2. ASSUME NEW c \in Clients
      PROVE  /\ send'[c] \in Maybe(Calls)
             /\ send'[c] # None => send'[c].slept <= send'[c].attempt * MaxWait
  <2>1. send'[c] = IF send[c] = None \/ Ready(c) \/ send[c].timer = 0 THEN send[c]
                   ELSE [send[c] EXCEPT !.timer = @ - 1]
    BY DEF Second
  <2>2. CASE send[c] = None \/ Ready(c) \/ send[c].timer = 0
    BY <2>1, <2>2 DEF ClientIInv, ClientTypeOK, SleepOK
  <2>3. CASE ~(send[c] = None \/ Ready(c) \/ send[c].timer = 0)
    <3>1. send[c] \in Calls /\ send[c].timer \in 1..MaxWait
      BY <2>3, ClientAssumption DEF ClientIInv, ClientTypeOK, Maybe, Ready, Calls
    <3>2. send[c].slept <= send[c].attempt * MaxWait
      BY <2>3 DEF ClientIInv, SleepOK
    <3>3. send'[c] = [send[c] EXCEPT !.timer = @ - 1]
      BY <2>1, <2>3
    <3> QED BY <3>1, <3>2, <3>3, ClientAssumption DEF Calls, Maybe
  <2> QED BY <2>2, <2>3
<1>3. send' \in [Clients -> Maybe(Calls)]
  BY <1>2 DEF Second
<1> QED BY <1>1, <1>2, <1>3 DEF ClientIInv, ClientTypeOK, SleepOK, Second

LEMMA OthersKeep ==
  ASSUME ClientIInv, NEW c \in Clients,
         Ask(c) \/ TransportFails(c) \/ Answered(c) \/ Wake(c) \/ Judge(c) \/ NewRun(c)
  PROVE  ClientIInv'
<1>1. send[c] \in Maybe(Calls)
  BY DEF ClientIInv, ClientTypeOK
<1>2. CASE Ask(c)
  <2> DEFINE n == [attempt |-> 0, backoff |-> 1, slept |-> 0, timer |-> None]
  <2>1. n \in Calls /\ n.slept <= n.attempt * MaxWait
    <3>1. 0 \in 0..(MaxRetries * MaxWait)
      BY ClientAssumption
    <3> QED BY <3>1, ClientAssumption DEF Calls, Maybe
  <2>2. send' = [send EXCEPT ![c] = n]
    BY <1>2 DEF Ask
  <2> HIDE DEF n
  <2> QED BY <1>2, <2>1, <2>2 DEF Ask, ClientIInv, ClientTypeOK, SleepOK, Maybe
<1>3. CASE TransportFails(c)
  BY <1>3, ClientAssumption DEF TransportFails, ClientIInv, ClientTypeOK, SleepOK, Maybe
<1>4. CASE Answered(c)
  <2>1. left' \in 0..Limit
    BY <1>4, ClientAssumption DEF Answered, ClientIInv, ClientTypeOK
  <2>2. hdr' \in [Clients -> Maybe(0..Limit)]
    BY <1>4, <2>1 DEF Answered, Captured, ClientIInv, ClientTypeOK, Maybe
  <2> QED BY <1>4, <2>1, <2>2 DEF Answered, ClientIInv, ClientTypeOK, SleepOK, Maybe
<1>5. CASE Wake(c)
  <2>1. send[c] \in Calls
    BY <1>1, <1>5 DEF Wake, Maybe
  <2> DEFINE n == [send[c] EXCEPT !.timer = None]
  <2>2. n \in Calls /\ n.slept = send[c].slept /\ n.attempt = send[c].attempt
    BY <2>1 DEF Calls, Maybe
  <2>3. send' = [send EXCEPT ![c] = n]
    BY <1>5 DEF Wake
  <2> HIDE DEF n
  <2> QED BY <1>5, <2>1, <2>2, <2>3 DEF Wake, ClientIInv, ClientTypeOK, SleepOK, Maybe
<1>6. CASE Judge(c)
  BY <1>6 DEF Judge, ClientIInv, ClientTypeOK, SleepOK
<1>7. CASE NewRun(c)
  BY <1>7 DEF NewRun, ClientIInv, ClientTypeOK, SleepOK, Maybe
<1> QED BY <1>2, <1>3, <1>4, <1>5, <1>6, <1>7

(* Calls, headers and verdicts are what the code may have of them, and a    *)
(* call sleeps no longer than its attempts allow (_send, odds_api_http.py). *)
THEOREM ClientTypeCorrect == ClientSpec => []ClientIInv
<1>1. ClientInit => ClientIInv
  BY ClientInitHolds
<1>2. ClientIInv /\ [ClientNext]_clientVars => ClientIInv'
  <2> SUFFICES ASSUME ClientIInv, [ClientNext]_clientVars PROVE ClientIInv'
    OBVIOUS
  <2>1. CASE UNCHANGED clientVars
    BY <2>1 DEF clientVars, ClientIInv, ClientTypeOK, SleepOK
  <2> QED BY <2>1, SecondKeeps, LimitedKeeps, OthersKeep DEF ClientNext, ClientStep
<1> QED BY <1>1, <1>2, PTL DEF ClientSpec

(* A step that changes the call of one client changes what is seen of it.   *)
LEMMA OneCallSeen ==
  ASSUME ClientIInv, NEW c \in Clients,
         \A d \in Clients : d # c => send'[d] = send[d]
  PROVE  /\ send'[c] = None => CallsOpen' = CallsOpen \ {c}
         /\ send'[c] # None => CallsOpen' = CallsOpen \cup {c}
         /\ StillToWait' = [StillToWait EXCEPT ![c] =
              IF send'[c] = None \/ send'[c].timer = None THEN 0 ELSE send'[c].timer]
         /\ Refusals' = [Refusals EXCEPT ![c] =
              IF send'[c] = None THEN 0 ELSE send'[c].attempt]
<1>1. /\ send'[c] = None => CallsOpen' = CallsOpen \ {c}
      /\ send'[c] # None => CallsOpen' = CallsOpen \cup {c}
  BY DEF CallsOpen
<1> DEFINE told(q) == IF q = None \/ q.timer = None THEN 0 ELSE q.timer
           refused(q) == IF q = None THEN 0 ELSE q.attempt
<1>2. StillToWait' = [StillToWait EXCEPT ![c] = told(send'[c])]
  <2>1. StillToWait = [d \in Clients |-> told(send[d])]
    BY DEF StillToWait, CallsOpen, Ready
  <2>2. StillToWait' = [d \in Clients |-> told(send'[d])]
    BY DEF StillToWait, CallsOpen, Ready
  <2> HIDE DEF told
  <2> QED BY <2>1, <2>2
<1>3. Refusals' = [Refusals EXCEPT ![c] = refused(send'[c])]
  <2>1. Refusals = [d \in Clients |-> refused(send[d])]
    BY DEF Refusals, CallsOpen
  <2>2. Refusals' = [d \in Clients |-> refused(send'[d])]
    BY DEF Refusals, CallsOpen
  <2> HIDE DEF refused
  <2> QED BY <2>1, <2>2
<1> QED BY <1>1, <1>2, <1>3

(* A second runs for every wait at once.                                    *)
LEMMA SecondImplements ==
  ASSUME ClientIInv, Second
  PROVE  Exchange!Second
<1>1. ASSUME NEW c \in Clients
      PROVE  /\ send'[c] # None <=> send[c] # None
             /\ send[c] # None => send'[c].attempt = send[c].attempt
             /\ send[c] # None => (send'[c].timer = None <=> send[c].timer = None)
             /\ send[c] # None /\ send[c].timer # None =>
                  /\ send[c].timer \in Nat
                  /\ send'[c].timer = IF send[c].timer = 0 THEN 0 ELSE send[c].timer - 1
  <2>1. send[c] # None => send[c] \in Calls
    BY DEF ClientIInv, ClientTypeOK, Maybe
  <2>2. send'[c] = IF send[c] = None \/ Ready(c) \/ send[c].timer = 0 THEN send[c]
                   ELSE [send[c] EXCEPT !.timer = @ - 1]
    BY DEF Second
  <2>3. CASE send[c] = None \/ Ready(c) \/ send[c].timer = 0
    BY <2>1, <2>2, <2>3, ClientAssumption DEF Ready, Calls, Maybe
  <2>4. CASE ~(send[c] = None \/ Ready(c) \/ send[c].timer = 0)
    <3>1. send[c] \in Calls /\ send[c].timer \in 1..MaxWait
      BY <2>1, <2>4, ClientAssumption DEF Ready, Calls, Maybe
    <3>2. /\ send'[c] = [send[c] EXCEPT !.timer = @ - 1] /\ send'[c] \in Calls
          /\ send[c].timer - 1 \in 0..MaxWait
      BY <2>2, <2>4, <3>1, ClientAssumption DEF Calls, Maybe
    <3>3. send'[c].attempt = send[c].attempt /\ send'[c].timer = send[c].timer - 1
      BY <3>1, <3>2 DEF Calls
    <3>4. send'[c] # None /\ send[c].timer - 1 # None
      BY <3>2, ClientAssumption
    <3> QED BY <3>1, <3>2, <3>3, <3>4, ClientAssumption
  <2> QED BY <2>3, <2>4
<1>2. CallsOpen' = CallsOpen
  BY <1>1 DEF CallsOpen
<1>3. Refusals' = Refusals
  BY <1>1, <1>2 DEF Refusals, CallsOpen
<1>4. StillToWait' = [c \in Clients |-> IF StillToWait[c] = 0 THEN 0 ELSE StillToWait[c] - 1]
  BY <1>1, <1>2 DEF StillToWait, CallsOpen, Ready
<1>5. left' \in {left, Limit}
  BY DEF Second
<1> QED BY <1>2, <1>3, <1>4, <1>5 DEF Exchange!Second

LEMMA AskImplements ==
  ASSUME ClientIInv, NEW c \in Clients, Ask(c)
  PROVE  Exchange!Ask(c)
<1> DEFINE n == [attempt |-> 0, backoff |-> 1, slept |-> 0, timer |-> None]
<1>1. n # None
  <2>1. 0 \in 0..(MaxRetries * MaxWait)
    BY ClientAssumption
  <2>2. n \in Calls
    BY <2>1, ClientAssumption DEF Calls, Maybe
  <2> QED BY <2>2, ClientAssumption
<1>2. send[c] = None /\ send' = [send EXCEPT ![c] = n] /\ left' = left
  BY DEF Ask
<1>3. n.timer = None /\ n.attempt = 0
  OBVIOUS
<1> HIDE DEF n
<1>4. /\ c \notin CallsOpen /\ CallsOpen' = CallsOpen \cup {c}
      /\ StillToWait' = [StillToWait EXCEPT ![c] = 0] /\ Refusals' = [Refusals EXCEPT ![c] = 0]
  <2>1. c \notin CallsOpen
    BY <1>2 DEF CallsOpen
  <2>2. send'[c] = n /\ \A d \in Clients : d # c => send'[d] = send[d]
    BY <1>2 DEF ClientIInv, ClientTypeOK
  <2> QED BY <1>1, <1>3, <2>1, <2>2, OneCallSeen
<1>5. StillToWait[c] = 0 /\ Refusals[c] = 0
  BY <1>4 DEF StillToWait, Refusals
<1>6. StillToWait' = StillToWait /\ Refusals' = Refusals
  BY <1>4, <1>5 DEF StillToWait, Refusals
<1> QED BY <1>2, <1>4, <1>6 DEF Exchange!Ask

(* A call ends when it was about to send.                                   *)
LEMMA EndImplements ==
  ASSUME ClientIInv, NEW c \in Clients, Ready(c), send' = [send EXCEPT ![c] = None],
         left' \in {left} \cup (IF left > 0 THEN {left - 1} ELSE {})
  PROVE  Exchange!End(c)
<1>1. /\ c \in CallsOpen /\ CallsOpen' = CallsOpen \ {c} /\ StillToWait[c] = 0
      /\ StillToWait' = [StillToWait EXCEPT ![c] = 0] /\ Refusals' = [Refusals EXCEPT ![c] = 0]
  <2>1. send'[c] = None /\ \A d \in Clients : d # c => send'[d] = send[d]
    BY DEF ClientIInv, ClientTypeOK
  <2>2. c \in CallsOpen /\ StillToWait[c] = 0
    BY DEF Ready, CallsOpen, StillToWait
  <2> QED BY <2>1, <2>2, OneCallSeen
<1>2. StillToWait' = StillToWait
  BY <1>1 DEF StillToWait
<1> QED BY <1>1, <1>2 DEF Exchange!End

LEMMA LimitedImplements ==
  ASSUME ClientIInv, NEW c \in Clients, Limited(c)
  PROVE  Exchange!Refuse(c) \/ Exchange!End(c)
<1>1. Ready(c) /\ send[c] \in Calls /\ left = 0 /\ left' = left
  BY ClientAssumption DEF Limited, Ready, ClientIInv, ClientTypeOK, Maybe
<1>2. PICK r \in Maybe(0..Hour), a \in {reset, None} :
        send' = [send EXCEPT ![c] =
          IF GivesUp(c, Wait(c, r, a)) THEN None
          ELSE [attempt |-> @.attempt + 1, timer |-> Wait(c, r, a),
                backoff |-> Least(2 * @.backoff, MaxWait), slept |-> @.slept + Wait(c, r, a)]]
  BY DEF Limited
<1>3. CASE GivesUp(c, Wait(c, r, a))
  BY <1>1, <1>2, <1>3, EndImplements
<1>4. CASE ~GivesUp(c, Wait(c, r, a))
  <2> DEFINE n == [attempt |-> send[c].attempt + 1, timer |-> Wait(c, r, a),
                   backoff |-> Least(2 * send[c].backoff, MaxWait),
                   slept |-> send[c].slept + Wait(c, r, a)]
  <2>1. Wait(c, r, a) \in 0..MaxWait
    BY <1>1, <1>4, WaitsAreCapped DEF ClientIInv, Ready
  <2>2. send[c].attempt < MaxRetries
    BY <1>1, <1>4, ClientAssumption DEF GivesUp, Calls
  <2>3. n \in Calls /\ n.timer = Wait(c, r, a) /\ n.attempt = send[c].attempt + 1
    BY <1>1, <2>1, <2>2, LimitedCall DEF Ready
  <2>4. send' = [send EXCEPT ![c] = n]
    BY <1>2, <1>4
  <2> HIDE DEF n
  <2>5. n # None /\ n.timer # None
    BY <2>1, <2>3, ClientAssumption
  <2>6. /\ c \in CallsOpen /\ StillToWait[c] = 0 /\ Refusals[c] = send[c].attempt
    BY <1>1 DEF Ready, CallsOpen, StillToWait, Refusals
  <2>7. /\ CallsOpen' = CallsOpen /\ StillToWait' = [StillToWait EXCEPT ![c] = Wait(c, r, a)]
        /\ Refusals' = [Refusals EXCEPT ![c] = Refusals[c] + 1]
    <3>1. send'[c] = n /\ \A d \in Clients : d # c => send'[d] = send[d]
      BY <2>4 DEF ClientIInv, ClientTypeOK
    <3>2. CallsOpen' = CallsOpen
      <4>1. CallsOpen' = CallsOpen \cup {c}
        BY <2>5, <3>1, OneCallSeen
      <4>2. c \in CallsOpen
        BY <2>6
      <4> QED BY <4>1, <4>2
    <3> QED BY <2>3, <2>5, <2>6, <3>1, <3>2, OneCallSeen
  <2> QED BY <1>1, <2>1, <2>2, <2>6, <2>7 DEF Exchange!Refuse
<1> QED BY <1>3, <1>4

(* A wait that is over may or may not have been noticed.                    *)
LEMMA WakeImplements ==
  ASSUME ClientIInv, NEW c \in Clients, Wake(c)
  PROVE  UNCHANGED <<left, CallsOpen, StillToWait, Refusals>>
<1> DEFINE n == [send[c] EXCEPT !.timer = None]
<1>1. send[c] \in Calls /\ send[c].timer = 0 /\ c \in CallsOpen
  BY DEF Wake, ClientIInv, ClientTypeOK, Maybe, CallsOpen
<1>2. n \in Calls /\ n.timer = None /\ n.attempt = send[c].attempt
  BY <1>1 DEF Calls, Maybe
<1>3. send' = [send EXCEPT ![c] = n] /\ left' = left
  BY DEF Wake
<1> HIDE DEF n
<1>4. /\ CallsOpen' = CallsOpen /\ StillToWait' = [StillToWait EXCEPT ![c] = 0]
      /\ Refusals' = [Refusals EXCEPT ![c] = send[c].attempt]
  <2>1. n # None
    BY <1>2, ClientAssumption
  <2>2. send'[c] = n /\ \A d \in Clients : d # c => send'[d] = send[d]
    BY <1>3 DEF ClientIInv, ClientTypeOK
  <2>3. CallsOpen' = CallsOpen
    <3>1. CallsOpen' = CallsOpen \cup {c}
      BY <2>1, <2>2, OneCallSeen
    <3>2. c \in CallsOpen
      BY <1>1
    <3> QED BY <3>1, <3>2
  <2> QED BY <1>2, <2>1, <2>2, <2>3, OneCallSeen
<1>5. StillToWait[c] = 0 /\ Refusals[c] = send[c].attempt
  BY <1>1 DEF StillToWait, Refusals
<1> QED BY <1>3, <1>4, <1>5 DEF StillToWait, Refusals

(* Every step of the client is a step of an exchange, or none of it.        *)
LEMMA ClientStepImplements ==
  ASSUME ClientIInv, ClientNext
  PROVE  [Exchange!Next]_<<left, CallsOpen, StillToWait, Refusals>>
<1>1. ASSUME NEW c \in Clients, TransportFails(c) \/ Answered(c) PROVE Exchange!End(c)
  BY <1>1, EndImplements DEF TransportFails, Answered, ClientIInv, ClientTypeOK
<1>2. ASSUME NEW c \in Clients, Judge(c) \/ NewRun(c)
      PROVE  UNCHANGED <<left, CallsOpen, StillToWait, Refusals>>
  BY <1>2 DEF Judge, NewRun, CallsOpen, StillToWait, Refusals, Ready
<1> QED BY <1>1, <1>2, SecondImplements, AskImplements, LimitedImplements, WakeImplements
           DEF ClientNext, ClientStep, Exchange!Next

(* Whatever _send does between a call and its end: the call is refused so   *)
(* many times at most, keeps quiet as long as it was told, costs one        *)
(* request at most and ends once.                                           *)
THEOREM ImplementsExchange == ClientSpec => ExchangeSpec
<1>1. ClientInit => Exchange!Init
  BY DEF ClientInit, Exchange!Init, CallsOpen, StillToWait, Refusals
<1>2. ClientIInv /\ [ClientNext]_clientVars =>
        [Exchange!Next]_<<left, CallsOpen, StillToWait, Refusals>>
  <2>1. UNCHANGED clientVars => UNCHANGED <<left, CallsOpen, StillToWait, Refusals>>
    BY DEF clientVars, CallsOpen, StillToWait, Refusals, Ready
  <2> QED BY <2>1, ClientStepImplements
<1> QED BY <1>1, <1>2, ClientTypeCorrect, PTL
           DEF ClientSpec, ExchangeSpec, Exchange!Spec, Exchange!exchangeVars
-----------------------------------------------------------------------------
(* The rows of sports and leagues are switches, whatever seeds and hands do.*)
SwitchesOK == sport \in [OurSports -> Switch] /\ league \in [Leagues -> Switch]

(* Only a seed and a hand write those rows.                                 *)
LEMMA RowsWrittenBy ==
  ASSUME WalkNext
  PROVE  \/ UNCHANGED switches
         \/ \E w \in Walkers : Seed(w)
         \/ \E s \in OurSports : ToggleSport(s)
         \/ \E l \in Leagues : ToggleLeague(l)
<1>1. ASSUME NEW w \in Walkers, NEW j \in Jobs, BeginJob(w, j) PROVE UNCHANGED switches
  BY <1>1 DEF BeginJob, switches
<1>2. ASSUME NEW w \in Walkers,
             Quota(w) \/ FetchSports(w) \/ SelectDue(w) \/ Plan(w) \/ Odds(w) \/ Done(w)
               \/ ListsDone(w)
      PROVE  UNCHANGED switches
  BY <1>2 DEF Quota, FetchSports, SelectDue, Plan, Odds, Done, ListsDone, Over, switches
<1>3. ASSUME NEW w \in Walkers, NEW s, FetchList(w, s) PROVE UNCHANGED switches
  BY <1>3 DEF FetchList, switches
<1>4. ASSUME NEW w \in Walkers, NEW l, WalkLeague(w, l) PROVE UNCHANGED switches
  BY <1>4 DEF WalkLeague, Over, switches
<1>5. CASE SeasonMoves \/ Refill
  BY <1>5 DEF SeasonMoves, Refill, switches
<1> QED BY <1>1, <1>2, <1>3, <1>4, <1>5 DEF WalkNext, WorkerStep

(* A seed turns nothing on or off that was there.                           *)
LEMMA SeedKeepsSwitches ==
  ASSUME SwitchesOK, NEW w \in Walkers, Seed(w)
  PROVE  /\ SwitchesOK'
         /\ \A s \in OurSports : sport'[s] # sport[s] => sport'[s] = "off" /\ sport[s] = "absent"
         /\ \A l \in Leagues :
              league'[l] # league[l] => league'[l] = "off" /\ league[l] = "absent"
<1>1. /\ sport' = sport \/ sport' = [s \in OurSports |-> Inserted(sport[s])]
      /\ \/ league' = league
         \/ league' = [l \in Leagues |->
              IF sport'[SportOf[l]] = "on" /\ Matches(w, l) # <<>>
              THEN Inserted(league[l]) ELSE league[l]]
  BY DEF Seed
<1>2. \A flag \in Switch :
        Inserted(flag) \in Switch /\ (Inserted(flag) # flag => flag = "absent" /\ Inserted(flag) = "off")
  BY DEF Inserted, Switch
<1> QED BY <1>1, <1>2 DEF SwitchesOK

LEMMA TogglesKeepSwitches ==
  ASSUME SwitchesOK,
         (\E s \in OurSports : ToggleSport(s)) \/ (\E l \in Leagues : ToggleLeague(l))
  PROVE  SwitchesOK' /\ UNCHANGED run
BY DEF SwitchesOK, ToggleSport, ToggleLeague, Flip, Switch

(* Rows of sports and leagues are absent, off or on, for any constants.     *)
THEOREM SwitchesCorrect == WalkSpec => []SwitchesOK
<1>1. WalkInit => SwitchesOK
  BY DEF WalkInit, SwitchesOK, Switch
<1>2. SwitchesOK /\ [WalkNext]_walkVars => SwitchesOK'
  <2>1. SwitchesOK /\ UNCHANGED switches => SwitchesOK'
    BY DEF SwitchesOK, switches
  <2>2. SwitchesOK /\ UNCHANGED walkVars => SwitchesOK'
    BY <2>1 DEF walkVars
  <2> QED BY <2>1, <2>2, RowsWrittenBy, SeedKeepsSwitches, TogglesKeepSwitches
<1> QED BY <1>1, <1>2, PTL DEF WalkSpec

(* seed_all (seed.py:29-148) brings rows in switched off and touches none   *)
(* that is there, between any steps of walks, of other seeds and of the     *)
(* operator: what a hand has switched only a hand switches back.           *)
THEOREM HandsDecide == WalkSpec => TogglesStick
<1> DEFINE Kept ==
      /\ \A s \in OurSports : sport'[s] # sport[s] =>
           (sport'[s] = "off" /\ sport[s] = "absent") \/ UNCHANGED run
      /\ \A l \in Leagues : league'[l] # league[l] =>
           (league'[l] = "off" /\ league[l] = "absent") \/ UNCHANGED run
<1>1. SwitchesOK /\ [WalkNext]_walkVars => [Kept]_switches
  <2> SUFFICES ASSUME SwitchesOK, [WalkNext]_walkVars, ~UNCHANGED switches PROVE Kept
    OBVIOUS
  <2>1. WalkNext
    BY DEF walkVars
  <2> QED BY <2>1, RowsWrittenBy, SeedKeepsSwitches, TogglesKeepSwitches
<1> QED BY <1>1, SwitchesCorrect, PTL DEF WalkSpec, TogglesStick
-----------------------------------------------------------------------------
(* What the generator never lets go of: leagues have slugs of their own,    *)
(* and the draft holds all that is written, under the same ids.            *)
Extends(f, g) == \A i \in DOMAIN f : i \in DOMAIN g /\ g[i] = f[i]
CatalogIInv == Injective(slugOf) /\ Injective(draft) /\ Extends(slugOf, draft)

(* A league that is new to the draft keeps slugs apart and ids in place.    *)
LEMMA AddKeeps ==
  ASSUME NEW s, NEW g, CatalogIInv, Add(s, g)
  PROVE  Injective(draft') /\ Extends(draft, draft')
<1> DEFINE n == NewId(g.base)
<1>1. ~Knows(g.base) /\ ~Taken(n, g.base) /\ draft' = Put(draft, n, BaseSlug(g.base))
  BY DEF Add
<1>2. n \notin DOMAIN draft
  BY <1>1 DEF Knows, Taken
<1>3. /\ DOMAIN draft' = DOMAIN draft \cup {n} /\ draft'[n] = BaseSlug(g.base)
      /\ \A i \in DOMAIN draft : draft'[i] = draft[i]
  BY <1>1, <1>2 DEF Put
<1>4. \A i \in DOMAIN draft : draft[i] # BaseSlug(g.base)
  BY <1>1 DEF Knows
<1>5. Injective(draft')
  BY <1>3, <1>4 DEF Injective, CatalogIInv
<1> QED BY <1>3, <1>5 DEF Extends

(* The invariant holds when the repository's catalog is all there is.       *)
LEMMA CatalogInitHolds == CatalogInit => CatalogIInv
BY CatalogAssumption DEF CatalogInit, CatalogIInv, Extends

(* No step of a build, finished or given up, breaks it.                     *)
LEMMA CatalogStepKeeps == CatalogIInv /\ [CatalogNext]_catalogVars => CatalogIInv'
<1> SUFFICES ASSUME CatalogIInv, [CatalogNext]_catalogVars PROVE CatalogIInv'
  OBVIOUS
<1>1. ASSUME NEW listing \in Listings, BeginBuild(listing) PROVE CatalogIInv'
  BY <1>1 DEF BeginBuild, CatalogIInv, Extends, Injective
<1>2. ASSUME NEW s, NEW g, Collapse(s, g) \/ Collides(s, g) PROVE CatalogIInv'
  BY <1>2 DEF Collapse, Collides, CatalogIInv, Extends, Injective
<1>3. ASSUME NEW s, NEW g, Add(s, g) PROVE CatalogIInv'
  <2>1. Injective(draft') /\ Extends(draft, draft')
    BY <1>3, AddKeeps
  <2>2. slugOf' = slugOf
    BY <1>3 DEF Add
  <2> QED BY <2>1, <2>2 DEF CatalogIInv, Extends, Injective
<1>4. CASE WriteCatalog
  BY <1>4 DEF WriteCatalog, CatalogIInv, Extends, Injective
<1>5. CASE UNCHANGED catalogVars
  BY <1>5 DEF catalogVars, CatalogIInv, Extends, Injective
<1> QED BY <1>1, <1>2, <1>3, <1>4, <1>5 DEF CatalogNext

THEOREM CatalogInductive == CatalogSpec => []CatalogIInv
BY CatalogInitHolds, CatalogStepKeeps, PTL DEF CatalogSpec

(* Catalogs hold ids, slugs and sports of theirs, for all constants:        *)
(* build_catalog of catalog_build.py.                                      *)
THEOREM CatalogTypeCorrect == CatalogSpec => []CatalogTypeOK
<1>1. CatalogInit => CatalogTypeOK
  BY CatalogAssumption DEF CatalogInit, CatalogTypeOK, Slugs, BaseSlug
<1>2. CatalogTypeOK /\ [CatalogNext]_catalogVars => CatalogTypeOK'
  <2> SUFFICES ASSUME CatalogTypeOK, [CatalogNext]_catalogVars PROVE CatalogTypeOK'
    OBVIOUS
  <2>1. ASSUME NEW listing \in Listings, BeginBuild(listing) PROVE CatalogTypeOK'
    BY <2>1, CatalogAssumption DEF BeginBuild, CatalogTypeOK
  <2>2. ASSUME NEW s \in Sports, NEW g \in Slugs, unseen # None, Collapse(s, g) PROVE CatalogTypeOK'
    BY <2>2 DEF Collapse, CatalogTypeOK, Put
  <2>3. ASSUME NEW s \in Sports, NEW g \in Slugs, unseen # None, Add(s, g) PROVE CatalogTypeOK'
    <3>1. NewId(g.base) \in Ids /\ BaseSlug(g.base) \in Slugs
      BY CatalogAssumption DEF NewId, Slugs, BaseSlug
    <3> QED BY <2>3, <3>1 DEF Add, CatalogTypeOK, Put
  <2>4. ASSUME NEW s, NEW g, Collides(s, g) PROVE CatalogTypeOK'
    BY <2>4 DEF Collides, CatalogTypeOK
  <2>5. CASE WriteCatalog
    BY <2>5 DEF WriteCatalog, CatalogTypeOK
  <2>6. CASE UNCHANGED catalogVars
    BY <2>6 DEF catalogVars, CatalogTypeOK
  <2> QED BY <2>1, <2>2, <2>3, <2>4, <2>5, <2>6 DEF CatalogNext
<1> QED BY <1>1, <1>2, PTL DEF CatalogSpec

(* However often the catalog is generated anew, a published id keeps its    *)
(* league (catalog_build.py:64-70).                                        *)
THEOREM PublishedIdsStick == CatalogSpec => IdsStick
<1>1. CatalogIInv /\ [CatalogNext]_catalogVars =>
        [\A i \in DOMAIN slugOf : i \in DOMAIN slugOf' /\ slugOf'[i] = slugOf[i]]_catalogVars
  <2> SUFFICES ASSUME CatalogIInv, CatalogNext
               PROVE  \A i \in DOMAIN slugOf : i \in DOMAIN slugOf' /\ slugOf'[i] = slugOf[i]
    OBVIOUS
  <2>1. slugOf' = slugOf \/ slugOf' = draft
    BY DEF CatalogNext, BeginBuild, Collapse, Add, Collides, WriteCatalog
  <2> QED BY <2>1 DEF CatalogIInv, Extends
<1> QED BY <1>1, CatalogInductive, PTL DEF CatalogSpec, IdsStick

(* match_league_slug answers with one league at most, whatever the order of *)
(* the dictionary it goes through.                                         *)
THEOREM MatchIsUnique == CatalogSpec => []OneLeaguePerSlug
<1>1. CatalogIInv => OneLeaguePerSlug
  BY DEF CatalogIInv, Injective, OneLeaguePerSlug, Match, Exact, ByPattern
<1> QED BY <1>1, CatalogInductive, PTL
-----------------------------------------------------------------------------
(* Team rows. A row belongs to one club: its primary key, its id and its    *)
(* key at the provider are those of the club its name is of.                *)
ClubOf(Club, x) == IF x \in ProviderKeys THEN x ELSE Club[x]
RowOK(Club, p, row) ==
  /\ row \in Team
  /\ Club[row.canonical_name] = ClubOf(Club, p)
  /\ ClubOf(Club, row.team_id) = ClubOf(Club, p)
  /\ row.odds_api_io_key \in {None, row.team_id}
TeamsOK(Club, t) ==
  /\ t = [p \in DOMAIN t |-> t[p]] /\ DOMAIN t \subseteq TeamIds
  /\ \A p \in DOMAIN t : RowOK(Club, p, t[p])
  /\ \A p, q \in DOMAIN t : t[p].canonical_name = t[q].canonical_name => p = q

(* One transaction at a time, on the rows as they are.                      *)
TxsOK(Club) ==
  /\ tx = [s \in TeamWriters |-> tx[s]]
  /\ \A s \in TeamWriters : tx[s] # None =>
       /\ tx[s].base = team /\ DOMAIN team \subseteq DOMAIN tx[s].want
       /\ TeamsOK(Club, tx[s].want)
  /\ \A s, o \in TeamWriters : tx[s] # None /\ tx[o] # None => s = o
DirectoryIInv(Club) ==
  /\ TeamsOK(Club, team) /\ Unique(team)
  /\ feed \in Feeds /\ reg \in Registries /\ loaded \in Registries \cup {None}
  /\ TxsOK(Club)

(* A numbered set has an element with the least number.                     *)
LEMMA SomeoneIsLast ==
  ASSUME NEW S, IsFiniteSet(S), NEW E \in SUBSET S, E # {}, NEW fromEnd \in Orders(S)
  PROVE  LastOf(E, fromEnd) \in E
<1> DEFINE T == {fromEnd[c] : c \in E}  R == OpToRel(<, Nat)
<1>1. T \subseteq Nat /\ T # {}
  BY FS_CardinalityType DEF Orders
<1>2. \E n \in T : \A m \in T : <<m, n>> \notin R
  <2> HIDE DEF R, T
  <2>1. IsWellFoundedOn(R, Nat)
    BY NatLessThanWellFounded DEF R
  <2> QED BY <1>1, <2>1, WFMin
<1>3. \A m, n \in Nat : <<m, n>> \notin R => n <= m
  BY DEF OpToRel
<1> HIDE DEF R
<1>4. PICK c \in E : \A d \in E : <<fromEnd[d], fromEnd[c]>> \notin R
  BY <1>2
<1>5. \A d \in E : fromEnd[c] <= fromEnd[d]
  BY <1>1, <1>3, <1>4
<1> QED BY <1>5 DEF LastOf

(* What a walk makes of the rows.                                           *)
LEMMA WalkWants ==
  ASSUME NEW Club \in [Names -> ProviderKeys], ClubsAgree(Club),
         TeamsOK(Club, team), feed \in Feeds, NEW k \in ProviderKeys,
         NEW t \in WalkUpserts(k, feed[k])
  PROVE  TeamsOK(Club, t) /\ DOMAIN team \subseteq DOMAIN t
<1> DEFINE n == feed[k]
<1>1. n \in Names /\ Club[n] = k /\ Names \cap ProviderKeys = {}
  BY DirectoryAssumption DEF ClubsAgree
<1>2. CASE FeedRow(k, n) = {}
  <2> DEFINE new == [team_id |-> k, canonical_name |-> n, odds_api_io_key |-> k]
  <2>1. t = [x \in DOMAIN team \cup {k} |-> IF x = k THEN new ELSE team[x]]
    BY <1>2 DEF WalkUpserts, Put
  <2>2. k \notin DOMAIN team /\ \A q \in DOMAIN team : team[q].canonical_name # n
    BY <1>2 DEF FeedRow, ByPk, ByName
  <2>3. RowOK(Club, k, new) /\ new.canonical_name = n
    BY <1>1 DEF RowOK, ClubOf, Team, TeamIds
  <2> HIDE DEF new, n
  <2> QED BY <2>1, <2>2, <2>3 DEF TeamsOK, TeamIds
<1>3. ASSUME NEW p \in FeedRow(k, n), t = [team EXCEPT ![p] = Surfaced(team[p], k)]
      PROVE  TeamsOK(Club, t) /\ DOMAIN team \subseteq DOMAIN t
  <2>1. p \in DOMAIN team /\ RowOK(Club, p, team[p])
    BY DEF FeedRow, ByPk, ByName, TeamsOK
  <2>2. ClubOf(Club, p) = k
    <3>1. p = k \/ team[p].canonical_name = n
      BY DEF FeedRow, ByPk, ByName
    <3> QED BY <1>1, <2>1, <3>1 DEF RowOK, ClubOf
  <2> DEFINE new == Surfaced(team[p], k)
  <2>3. RowOK(Club, p, new) /\ new.canonical_name = team[p].canonical_name
    <3>1. /\ new \in Team /\ new.team_id = k
          /\ new.canonical_name = team[p].canonical_name
          /\ new.odds_api_io_key \in {k, team[p].odds_api_io_key}
          /\ new.odds_api_io_key # None \/ k = None
      BY <2>1 DEF Surfaced, RowOK, Team, TeamIds
    <3>2. team[p].odds_api_io_key \in {None, k}
      BY <2>1, <2>2 DEF RowOK, ClubOf, Team, TeamIds
    <3> QED BY <2>1, <2>2, <3>1, <3>2 DEF RowOK, ClubOf
  <2>4. t = [q \in DOMAIN team |-> IF q = p THEN new ELSE team[q]]
    BY <1>3, <2>1 DEF TeamsOK
  <2> HIDE DEF new
  <2> QED BY <2>1, <2>3, <2>4 DEF TeamsOK
<1> QED BY <1>2, <1>3 DEF WalkUpserts

(* The row an entry reaches is one of its club.                             *)
LEMMA ReachesItsClub ==
  ASSUME NEW Club \in [Names -> ProviderKeys], ClubsAgree(Club), TeamsOK(Club, team),
         NEW file \in Registries, NEW c \in DOMAIN file, NEW p \in EntryIds(c, file[c])
  PROVE  /\ p \in TeamIds /\ ClubOf(Club, p) = Club[c]
         /\ file[c] \in ProviderKeys \cup {None} /\ c \in Names
         /\ file[c] # None => file[c] = Club[c]
         /\ (\E q \in DOMAIN team : team[q].canonical_name = c) => p \in ByName(team, c)
<1>1. /\ c \in Names /\ file[c] \in ProviderKeys \cup {None} /\ None \notin ProviderKeys
      /\ file[c] # None => file[c] = Club[c]
      /\ Names \cap ProviderKeys = {}
  BY DirectoryAssumption DEF ClubsAgree
<1>2. CASE p \in ByName(team, c)
  BY <1>1, <1>2 DEF ByName, TeamsOK, RowOK
<1>3. CASE ByName(team, c) = {}
  <2>1. CASE file[c] = None
    <3>1. p = c
      BY <1>3, <2>1 DEF EntryIds, EntryRow, ByPk
    <3> QED BY <1>1, <1>3, <3>1 DEF ClubOf, TeamIds, ByName
  <2>2. CASE file[c] # None
    <3>1. \/ p \in DOMAIN team /\ team[p].team_id = file[c]
          \/ p = file[c]
      BY <1>3, <2>2 DEF EntryIds, EntryRow, ByPk, ByTeamId
    <3>2. ClubOf(Club, p) = Club[c] /\ p \in TeamIds
      BY <1>1, <2>2, <3>1 DEF ClubOf, TeamIds, TeamsOK, RowOK
    <3> QED BY <1>1, <1>3, <3>2 DEF ByName
  <2> QED BY <2>1, <2>2
<1> QED BY <1>2, <1>3 DEF EntryIds, EntryRow

(* What the entries leave of a row, by any of them in any order.            *)
LEMMA RowLeft ==
  ASSUME NEW Club \in [Names -> ProviderKeys], ClubsAgree(Club), TeamsOK(Club, team),
         NEW file \in Registries, NEW at \in Reaches(file), NEW fromEnd \in Orders(DOMAIN file),
         NEW p, At(at, p) # {}
  PROVE  \E c \in At(at, p) :
           /\ AfterLoad(file, at, fromEnd)[p].canonical_name = c
           /\ AfterLoad(file, at, fromEnd)[p].odds_api_io_key = file[c]
           /\ RowOK(Club, p, AfterLoad(file, at, fromEnd)[p])
           /\ p \in DOMAIN AfterLoad(file, at, fromEnd)
<1> DEFINE E == At(at, p)  c == LastOf(E, fromEnd)
           keyed == {d \in E : file[d] # None}
           row == AfterLoad(file, at, fromEnd)[p]
<1>1. /\ E \subseteq DOMAIN file /\ IsFiniteSet(DOMAIN file)
      /\ \A d \in E : at[d] = p /\ p \in EntryIds(d, file[d])
  BY DirectoryAssumption DEF At, Reaches
<1>2. c \in E
  BY <1>1, SomeoneIsLast
<1>3. p \in {at[d] : d \in DOMAIN file}
  BY <1>1, <1>2
<1>4. row = EntryWrites(p, c, file[c], LastKey(file, E, fromEnd))
      /\ p \in DOMAIN AfterLoad(file, at, fromEnd)
  BY <1>3 DEF AfterLoad
<1>5. /\ p \in TeamIds /\ c \in Names /\ ClubOf(Club, p) = Club[c]
      /\ file[c] \in ProviderKeys \cup {None}
      /\ \A d \in E : file[d] # None => file[d] = ClubOf(Club, p)
      /\ None \notin ProviderKeys
  BY <1>1, <1>2, ReachesItsClub, DirectoryAssumption
<1> DEFINE k == LastKey(file, E, fromEnd)
<1>6. /\ k \in {None, ClubOf(Club, p)}
      /\ file[c] # None => k = file[c]
  <2>1. CASE keyed = {}
    BY <1>2, <2>1 DEF LastKey
  <2>2. CASE keyed # {}
    <3>1. LastOf(keyed, fromEnd) \in keyed
      BY <1>1, <2>2, SomeoneIsLast
    <3>2. k = file[LastOf(keyed, fromEnd)]
      BY <2>2 DEF LastKey
    <3> QED BY <1>2, <1>5, <3>1, <3>2
  <2> QED BY <2>1, <2>2
<1> DEFINE id == IF k # None THEN k ELSE IF p \in DOMAIN team THEN team[p].team_id ELSE p
<1>7. row = [team_id |-> id, canonical_name |-> c, odds_api_io_key |-> file[c]]
  BY <1>4 DEF EntryWrites
<1> HIDE DEF k, c, E, keyed, row
<1>8. id \in TeamIds /\ ClubOf(Club, id) = ClubOf(Club, p)
  <2>1. CASE k # None
    <3>1. ClubOf(Club, p) \in ProviderKeys
      BY <1>5 DEF ClubOf
    <3> QED BY <1>6, <2>1, <3>1 DEF ClubOf, TeamIds
  <2>2. CASE k = None /\ p \in DOMAIN team
    BY <2>2 DEF TeamsOK, RowOK, Team
  <2>3. CASE k = None /\ p \notin DOMAIN team
    BY <1>5, <2>3
  <2> QED BY <2>1, <2>2, <2>3
<1>9. file[c] \in {None, id}
  BY <1>6
<1> HIDE DEF id
<1>10. RowOK(Club, p, row)
  BY <1>5, <1>7, <1>8, <1>9 DEF RowOK, Team
<1> QED BY <1>2, <1>4, <1>7, <1>10 DEF row, E

LEMMA LoadWants ==
  ASSUME NEW Club \in [Names -> ProviderKeys], ClubsAgree(Club), TeamsOK(Club, team),
         NEW file \in Registries, NEW t \in Applied(file)
  PROVE  TeamsOK(Club, t) /\ DOMAIN team \subseteq DOMAIN t
<1>1. PICK at \in Reaches(file), fromEnd \in Orders(DOMAIN file) :
        t = AfterLoad(file, at, fromEnd)
  BY DEF Applied
<1>2. /\ t = [p \in DOMAIN t |-> t[p]] /\ DOMAIN team \subseteq DOMAIN t
      /\ DOMAIN t = DOMAIN team \cup {at[c] : c \in DOMAIN file}
      /\ \A p \in DOMAIN t : At(at, p) = {} => p \in DOMAIN team /\ t[p] = team[p]
  BY <1>1 DEF AfterLoad, At, Reaches
<1>3. DOMAIN t \subseteq TeamIds
  BY <1>2 DEF Reaches, TeamsOK
<1>4. \A p \in DOMAIN t : At(at, p) # {} =>
        \E c \in At(at, p) : t[p].canonical_name = c /\ RowOK(Club, p, t[p])
  BY <1>1, RowLeft
<1>5. \A p \in DOMAIN t : RowOK(Club, p, t[p])
  BY <1>2, <1>4 DEF TeamsOK
<1>6. ASSUME NEW p \in DOMAIN t, NEW q \in DOMAIN t,
             t[p].canonical_name = t[q].canonical_name, At(at, p) # {}
      PROVE  p = q
  <2>1. t[p].canonical_name \in DOMAIN file /\ at[t[p].canonical_name] = p
    BY <1>4, <1>6 DEF At, Reaches
  <2>2. CASE At(at, q) # {}
    <3>1. at[t[q].canonical_name] = q
      BY <1>4, <2>2 DEF At
    <3> QED BY <1>6, <2>1, <3>1
  <2>3. CASE At(at, q) = {}
    <3> DEFINE c == t[p].canonical_name
    <3>1. q \in DOMAIN team /\ team[q].canonical_name = c
      BY <1>2, <1>6, <2>3
    <3>2. p \in EntryIds(c, file[c])
      BY <2>1 DEF Reaches
    <3>3. p \in ByName(team, c)
      BY <2>1, <3>1, <3>2, ReachesItsClub
    <3> QED BY <3>1, <3>3 DEF ByName, TeamsOK
  <2> QED BY <2>2, <2>3
<1>7. \A p, q \in DOMAIN t : t[p].canonical_name = t[q].canonical_name => p = q
  <2> SUFFICES ASSUME NEW p \in DOMAIN t, NEW q \in DOMAIN t,
                      t[p].canonical_name = t[q].canonical_name
               PROVE  p = q
    OBVIOUS
  <2>1. CASE At(at, p) # {} \/ At(at, q) # {}
    BY <1>6, <2>1
  <2>2. CASE At(at, p) = {} /\ At(at, q) = {}
    BY <1>2, <2>2 DEF TeamsOK
  <2> QED BY <2>1, <2>2
<1> QED BY <1>2, <1>3, <1>5, <1>7 DEF TeamsOK

(* A transaction on rows nobody else has written leaves what it wants.      *)
LEMMA MergedIsWanted ==
  ASSUME NEW Club, TeamsOK(Club, team), NEW t, TeamsOK(Club, t), DOMAIN team \subseteq DOMAIN t
  PROVE  Merged(team, t) = t
<1>1. ASSUME NEW p \in DOMAIN team
      PROVE  [f \in DOMAIN team[p] |-> Column(team[p][f], t[p][f], team[p][f])] = t[p]
  <2>1. team[p] \in Team /\ t[p] \in Team
    BY DEF TeamsOK, RowOK
  <2> DEFINE D == {"team_id", "canonical_name", "odds_api_io_key"}
  <2>2. DOMAIN team[p] = D /\ t[p] = [f \in D |-> t[p][f]]
    BY <2>1 DEF Team
  <2>3. \A f \in D : Column(team[p][f], t[p][f], team[p][f]) = t[p][f]
    BY DEF Column
  <2> HIDE DEF D
  <2> QED BY <2>2, <2>3
<1>2. Merged(team, t) = [p \in DOMAIN t |-> IF p \notin DOMAIN team THEN t[p] ELSE
                           [f \in DOMAIN team[p] |-> Column(team[p][f], t[p][f], team[p][f])]]
  BY DEF Merged
<1>3. Merged(team, t) = [p \in DOMAIN t |-> t[p]]
  BY <1>1, <1>2
<1> QED BY <1>3 DEF TeamsOK

LEMMA OpensOK ==
  ASSUME NEW Club \in [Names -> ProviderKeys], ~Overlap, DirectoryIInv(Club),
         NEW s \in TeamWriters, NEW wanted, MayOpen(s), OpenTx(s, wanted),
         UNCHANGED <<team, feed, reg, loaded>>,
         \A t \in wanted : TeamsOK(Club, t) /\ DOMAIN team \subseteq DOMAIN t
  PROVE  DirectoryIInv(Club)'
<1>1. PICK t \in wanted : tx' = [tx EXCEPT ![s] = [base |-> team, want |-> t]]
  BY DEF OpenTx
<1>2. \A o \in TeamWriters : tx[o] = None
  BY DEF MayOpen
<1>3. \A o \in TeamWriters : tx'[o] = IF o = s THEN [base |-> team, want |-> t] ELSE None
  BY <1>1, <1>2 DEF DirectoryIInv, TxsOK
<1>4. tx' = [o \in TeamWriters |-> tx'[o]]
  BY <1>1 DEF DirectoryIInv, TxsOK
<1>5. TxsOK(Club)'
  BY <1>3, <1>4 DEF TxsOK, TeamsOK
<1> QED BY <1>5 DEF DirectoryIInv, TeamsOK, Unique

LEMMA DirectoryStep ==
  ASSUME NEW Club \in [Names -> ProviderKeys], ClubsAgree(Club), ~Overlap,
         DirectoryIInv(Club), [DirectoryNext]_directoryVars
  PROVE  DirectoryIInv(Club)'
<1>1. ASSUME NEW k \in ProviderKeys, WalkTeam(k) PROVE DirectoryIInv(Club)'
  <2>1. \A t \in WalkUpserts(k, feed[k]) : TeamsOK(Club, t) /\ DOMAIN team \subseteq DOMAIN t
    BY WalkWants DEF DirectoryIInv
  <2> QED BY <1>1, <2>1, OpensOK DEF WalkTeam, TeamWriters
<1>2. CASE LoadRegistry
  <2>1. \A t \in Applied(reg) : TeamsOK(Club, t) /\ DOMAIN team \subseteq DOMAIN t
    BY LoadWants DEF DirectoryIInv
  <2> QED BY <1>2, <2>1, OpensOK DEF LoadRegistry, TeamWriters
<1>3. CASE FeedChanges \/ FileChanges
  BY <1>3 DEF FeedChanges, FileChanges, DirectoryIInv, TxsOK, TeamsOK, Unique
<1>4. ASSUME NEW s \in TeamWriters, CommitTeams(s) PROVE DirectoryIInv(Club)'
  <2> DEFINE t == tx[s].want
  <2>1. /\ tx[s] # None /\ tx[s].base = team /\ DOMAIN team \subseteq DOMAIN t
        /\ TeamsOK(Club, t)
    BY <1>4 DEF CommitTeams, DirectoryIInv, TxsOK
  <2>2. Merged(tx[s].base, t) = t
    BY <2>1, MergedIsWanted DEF DirectoryIInv
  <2>3. team' = t /\ Unique(t) /\ tx' = [tx EXCEPT ![s] = None]
        /\ feed' = feed /\ reg' = reg /\ loaded' \in {reg, loaded, None}
    BY <1>4, <2>2 DEF CommitTeams, Accepted
  <2>4. tx' = [o \in TeamWriters |-> None]
    BY <2>1, <2>3 DEF DirectoryIInv, TxsOK
  <2>5. TxsOK(Club)'
    BY <2>4 DEF TxsOK
  <2>6. TeamsOK(Club, team)' /\ Unique(team)'
    BY <2>1, <2>3 DEF TeamsOK, Unique
  <2> QED BY <2>3, <2>5, <2>6 DEF DirectoryIInv
<1>5. ASSUME NEW s \in TeamWriters, RefusedTeams(s) PROVE DirectoryIInv(Club)'
  <2>1. UNCHANGED <<team, feed, reg, loaded>> /\ tx' = [tx EXCEPT ![s] = None]
    BY <1>5 DEF RefusedTeams
  <2>2. tx' = [o \in TeamWriters |-> tx'[o]]
        /\ \A o \in TeamWriters : tx'[o] = IF o = s THEN None ELSE tx[o]
    BY <2>1 DEF DirectoryIInv, TxsOK
  <2>3. TxsOK(Club)'
    BY <2>1, <2>2 DEF DirectoryIInv, TxsOK, TeamsOK
  <2> QED BY <2>1, <2>3 DEF DirectoryIInv, TeamsOK, Unique
<1>6. CASE UNCHANGED directoryVars
  BY <1>6 DEF directoryVars, DirectoryIInv, TxsOK, TeamsOK, Unique
<1> QED BY <1>1, <1>2, <1>3, <1>4, <1>5, <1>6 DEF DirectoryNext

LEMMA DirectoryStarts ==
  ASSUME NEW Club, DirectoryInit
  PROVE  DirectoryIInv(Club)
<1>1. DOMAIN team = {} /\ team = [p \in DOMAIN team |-> team[p]]
  BY DEF DirectoryInit
<1> QED BY <1>1 DEF DirectoryInit, DirectoryIInv, TeamsOK, TxsOK, Unique

(* With a walk and a load one after the other, and names that are of one    *)
(* club each (a club may go by several), no club has two rows of one name   *)
(* or of one key, whatever the provider calls it and whatever the file      *)
(* lists, in whatever order (ingest/upserts.py:107, ingest/registry.py:278).*)
THEOREM TeamsApart ==
  ASSUME ~Overlap, ClubsKnown PROVE DirectorySpec => [](DirectoryTypeOK /\ OneRowPerTeam)
<1>1. PICK Club \in [Names -> ProviderKeys] : ClubsAgree(Club)
  BY DEF ClubsKnown
<1>2. DirectoryInit => DirectoryIInv(Club)
  BY DirectoryStarts
<1>3. DirectoryIInv(Club) /\ [DirectoryNext]_directoryVars => DirectoryIInv(Club)'
  BY <1>1, DirectoryStep
<1>4. DirectoryIInv(Club) => DirectoryTypeOK /\ OneRowPerTeam
  <2> SUFFICES ASSUME DirectoryIInv(Club) PROVE DirectoryTypeOK /\ OneRowPerTeam
    OBVIOUS
  <2>1. DirectoryTypeOK
    BY DEF DirectoryIInv, DirectoryTypeOK, TxsOK, TeamsOK, RowOK
  <2>2. OneRowPerTeam
    BY DEF DirectoryIInv, TeamsOK, RowOK, Unique, OneRowPerTeam
  <2> QED BY <2>1, <2>2
<1> QED BY <1>2, <1>3, <1>4, PTL DEF DirectorySpec

(* Once every entry has its row, a load finds nothing to change.            *)
ListedAsIs(file, t) ==
  \A c \in DOMAIN file : \E p \in DOMAIN t :
    t[p].canonical_name = c /\ t[p].odds_api_io_key = file[c]
RerunIInv(Club) ==
  /\ DirectoryIInv(Club)
  /\ loaded # None => loaded = reg /\ ListedAsIs(reg, team)
  /\ tx["load"] # None =>
       /\ ListedAsIs(reg, tx["load"].want)
       /\ loaded # None => tx["load"].want = team

LEMMA LoadLists ==
  ASSUME NEW Club \in [Names -> ProviderKeys], ClubsAgree(Club), OneNameEach(Club),
         TeamsOK(Club, team), NEW file \in Registries, NEW t \in Applied(file)
  PROVE  ListedAsIs(file, t) /\ (ListedAsIs(file, team) => t = team)
<1>1. PICK at \in Reaches(file), fromEnd \in Orders(DOMAIN file) :
        t = AfterLoad(file, at, fromEnd)
  BY DEF Applied
<1>2. /\ \A c \in DOMAIN file : at[c] \in EntryIds(c, file[c])
      /\ at \in [DOMAIN file -> TeamIds]
  BY DEF Reaches
<1>3. \A c \in DOMAIN file : At(at, at[c]) = {c}
  <2>1. \A c \in DOMAIN file : ClubOf(Club, at[c]) = Club[c]
    BY <1>2, ReachesItsClub
  <2> QED BY <1>2, <2>1 DEF At, OneNameEach
<1>4. ASSUME NEW c \in DOMAIN file
      PROVE  /\ at[c] \in DOMAIN t /\ RowOK(Club, at[c], t[at[c]])
             /\ t[at[c]].canonical_name = c /\ t[at[c]].odds_api_io_key = file[c]
  <2>1. At(at, at[c]) = {c} /\ At(at, at[c]) # {}
    BY <1>3
  <2>2. \E d \in At(at, at[c]) : /\ t[at[c]].canonical_name = d
                                 /\ t[at[c]].odds_api_io_key = file[d]
                                 /\ RowOK(Club, at[c], t[at[c]]) /\ at[c] \in DOMAIN t
    BY <1>1, <2>1, RowLeft
  <2> QED BY <2>1, <2>2
<1>5. ListedAsIs(file, t)
  BY <1>4 DEF ListedAsIs
<1>6. ASSUME ListedAsIs(file, team) PROVE t = team
  <2>1. ASSUME NEW c \in DOMAIN file
        PROVE  /\ at[c] \in DOMAIN team /\ team[at[c]].canonical_name = c
               /\ team[at[c]].odds_api_io_key = file[c]
    <3>1. PICK p \in DOMAIN team : team[p].canonical_name = c /\ team[p].odds_api_io_key = file[c]
      BY <1>6 DEF ListedAsIs
    <3>2. at[c] \in ByName(team, c)
      BY <1>2, <3>1, ReachesItsClub
    <3>3. at[c] = p
      BY <3>1, <3>2 DEF ByName, TeamsOK
    <3> QED BY <3>1, <3>3
  <2>2. /\ t = [p \in DOMAIN team |-> t[p]]
        /\ \A p \in DOMAIN team : At(at, p) = {} => t[p] = team[p]
    <3>1. DOMAIN team \cup {at[c] : c \in DOMAIN file} = DOMAIN team
      BY <2>1
    <3> QED BY <1>1, <3>1 DEF AfterLoad
  <2>3. ASSUME NEW p \in DOMAIN team, At(at, p) # {}
        PROVE  t[p] = team[p]
    <3>1. PICK c \in DOMAIN file : at[c] = p
      BY <1>2, <2>3 DEF At
    <3>2. LastOf({c}, fromEnd) = c
      <4>1. {c} \in SUBSET DOMAIN file /\ {c} # {} /\ IsFiniteSet(DOMAIN file)
        BY DirectoryAssumption
      <4>2. LastOf({c}, fromEnd) \in {c}
        BY <4>1, SomeoneIsLast
      <4> QED BY <4>2
    <3>3. t[p] = EntryWrites(p, c, file[c], LastKey(file, {c}, fromEnd))
      BY <1>1, <1>3, <2>3, <3>1, <3>2 DEF AfterLoad
    <3>4. LastKey(file, {c}, fromEnd) = file[c]
      <4>1. CASE file[c] = None
        BY <4>1 DEF LastKey
      <4>2. CASE file[c] # None
        <5>1. {d \in {c} : file[d] # None} = {c}
          BY <4>2
        <5> QED BY <3>2, <5>1 DEF LastKey
      <4> QED BY <4>1, <4>2
    <3>5. /\ team[p] \in Team /\ team[p].canonical_name = c
          /\ team[p].odds_api_io_key = file[c]
          /\ team[p].odds_api_io_key \in {None, team[p].team_id}
      BY <2>1, <3>1 DEF TeamsOK, RowOK
    <3>6. t[p] = [team_id |-> team[p].team_id, canonical_name |-> team[p].canonical_name,
                  odds_api_io_key |-> team[p].odds_api_io_key]
      BY <2>3, <3>3, <3>4, <3>5 DEF EntryWrites
    <3> QED BY <3>5, <3>6 DEF Team
  <2>4. \A p \in DOMAIN team : t[p] = team[p]
    BY <2>2, <2>3
  <2>5. t = [p \in DOMAIN team |-> team[p]]
    BY <2>2, <2>4
  <2> QED BY <2>5 DEF TeamsOK
<1> QED BY <1>5, <1>6

LEMMA RerunStep ==
  ASSUME NEW Club \in [Names -> ProviderKeys], ClubsAgree(Club), OneNameEach(Club), ~Overlap,
         RerunIInv(Club), [DirectoryNext]_directoryVars
  PROVE  RerunIInv(Club)'
<1>0. DirectoryIInv(Club) /\ DirectoryIInv(Club)' /\ None \notin Registries
  BY DirectoryStep, DirectoryAssumption DEF RerunIInv
<1>1. ASSUME NEW k \in ProviderKeys, WalkTeam(k) PROVE RerunIInv(Club)'
  <2>1. UNCHANGED <<team, feed, reg, loaded>> /\ tx'["load"] = tx["load"]
    BY <1>0, <1>1 DEF WalkTeam, OpenTx, DirectoryIInv, TxsOK, TeamWriters
  <2> QED BY <1>0, <2>1 DEF RerunIInv, ListedAsIs
<1>2. CASE LoadRegistry
  <2>1. PICK t \in Applied(reg) : tx' = [tx EXCEPT !["load"] = [base |-> team, want |-> t]]
    BY <1>2 DEF LoadRegistry, OpenTx
  <2>2. UNCHANGED <<team, feed, reg, loaded>> /\ tx'["load"].want = t
    BY <1>0, <1>2, <2>1 DEF LoadRegistry, DirectoryIInv, TxsOK, TeamWriters
  <2>3. ListedAsIs(reg, t) /\ (ListedAsIs(reg, team) => t = team)
    BY <1>0, LoadLists DEF DirectoryIInv
  <2> QED BY <1>0, <2>2, <2>3 DEF RerunIInv, ListedAsIs
<1>3. CASE FeedChanges \/ FileChanges
  BY <1>0, <1>3 DEF FeedChanges, FileChanges, RerunIInv, ListedAsIs
<1>4. ASSUME NEW s \in TeamWriters, CommitTeams(s) PROVE RerunIInv(Club)'
  <2> DEFINE t == tx[s].want
  <2>1. /\ tx[s] # None /\ tx[s].base = team /\ DOMAIN team \subseteq DOMAIN t
        /\ TeamsOK(Club, t)
    BY <1>0, <1>4 DEF CommitTeams, DirectoryIInv, TxsOK
  <2>2. Merged(tx[s].base, t) = t
    BY <1>0, <2>1, MergedIsWanted DEF DirectoryIInv
  <2>3. team' = t /\ reg' = reg
        /\ loaded' = IF s = "load" THEN reg ELSE IF team' = team THEN loaded ELSE None
    BY <1>4, <2>2 DEF CommitTeams
  <2>4. tx'["load"] = None
    BY <1>0, <1>4, <2>1 DEF CommitTeams, DirectoryIInv, TxsOK, TeamWriters
  <2>5. CASE s = "load"
    BY <1>0, <2>1, <2>3, <2>4, <2>5 DEF RerunIInv, ListedAsIs
  <2>6. CASE s # "load"
    BY <1>0, <2>3, <2>4, <2>6 DEF RerunIInv, ListedAsIs
  <2> QED BY <2>5, <2>6
<1>5. ASSUME NEW s \in TeamWriters, RefusedTeams(s) PROVE RerunIInv(Club)'
  <2>1. UNCHANGED <<team, feed, reg, loaded>> /\ tx'["load"] \in {None, tx["load"]}
    BY <1>0, <1>5 DEF RefusedTeams, DirectoryIInv, TxsOK, TeamWriters
  <2> QED BY <1>0, <2>1 DEF RerunIInv, ListedAsIs
<1>6. CASE UNCHANGED directoryVars
  BY <1>0, <1>6 DEF directoryVars, RerunIInv, ListedAsIs
<1> QED BY <1>1, <1>2, <1>3, <1>4, <1>5, <1>6 DEF DirectoryNext

(* "Idempotent on re-run" (registry.py:204): a load of the file that the    *)
(* rows are of wants no other rows, if the file has each club once.         *)
THEOREM LoadIsIdempotent ==
  ASSUME ~Overlap, ClubsListedOnce PROVE DirectorySpec => []RegistryRerun
<1>1. PICK Club \in [Names -> ProviderKeys] : ClubsAgree(Club) /\ OneNameEach(Club)
  BY DEF ClubsListedOnce
<1>2. DirectoryInit => RerunIInv(Club)
  BY DirectoryStarts DEF DirectoryInit, RerunIInv, TeamWriters
<1>3. RerunIInv(Club) /\ [DirectoryNext]_directoryVars => RerunIInv(Club)'
  BY <1>1, RerunStep
<1>4. RerunIInv(Club) => RegistryRerun
  BY DirectoryAssumption DEF RerunIInv, DirectoryIInv, RegistryRerun
<1> QED BY <1>2, <1>3, <1>4, PTL DEF DirectorySpec
===============================================================================
