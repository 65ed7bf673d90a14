--------------------------- MODULE OddsApiExchange ---------------------------
(***************************************************************************)
(* What one call to odds-api.io comes to, whatever OddsApiHttpClient._send *)
(* does in between: a drained bucket refuses it so many times at most, each *)
(* refusal keeps it quiet for a while, and it ends once, with a body or     *)
(* with an error, when nothing is left of the wait. It costs the hourly     *)
(* bucket at most one request, which only an answer can cost.              *)
(***************************************************************************)
EXTENDS Naturals

CONSTANTS Clients, Limit, MaxRetries, MaxWait

VARIABLES
  left,      \* requests in the bucket
  busy,      \* clients with a call under way
  told,      \* told[c]: seconds for which c has been told to keep quiet
  refused    \* refused[c]: refusals of the call of c so far

exchangeVars == <<left, busy, told, refused>>

Init ==
  /\ left = Limit /\ busy = {}
  /\ told = [c \in Clients |-> 0] /\ refused = [c \in Clients |-> 0]

Ask(c) == c \notin busy /\ busy' = busy \cup {c} /\ UNCHANGED <<left, told, refused>>

Refuse(c) ==
  /\ c \in busy /\ told[c] = 0 /\ left = 0
  /\ refused[c] < MaxRetries
  /\ refused' = [refused EXCEPT ![c] = @ + 1]
  /\ \E wait \in 0..MaxWait : told' = [told EXCEPT ![c] = wait]
  /\ UNCHANGED <<left, busy>>

(* The call ends; the request it asked for may have been counted. *)
End(c) ==
  /\ c \in busy /\ told[c] = 0
  /\ busy' = busy \ {c}
  /\ refused' = [refused EXCEPT ![c] = 0]
  /\ left' \in {left} \cup (IF left > 0 THEN {left - 1} ELSE {})
  /\ UNCHANGED told

Second ==
  /\ left' \in {left, Limit}
  /\ told' = [c \in Clients |-> IF told[c] = 0 THEN 0 ELSE told[c] - 1]
  /\ UNCHANGED <<busy, refused>>

Next == Second \/ \E c \in Clients : Ask(c) \/ Refuse(c) \/ End(c)

Spec == Init /\ [][Next]_exchangeVars
=============================================================================
