-------------------------------- MODULE MCSeed --------------------------------
(* What a docstring says of the leagues that a full refresh brings in.     *)
EXTENDS MCWalk

\* workers/tasks/full_refresh.py:8: "new League rows default to
\* ``active=True``", so that the walk of the same refresh takes them in.
NewLeaguesComeOn ==
  [][\A l \in Leagues : league[l] = "absent" /\ league'[l] # "absent" =>
       league'[l] = "on"]_switches
===============================================================================
