------------------------------ MODULE MCHindsight ------------------------------
(* A small instance of LeagueTables for the estimate of a past game.       *)
EXTENDS LeagueTables

MCResults == {[home |-> 1, away |-> 0], [home |-> 0, away |-> 2], [home |-> 1, away |-> 1]}
MCExpected(d) == IF d > -1 THEN 6 ELSE IF d < -1 THEN 4 ELSE 5
MCHome == <<1, 2, 3>>
MCAway == <<2, 1, 1>>
MCKickoff == <<1, 2, 3>>
===============================================================================
