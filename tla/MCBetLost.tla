------------------------------- MODULE MCBetLost -------------------------------
(* A small instance of BetLedger with the session that db.py hands out.    *)
EXTENDS BetLedger

MCBodies == {[status |-> "won", payout |-> None, settled_at |-> None]}
===============================================================================
