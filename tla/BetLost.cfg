CONSTANTS
  Bettors = {u1}
  Bets = {b1}
  Types = {"home", "other"}
  Bodies <- MCBodies
  Codes = {1, 3}
  Sessions = {FALSE}
  None = None
SPECIFICATION LedgerSpec
CHECK_DEADLOCK FALSE
INVARIANT BetKept
