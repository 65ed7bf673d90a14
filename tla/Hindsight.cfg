CONSTANTS
  Teams = {1, 2, 3}
  Games = {1, 2, 3}
  Home <- MCHome
  Away <- MCAway
  Kickoff <- MCKickoff
  Results <- MCResults
  Expected <- MCExpected
  K = 10
  None = None
SPECIFICATION TablesSpec
CHECK_DEADLOCK FALSE
PROPERTY NoHindsight
