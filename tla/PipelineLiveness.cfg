CONSTANTS
  Walkers = {w1, w2}
  Markets <- MCMarkets
  Scores <- OneScore
  Bets <- NoBets
  VoidHours = 2
  MaxRows = 2
  PipelineFaults <- OverlapFaults
  None = None
SPECIFICATION ToldSpec
CHECK_DEADLOCK FALSE
PROPERTIES FinalsAreTold
