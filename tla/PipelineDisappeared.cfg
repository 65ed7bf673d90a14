CONSTANTS
  Walkers = {w1}
  Markets <- MCMarkets
  Scores <- MCScores
  Bets <- NoBets
  VoidHours = 2
  MaxRows = 2
  PipelineFaults <- BlipOnly
  None = None
SPECIFICATION FairPipelineSpec
CHECK_DEADLOCK FALSE
PROPERTIES GoneIsVoided
