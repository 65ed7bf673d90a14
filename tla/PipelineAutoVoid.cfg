CONSTANTS
  Walkers = {w1}
  Markets <- MCMarkets
  Scores <- MCScores
  Bets <- NoBets
  VoidHours = 2
  MaxRows = 2
  PipelineFaults <- VoidFaults
  None = None
SPECIFICATION PipelineSpec
CHECK_DEADLOCK FALSE
INVARIANT AnnouncedVerdicts
