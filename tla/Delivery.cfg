CONSTANTS
  Rows = {r1, r2}
  Writers = {w1}
  Workers = {k1, k2}
  Operators = {o1}
  BatchSize = 2
  MaxAttempts = 2
  Faults <- AllFaults

  Walkers = {"w"}
  Markets <- MCMarkets
  Scores <- MCScores
  Bets = {"moneyline_home"}
  VoidHours = 2
  MaxRows = 3
  PipelineFaults = {"blip", "correction", "outage", "failure", "manual"}
  None = None
SPECIFICATION DeliverySpec
CHECK_DEADLOCK FALSE
SYMMETRY Symmetry
INVARIANTS MutualExclusion SnapshotFresh DeliveredWasAccepted
PROPERTY LedgerSpec
INVARIANTS AnnouncedIsDefinitive LastWordIsCurrent
PROPERTIES SettledOnce DeletedWasTold BetsClosed
