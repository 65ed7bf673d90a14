CONSTANTS
  Crons = {c1, c2}
  FaultyCrons = {c1}
  Workers = {k1, k2}
  Operators = {o1}
  Jobs = {j1, j2}
  MaxAttempts = 1
  MaxRuns = 2
  Faults = {}
  None = None
SPECIFICATION MCSpec
CHECK_DEADLOCK FALSE
INVARIANTS OneRunPerCron RunningIsTrue PauseHonoured AnswersWithOwnRun
PROPERTIES ClosesOwnRun HistoryIsFinal LockUnderFaults
