CONSTANTS
  Crons = {c1}
  Workers = {k1}
  Operators = {}
  Jobs = {j1, j2}
  MaxAttempts = 2
  MaxRuns = 4
  Faults = {}
  None = None
SPECIFICATION Spec
CHECK_DEADLOCK FALSE
INVARIANT AttemptCanOpen
