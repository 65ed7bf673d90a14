CONSTANTS
  Rows = {r1, r2}
  Writers = {w1, w2}
  Workers = {k1, k2}
  Operators = {}
  BatchSize = 2
  MaxAttempts = 2
  Faults <- NoFaults
  None = None
SPECIFICATION Spec
CHECK_DEADLOCK FALSE
INVARIANT WakeupCovered
