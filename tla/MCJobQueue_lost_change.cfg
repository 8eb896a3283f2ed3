SPECIFICATION Spec
CONSTANTS
  Jobs = {j1, j2}
  Keys = {k1}
  NoKey = NoKey
  Workers = {w1}
  Limit = 2
  MaxAttempts = 2
  LateBatches = FALSE
  MaxFaults = 0
  MaxChanges = 2
  MaxRequeues = 0
INVARIANTS ChangeIsScheduled
CHECK_DEADLOCK FALSE
