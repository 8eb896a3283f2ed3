SPECIFICATION Spec
CONSTANTS
  Jobs = {j1, j2, j3}
  Keys = {k1}
  NoKey = NoKey
  Workers = {w1, w2}
  Limit = 2
  MaxAttempts = 2
  LateBatches = FALSE
  MaxFaults = 2
  MaxChanges = 3
  MaxRequeues = 1
ACTION_CONSTRAINT AfterRequeue
SYMMETRY Symmetry
INVARIANTS NeverTwiceAtOnce OneOpenPerKey FaultsBuyAttempts OnceWithoutFaults
PROPERTIES JobsAreLeased
CHECK_DEADLOCK FALSE
