SPECIFICATION Spec
CONSTANTS
  Attempts = {a1, a2}
  PaymentIds = {p1, p2}
  Threads = {t1}
  Total = 2
  AutoConfirm = TRUE
  OperatorTargets = {"CANCELLED"}
  JobAttempts = 1
  MaxAborts = 0
INVARIANTS ChargedOnce
CHECK_DEADLOCK FALSE
