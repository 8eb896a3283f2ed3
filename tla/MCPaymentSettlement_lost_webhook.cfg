SPECIFICATION Spec
CONSTANTS
  Attempts = {a1}
  PaymentIds = {p1}
  Threads = {t1}
  Total = 2
  AutoConfirm = TRUE
  OperatorTargets = {"CANCELLED"}
  JobAttempts = 1
  MaxAborts = 1
INVARIANTS AcknowledgedIsSettled
CHECK_DEADLOCK FALSE
