SPECIFICATION FairSpec
CONSTANTS
  Attempts = {a1}
  PaymentIds = {p1}
  Threads = {t1, t2}
  Total = 2
  AutoConfirm = TRUE
  OperatorTargets = {"CANCELLED"}
  JobAttempts = 2
  MaxAborts = 0
INVARIANTS ConfirmedIsPaid
PROPERTIES CaptureIsSettled PaidIsConfirmed
CHECK_DEADLOCK FALSE
