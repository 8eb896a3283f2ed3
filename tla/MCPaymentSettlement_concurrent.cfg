SPECIFICATION Spec
CONSTANTS
  Attempts = {a1, a2}
  PaymentIds = {p1, p2}
  Threads = {t1, t2}
  Total = 2
  AutoConfirm = TRUE
  OperatorTargets = {"CONFIRMED", "CANCELLED", "FAILED"}
  JobAttempts = 1
  MaxAborts = 1
SYMMETRY Symmetry
VIEW Effective
INVARIANTS SettledMoneyIsReal CancelRefundsSettled PaidMeansPaid
PROPERTIES ManualNeverOverpays NeverRegresses
CHECK_DEADLOCK FALSE
