SPECIFICATION Spec
CONSTANTS
  RefundIds = {r1, r2}
  Operators = {o1, o2}
  Paid = 2
  LineTotal = 2
  Sale = 3
  MaxRetries = 1
CONSTRAINT OneTroubled
CONSTRAINT OneOnline
ACTION_CONSTRAINT DeliveredInTime
SYMMETRY Symmetry
INVARIANTS SettledOnce OnlyRevivalExceedsPaid OrderMatchesRows GatewayPaysOncePerAttempt
PROPERTIES LegalTransitions
