SPECIFICATION Spec
CONSTANTS
  Rows = {r1, r2, r3}
  NoRow = NoRow
  Payouts = {p1, p2}
  NoPayout = NoPayout
  Threads = {t1, t2}
  Amounts = {1}
  Charge = 1
  Adjustments <- Debit
  MinPayout = 0
  MaxClock = 1
SYMMETRY Symmetry
INVARIANTS SinglePayoutRow
CHECK_DEADLOCK FALSE
