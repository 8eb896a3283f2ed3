SPECIFICATION Spec
CONSTANTS
  Rows = {r1, r2, r3, r4}
  NoRow = NoRow
  Payouts = {p1, p2}
  NoPayout = NoPayout
  Threads = {t1, t2}
  Amounts = {2}
  Charge = 1
  Adjustments <- Debit
  MinPayout = 1
  MaxClock = 2
CONSTRAINT Room
SYMMETRY Symmetry
INVARIANTS ScheduledIsOpen OneOpenStatement PaidIsPaidOut
INVARIANTS PaidOnce StatementMatchesRows BalanceMatchesLedger
CHECK_DEADLOCK FALSE
