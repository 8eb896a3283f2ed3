SPECIFICATION Spec
CONSTANTS
  pair = pair
  single = single
  Lines = {pair, single}
  Parcels = {p1, p2}
  Returns = {r1, r2}
  Threads = {t1, t2}
  MaxUnits = 2
  Bought <- TwoAndOne
  Price <- OddPrices
  Extras = 1
  Shapes <- ParcelsOrReturnsOrRequests
CONSTRAINT Fits
ACTION_CONSTRAINT RefundsFit
SYMMETRY Symmetry
CHECK_DEADLOCK FALSE
INVARIANTS ParcelsWithinLine StatusFollowsRows CancelledIsWhole ReturnsWithinLine
INVARIANTS RestockedOnce CashWithinInvoice RefundsWithinLine
