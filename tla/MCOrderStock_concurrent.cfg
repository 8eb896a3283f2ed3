SPECIFICATION Spec
CONSTANTS
  v1 = v1
  v2 = v2
  c1 = c1
  Orders = {o1, o2}
  Variants = {v1, v2}
  Customers = {c1}
  NoCustomer = NoCustomer
  Threads = {t1, t2}
  Requests <- Carts
  Opening <- JustEnough
  Counts <- OneMoreOrLess
  MaxUnits = 2
  MaxUpkeep = 2
  UsageLimits = {1, 2}
  PerCustomer = 1
  MaxOpen = 1
SYMMETRY Symmetry
INVARIANTS HoldsMatch PendingHoldsAll CouponAccounts CapsHoldSerially
PROPERTIES NeverOversells UnitsInCustody
