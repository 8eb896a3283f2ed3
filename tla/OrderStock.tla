----------------------------- MODULE OrderStock -----------------------------
(***************************************************************************)
(* Orders up to the packing table, with the stock and the coupon they take: *)
(* checkout and keyed orders (orders/service.ts), confirmation, bulk        *)
(* confirmation, cancellation of an order or of a line                      *)
(* (orders/transitions.ts, orders/cancellation.ts), every movement of stock *)
(* (inventory/service.ts) and the redemptions of one coupon                 *)
(* (coupons/service.ts).  Parcels and returns are in Fulfilment.            *)
(*                                                                         *)
(* Isolation is READ COMMITTED.  A transition locks its order and then each *)
(* variant it moves (SELECT ... FOR UPDATE), so it is one step.  A checkout *)
(* is three: it counts open orders and redemptions without a lock; it locks *)
(* its variants, finds the units and counts the customer's redemptions once *)
(* more; it takes the coupon (a conditional UPDATE), writes the order and   *)
(* commits.  The variants stay locked in between.                           *)
(*                                                                         *)
(* An order has one line per variant.  Movements of one line are checked    *)
(* one by one; those of different lines do not disturb each other.          *)
(***************************************************************************)
EXTENDS Sums, FiniteSets

CONSTANTS
  Orders,
  Variants,
  Customers,
  NoCustomer,
  Threads,      \* checkouts that may be in flight
  Requests,     \* what checkouts ask for: customer, cart, coupon and source
  MaxUnits,     \* bound: units of a variant in a cart or a stock count
  Opening,      \* the opening balance of each variant
  Counts,       \* bound: by how much a stock adjustment changes it
  MaxUpkeep,    \* bound: stock adjustments and changes of allowBackorder
  UsageLimits,  \* what Coupon.usageLimit may be
  PerCustomer,  \* Coupon.perCustomerLimit
  MaxOpen       \* the setting orders.max_open_per_email

ASSUME SetsAssumption ==
  /\ IsFiniteSet(Orders) /\ IsFiniteSet(Variants)
  /\ NoCustomer \notin Customers
ASSUME BoundsAssumption ==
  /\ MaxUnits \in Nat /\ MaxUpkeep \in Nat
  /\ Opening \in [Variants -> Nat] /\ Counts \subseteq Int
  /\ UsageLimits \subseteq Nat /\ PerCustomer \in Nat /\ MaxOpen \in Nat
ASSUME RequestsAssumption ==
  Requests \subseteq [customer : Customers, cart : [Variants -> 0..MaxUnits],
                     coupon : BOOLEAN, source : {"STOREFRONT", "MANUAL"}]

VARIABLES
  stock,       \* InventoryItem: onHand, reserved, allowBackorder
  status,      \* Order.status, "ABSENT" before the row exists
  customer,    \* whose order it is
  keyed,       \* orders entered by an operator (Order.source MANUAL)
  line,        \* OrderItem of each order and variant
  usages,      \* CouponUsage: the orders that redeem the coupon
  usageCount,  \* Coupon.usageCount
  usageLimit,  \* Coupon.usageLimit
  tx,          \* the checkouts in flight
  raced,       \* history: two of them were in flight at once
  torn,        \* history: orders that a batch has half confirmed
  upkeep       \* adjustments and changes of allowBackorder so far

orderVars == <<status, customer, keyed, line>>
couponVars == <<usages, usageCount, usageLimit>>
historyVars == <<raced, torn>>
vars == <<stock, orderVars, couponVars, tx, historyVars, upkeep>>

----------------------------------------------------------------------------
NoLine == [active |-> FALSE, quantity |-> 0, reserved |-> 0]
NoLines == [v \in Variants |-> NoLine]
Idle == [pc |-> "idle"]

Init ==
  /\ stock = [v \in Variants |-> [onHand |-> Opening[v], reserved |-> 0, backorder |-> FALSE]]
  /\ status = [o \in Orders |-> "ABSENT"]
  /\ customer = [o \in Orders |-> NoCustomer]
  /\ keyed = {}
  /\ line = [o \in Orders |-> NoLines]
  /\ usages = {}
  /\ usageCount = 0
  /\ usageLimit \in UsageLimits
  /\ tx = [t \in Threads |-> Idle]
  /\ raced = FALSE
  /\ torn = {}
  /\ upkeep = 0

----------------------------------------------------------------------------
(* applyStockMovement.                                                      *)

Free(v) == stock[v].onHand - stock[v].reserved

Locked(v) == \E t \in Threads : tx[t].pc = "holding" /\ tx[t].asks.cart[v] > 0

\* Mutant: what is held is not subtracted from what is there.
Enough_OnHandOnly(v, delta, reservedDelta) ==
  stock[v].backorder \/ stock[v].onHand + delta >= 0

\* Neither onHand nor available goes below zero, unless on backorder.
Enough(v, delta, reservedDelta) ==
  \/ stock[v].backorder
  \/ /\ stock[v].onHand + delta >= 0
     /\ Free(v) + delta - reservedDelta >= 0

\* INSUFFICIENT_STOCK and RESERVATION_UNDERFLOW refuse the movement.
MayMove(v, delta, reservedDelta) ==
  /\ stock[v].reserved + reservedDelta >= 0
  /\ Enough(v, delta, reservedDelta)

\* The movements of one operation, one for each variant it concerns.
Move(Vs, delta, reservedDelta) ==
  /\ \A v \in Vs : ~Locked(v) /\ MayMove(v, delta[v], reservedDelta[v])
  /\ stock' = [v \in Variants |->
                 IF v \in Vs
                 THEN [stock[v] EXCEPT !.onHand = @ + delta[v],
                                       !.reserved = @ + reservedDelta[v]]
                 ELSE stock[v]]

None == [v \in Variants |-> 0]
Minus(q) == [v \in Variants |-> 0 - q[v]]

Upkeep ==
  /\ upkeep < MaxUpkeep /\ upkeep' = upkeep + 1
  /\ UNCHANGED <<orderVars, couponVars, tx, historyVars>>

AdjustStock(v, delta) ==
  /\ Move({v}, [None EXCEPT ![v] = delta], None)
  /\ Upkeep

\* setLowStockThreshold, in options.allowBackorder.
SwitchBackorder(v) ==
  /\ ~Locked(v)
  /\ stock' = [stock EXCEPT ![v].backorder = ~@]
  /\ Upkeep

----------------------------------------------------------------------------
(* createStorefrontOrder and createManualOrder.                             *)

Open(c) == { o \in Orders : customer[o] = c /\ status[o] = "PENDING" }
Redeemed(c) == { o \in usages : customer[o] = c }

\* Mutant: the caps are not looked at.
WithinCaps_Unchecked(c) == TRUE

WithinCaps(c) == MaxOpen > 0 => Cardinality(Open(c)) < MaxOpen

\* The count before the increment, of committed rows.
MayRedeem(c) == Cardinality(Redeemed(c)) < PerCustomer

Ordered(cart) == { v \in Variants : cart[v] > 0 }

\* The caps (of the storefront only) and the draft's coupon.
StartCheckout(t, asks) ==
  /\ tx[t] = Idle
  /\ asks.source = "STOREFRONT" => WithinCaps(asks.customer)
  /\ asks.coupon => usageCount < usageLimit /\ MayRedeem(asks.customer)
  /\ tx' = [tx EXCEPT ![t] = [pc |-> "drafted", asks |-> asks]]
  /\ raced' = (raced \/ \E u \in Threads : tx[u] # Idle)
  /\ UNCHANGED <<stock, orderVars, couponVars, torn, upkeep>>

\* persistOrder: reserveStock locks the variants, line by line, and
\* recordCouponUsage counts.
HoldStock(t) ==
  /\ tx[t].pc = "drafted"
  /\ \A v \in Ordered(tx[t].asks.cart) : ~Locked(v) /\ MayMove(v, 0, tx[t].asks.cart[v])
  /\ tx[t].asks.coupon => MayRedeem(tx[t].asks.customer)
  /\ tx' = [tx EXCEPT ![t].pc = "holding"]
  /\ UNCHANGED <<stock, orderVars, couponVars, historyVars, upkeep>>

\* Mutant: the increment asks nothing.
TakeCoupon_Blindly(o, redeem) ==
  /\ UNCHANGED usageLimit
  /\ usages' = usages \cup { x \in {o} : redeem }
  /\ usageCount' = usageCount + (IF redeem THEN 1 ELSE 0)

\* UPDATE "Coupon" ... WHERE "usageCount" < "usageLimit".
TakeCoupon(o, redeem) ==
  /\ redeem => usageCount < usageLimit
  /\ UNCHANGED usageLimit
  /\ usages' = usages \cup { x \in {o} : redeem }
  /\ usageCount' = usageCount + (IF redeem THEN 1 ELSE 0)

\* Mutant: an order that waits for its payment does not hold its units.
Taken_Nothing(cart, initial) ==
  [v \in Variants |-> [onHand |-> IF initial = "CONFIRMED" THEN 0 - cart[v] ELSE 0,
                       reserved |-> 0]]

\* A PENDING order reserves; a confirmed one reserves and commits at once.
Taken(cart, initial) ==
  [v \in Variants |-> IF initial = "PENDING" THEN [onHand |-> 0, reserved |-> cart[v]]
                      ELSE [onHand |-> 0 - cart[v], reserved |-> 0]]

\* A keyed order that is not paid online is confirmed on entry.
InitialStatus(source) == IF source = "MANUAL" THEN {"PENDING", "CONFIRMED"} ELSE {"PENDING"}

PlaceOrder(t, o, initial) ==
  LET asks == tx[t].asks
      cart == asks.cart
      taken == Taken(cart, initial)
  IN  /\ tx[t].pc = "holding"
      /\ status[o] = "ABSENT"
      /\ initial \in InitialStatus(asks.source)
      /\ TakeCoupon(o, asks.coupon)
      /\ stock' = [v \in Variants |->
                     [stock[v] EXCEPT !.onHand = @ + taken[v].onHand,
                                      !.reserved = @ + taken[v].reserved]]
      /\ status' = [status EXCEPT ![o] = initial]
      /\ customer' = [customer EXCEPT ![o] = asks.customer]
      /\ keyed' = keyed \cup { x \in {o} : asks.source = "MANUAL" }
      /\ line' = [line EXCEPT ![o] =
                    [v \in Variants |->
                       [active |-> cart[v] > 0, quantity |-> cart[v],
                        reserved |-> IF initial = "PENDING" THEN cart[v] ELSE 0]]]
      /\ tx' = [tx EXCEPT ![t] = Idle]
      /\ UNCHANGED <<historyVars, upkeep>>

\* A refusal, an error or a deadlock: the transaction is rolled back.
AbandonCheckout(t) ==
  /\ tx[t] # Idle
  /\ tx' = [tx EXCEPT ![t] = Idle]
  /\ UNCHANGED <<stock, orderVars, couponVars, historyVars, upkeep>>

----------------------------------------------------------------------------
(* transitionOrder, with what the payment and the expiry jobs call it for.  *)

Active(o) == { v \in Variants : line[o][v].active }
Quantities(o) == [v \in Variants |-> line[o][v].quantity]
Holds(o) == [v \in Variants |-> line[o][v].reserved]
Holding(o) == { v \in Active(o) : line[o][v].reserved > 0 }

\* commitReservation and reservedQty 0, for these lines.
CommitLines(o, Vs) ==
  /\ Move(Vs, Minus(Holds(o)), Minus(Holds(o)))
  /\ line' = [line EXCEPT ![o] =
                [v \in Variants |-> IF v \in Vs THEN [@[v] EXCEPT !.reserved = 0] ELSE @[v]]]

Confirm(o) ==
  /\ status[o] = "PENDING"
  /\ CommitLines(o, Holding(o))
  /\ status' = [status EXCEPT ![o] = "CONFIRMED"]
  /\ UNCHANGED <<customer, keyed, couponVars, tx, historyVars, upkeep>>

\* One order of bulkTransitionOrders: the batch goes on when a line is short
\* of stock, and what the lines before it wrote is committed with the batch.
\* No order is asked of the lines.
SkipInBulk(o, Vs) ==
  /\ status[o] = "PENDING"
  /\ Vs \subseteq Holding(o)
  /\ \E v \in Holding(o) \ Vs : ~MayMove(v, 0 - Holds(o)[v], 0 - Holds(o)[v])
  /\ CommitLines(o, Vs)
  /\ torn' = IF Vs = {} THEN torn ELSE torn \cup {o}
  /\ UNCHANGED <<status, customer, keyed, couponVars, tx, raced, upkeep>>

Advance(o) ==
  /\ status[o] \in {"CONFIRMED", "PROCESSING"}
  /\ status' = [status EXCEPT ![o] = IF @ = "CONFIRMED" THEN "PROCESSING" ELSE "PACKED"]
  /\ UNCHANGED <<stock, customer, keyed, line, couponVars, tx, historyVars, upkeep>>

\* releaseCouponUsage.
GiveCouponBack(o) ==
  /\ UNCHANGED usageLimit
  /\ usages' = usages \ {o}
  /\ usageCount' = IF o \in usages /\ usageCount > 0 THEN usageCount - 1 ELSE usageCount

\* Mutant: whatever the order was, its units go back on the shelf.
HandBack_Restock(o) == Move(Active(o), Quantities(o), None)

\* A PENDING order drops its holds, a confirmed one puts its units back.
HandBack(o) ==
  IF status[o] = "PENDING"
  THEN Move(Holding(o), None, Minus(Holds(o)))
  ELSE Move(Active(o), Quantities(o), None)

CancelLine(l) == [l EXCEPT !.active = FALSE, !.reserved = 0]

\* applyCancellation.
Cancel(o, to) ==
  /\ \/ status[o] = "PENDING" /\ to \in {"CANCELLED", "FAILED"}
     \/ status[o] \in {"CONFIRMED", "PROCESSING", "PACKED"} /\ to = "CANCELLED"
  /\ HandBack(o)
  /\ line' = [line EXCEPT ![o] =
                [v \in Variants |-> IF v \in Active(o) THEN CancelLine(@[v]) ELSE @[v]]]
  /\ GiveCouponBack(o)
  /\ status' = [status EXCEPT ![o] = to]
  /\ UNCHANGED <<customer, keyed, tx, historyVars, upkeep>>

----------------------------------------------------------------------------
(* cancelOrderItem.                                                         *)

Smaller(a, b) == IF a < b THEN a ELSE b

HandUnitsBack(o, v, q) ==
  IF status[o] = "PENDING"
  THEN LET release == Smaller(q, line[o][v].reserved)
       IN  Move({ x \in {v} : release > 0 }, None, [None EXCEPT ![v] = 0 - release])
  ELSE Move({v}, [None EXCEPT ![v] = q], None)

\* Mutant: the line goes on holding the units it gave back.
Shorter_StillHolding(l, q) == [l EXCEPT !.quantity = @ - q]

\* Mutant: the units that the line does not hold are taken off all the same.
Shorter_Unclamped(l, q) == [l EXCEPT !.quantity = @ - q, !.reserved = @ - q]

\* The units that are left; their CANCELLED sibling takes no further part.
Shorter(l, q) ==
  [l EXCEPT !.quantity = @ - q, !.reserved = IF @ > q THEN @ - q ELSE 0]

CancelItem(o, v, q) ==
  LET l == line[o][v]
      whole == q = l.quantity
      last == whole /\ Active(o) = {v}
  IN  /\ status[o] \in {"PENDING", "CONFIRMED", "PROCESSING", "PACKED"}
      /\ l.active /\ q \in 1..l.quantity
      /\ HandUnitsBack(o, v, q)
      /\ line' = [line EXCEPT ![o][v] = IF whole THEN CancelLine(l) ELSE Shorter(l, q)]
      /\ IF last THEN GiveCouponBack(o) ELSE UNCHANGED couponVars
      /\ status' = [status EXCEPT ![o] = IF last THEN "CANCELLED" ELSE @]
      /\ UNCHANGED <<customer, keyed, tx, historyVars, upkeep>>

----------------------------------------------------------------------------
Checkout(t) ==
  \/ \E asks \in Requests : StartCheckout(t, asks)
  \/ HoldStock(t)
  \/ \E o \in Orders, initial \in {"PENDING", "CONFIRMED"} : PlaceOrder(t, o, initial)
  \/ AbandonCheckout(t)

Operate(o) ==
  \/ Confirm(o) \/ Advance(o)
  \/ \E Vs \in SUBSET Variants : SkipInBulk(o, Vs)
  \/ \E to \in {"CANCELLED", "FAILED"} : Cancel(o, to)
  \/ \E v \in Variants, q \in 1..MaxUnits : CancelItem(o, v, q)

Next ==
  \/ \E t \in Threads : Checkout(t)
  \/ \E o \in Orders : Operate(o)
  \/ \E v \in Variants :
       \/ \E delta \in Counts : AdjustStock(v, delta)
       \/ SwitchBackorder(v)

Spec == Init /\ [][Next]_vars

----------------------------------------------------------------------------
(* Properties.                                                              *)

OrderStatus == {"ABSENT", "PENDING", "CONFIRMED", "PROCESSING", "PACKED",
                "CANCELLED", "FAILED"}

LineType == [active : BOOLEAN, quantity : 0..MaxUnits, reserved : 0..MaxUnits]

TxType == [pc : {"drafted", "holding"}, asks : Requests]

TypeOK ==
  /\ stock \in [Variants -> [onHand : Int, reserved : Nat, backorder : BOOLEAN]]
  /\ status \in [Orders -> OrderStatus]
  /\ customer \in [Orders -> Customers \cup {NoCustomer}]
  /\ keyed \subseteq Orders
  /\ line \in [Orders -> [Variants -> LineType]]
  /\ usages \subseteq Orders /\ usageCount \in Nat /\ usageLimit \in UsageLimits
  /\ tx \in [Threads -> TxType \cup {Idle}]
  /\ raced \in BOOLEAN
  /\ torn \subseteq Orders
  /\ upkeep \in 0..MaxUpkeep

\* Units of the line that the shelf has given up and nobody has put back.
Owed(o, v) == IF line[o][v].active THEN line[o][v].quantity - line[o][v].reserved ELSE 0

HeldBy(v) == [o \in Orders |-> line[o][v].reserved]
OwedBy(v) == [o \in Orders |-> Owed(o, v)]

\* "a caller lost track of its own reservation" (applyStockMovement): what an
\* item has reserved is what lines of orders that await payment hold of it,
\* through every confirmation, cancellation and half-done batch.
HoldsMatch ==
  \A v \in Variants : stock[v].reserved = SumOver(HeldBy(v), Orders)

\* Strengthens HoldsMatch: an order that has left PENDING, or a cancelled
\* line, holds nothing.
HoldsArePending ==
  \A o \in Orders, v \in Variants :
    line[o][v].reserved > 0 => status[o] = "PENDING" /\ line[o][v].active

\* What "a skip leaves the transaction healthy" (bulkTransitionOrders) asks
\* for: an order that awaits payment holds all its units, unless a batch has
\* half confirmed it.
PendingHoldsAll ==
  \A o \in Orders \ torn, v \in Variants :
    status[o] = "PENDING" /\ line[o][v].active =>
      line[o][v].reserved = line[o][v].quantity

\* "Stock can't go negative unless allowBackorder": no step takes units that
\* are not there, whoever checks out at the same time and whenever
\* allowBackorder is withdrawn.
NeverOversells ==
  [][\A v \in Variants :
       Free(v)' < Free(v) /\ ~stock[v].backorder => Free(v)' >= 0]_vars

\* "exactly one UPDATE matches" (recordCouponUsage): the coupon is redeemed
\* at most usageLimit times, and the counter is the number of orders that
\* still redeem it: an order that was cancelled has given its redemption back.
CouponAccounts ==
  /\ usageCount = Cardinality(usages)
  /\ usageCount <= usageLimit
  /\ \A o \in usages : status[o] \notin {"ABSENT", "CANCELLED", "FAILED"}

\* The caps that are counted without a lock (assertCheckoutCaps,
\* recordCouponUsage) hold as long as no two checkouts are in flight at once.
CapsHoldSerially ==
  ~raced => \A c \in Customers :
    /\ Cardinality(Redeemed(c)) <= PerCustomer
    /\ MaxOpen > 0 => Cardinality(Open(c) \ keyed) <= MaxOpen

\* "THE LEDGER IS THE SOURCE OF TRUTH" (inventory/service.ts): orders only
\* move units between the shelf, the holds and what is sold, until a batch
\* leaves an order half confirmed.
Custody == INSTANCE StockCustody WITH
  free <- [v \in Variants |-> Free(v)],
  held <- [v \in Variants |-> stock[v].reserved],
  sold <- [v \in Variants |-> SumOver(OwedBy(v), Orders)],
  backorder <- [v \in Variants |-> stock[v].backorder],
  exact <- torn = {}

UnitsInCustody == Custody!Spec
=============================================================================
