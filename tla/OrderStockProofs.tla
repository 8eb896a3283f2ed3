-------------------------- MODULE OrderStockProofs --------------------------
(***************************************************************************)
(* Proofs about OrderStock: for any number of orders, variants, customers   *)
(* and checkouts in flight, every cart, coupon and opening balance.         *)
(***************************************************************************)
EXTENDS OrderStock, SumsProofs

Quantity == 0..MaxUnits
StockType == [onHand : Int, reserved : Nat, backorder : BOOLEAN]

----------------------------------------------------------------------------
(* What the movements of one operation do to the stock.                     *)

LEMMA IdleIsNoTx == \A x \in TxType : x # Idle /\ x.pc # "idle"
BY DEF TxType, Idle

\* A checkout past its first step knows what it was asked for.
LEMMA Asked ==
  ASSUME TypeOK, NEW t \in Threads, tx[t].pc \in {"drafted", "holding"}
  PROVE  /\ tx[t] \in TxType
         /\ tx[t].asks \in Requests
         /\ tx[t].asks.customer \in Customers
         /\ tx[t].asks.cart \in [Variants -> Quantity]
         /\ tx[t].asks.coupon \in BOOLEAN
<1>1. tx[t] # Idle
  BY DEF Idle
<1>2. tx[t] \in TxType
  BY <1>1 DEF TypeOK
<1>3. QED BY <1>2, RequestsAssumption DEF TxType, Quantity

\* Only the variants of the operation move, each by its own amounts.
LEMMA MoveEffect ==
  ASSUME TypeOK, NEW Vs \in SUBSET Variants,
         NEW delta \in [Variants -> Int], NEW reservedDelta \in [Variants -> Int],
         Move(Vs, delta, reservedDelta)
  PROVE  /\ stock' \in [Variants -> StockType]
         /\ \A v \in Variants :
              /\ stock'[v].backorder = stock[v].backorder
              /\ stock'[v].onHand = stock[v].onHand + (IF v \in Vs THEN delta[v] ELSE 0)
              /\ stock'[v].reserved =
                   stock[v].reserved + (IF v \in Vs THEN reservedDelta[v] ELSE 0)
              /\ v \in Vs => ~Locked(v) /\ MayMove(v, delta[v], reservedDelta[v])
<1>1. \A v \in Variants : stock[v] \in StockType
  BY DEF TypeOK, StockType
<1>2. \A v \in Vs : ~Locked(v) /\ MayMove(v, delta[v], reservedDelta[v])
  BY DEF Move
<1>3. \A v \in Vs : stock[v].reserved + reservedDelta[v] \in Nat
  BY <1>1, <1>2 DEF MayMove, StockType
<1>4. ASSUME NEW v \in Variants
      PROVE  /\ stock'[v] \in StockType
             /\ stock'[v].backorder = stock[v].backorder
             /\ stock'[v].onHand = stock[v].onHand + (IF v \in Vs THEN delta[v] ELSE 0)
             /\ stock'[v].reserved =
                  stock[v].reserved + (IF v \in Vs THEN reservedDelta[v] ELSE 0)
  <2>1. CASE v \in Vs
    <3>1. stock'[v] = [stock[v] EXCEPT !.onHand = @ + delta[v],
                                       !.reserved = @ + reservedDelta[v]]
      BY <2>1 DEF Move
    <3>2. stock[v].onHand + delta[v] \in Int
      BY <1>1 DEF StockType
    <3>3. stock[v].reserved + reservedDelta[v] \in Nat
      BY <1>3, <2>1
    <3> DEFINE x == stock[v].onHand + delta[v]
               y == stock[v].reserved + reservedDelta[v]
    <3>4. stock'[v] = [stock[v] EXCEPT !.onHand = x, !.reserved = y]
      BY <3>1
    <3>5. stock[v] \in StockType /\ x \in Int /\ y \in Nat
      BY <1>1, <3>2, <3>3
    <3> HIDE DEF x, y
    <3>6. /\ stock'[v] \in StockType /\ stock'[v].onHand = x /\ stock'[v].reserved = y
          /\ stock'[v].backorder = stock[v].backorder
      BY <3>4, <3>5 DEF StockType
    <3>7. QED BY <2>1, <3>6 DEF x, y
  <2>2. CASE v \notin Vs
    <3>1. stock'[v] = stock[v]
      BY <2>2 DEF Move
    <3>2. QED BY <2>2, <3>1, <1>1 DEF StockType
  <2>3. QED BY <2>1, <2>2
<1>5. stock' = [v \in Variants |-> stock'[v]]
  BY DEF Move
<1>6. QED BY <1>2, <1>4, <1>5

\* The stock after an order is placed.
LEMMA PlaceEffect ==
  ASSUME TypeOK, NEW t \in Threads, NEW o \in Orders,
         NEW initial \in {"PENDING", "CONFIRMED"}, PlaceOrder(t, o, initial)
  PROVE  /\ stock' \in [Variants -> StockType]
         /\ \A v \in Variants :
              /\ stock'[v].backorder = stock[v].backorder
              /\ stock'[v].onHand = stock[v].onHand
                   + (IF initial = "PENDING" THEN 0 ELSE 0 - tx[t].asks.cart[v])
              /\ stock'[v].reserved = stock[v].reserved
                   + (IF initial = "PENDING" THEN tx[t].asks.cart[v] ELSE 0)
<1> DEFINE cart == tx[t].asks.cart
           taken == Taken(cart, initial)
<1>1. cart \in [Variants -> Quantity]
  BY Asked DEF PlaceOrder
<1>2. stock' = [v \in Variants |-> [stock[v] EXCEPT !.onHand = @ + taken[v].onHand,
                                                    !.reserved = @ + taken[v].reserved]]
  BY DEF PlaceOrder
<1>3. \A v \in Variants : stock[v] \in StockType
  BY DEF TypeOK, StockType
<1>4. ASSUME NEW v \in Variants
      PROVE  /\ stock'[v] \in StockType
             /\ stock'[v].backorder = stock[v].backorder
             /\ stock'[v].onHand = stock[v].onHand
                  + (IF initial = "PENDING" THEN 0 ELSE 0 - cart[v])
             /\ stock'[v].reserved = stock[v].reserved
                  + (IF initial = "PENDING" THEN cart[v] ELSE 0)
  <2>1. /\ taken[v].onHand = IF initial = "PENDING" THEN 0 ELSE 0 - cart[v]
        /\ taken[v].reserved = IF initial = "PENDING" THEN cart[v] ELSE 0
    BY DEF Taken
  <2>2. cart[v] \in Nat
    BY <1>1, BoundsAssumption DEF Quantity
  <2>3. stock[v].onHand \in Int /\ stock[v].reserved \in Nat /\ stock[v].backorder \in BOOLEAN
    BY <1>3 DEF StockType
  <2> HIDE DEF cart, taken
  <2>4. stock[v].onHand + taken[v].onHand \in Int /\ stock[v].reserved + taken[v].reserved \in Nat
    BY <2>1, <2>2, <2>3
  <2> DEFINE x == stock[v].onHand + taken[v].onHand
             y == stock[v].reserved + taken[v].reserved
  <2>5. stock'[v] = [stock[v] EXCEPT !.onHand = x, !.reserved = y]
    BY <1>2
  <2>6. stock[v] \in StockType /\ x \in Int /\ y \in Nat
    BY <1>3, <2>4
  <2> HIDE DEF x, y
  <2>7. /\ stock'[v] \in StockType /\ stock'[v].onHand = x /\ stock'[v].reserved = y
        /\ stock'[v].backorder = stock[v].backorder
    BY <2>5, <2>6 DEF StockType
  <2>8. QED BY <2>1, <2>7 DEF x, y
<1>5. QED BY <1>2, <1>4

----------------------------------------------------------------------------
(* What the operations do to the lines and the stock.                       *)

LEMMA LineTyped ==
  ASSUME TypeOK, NEW o \in Orders, NEW v \in Variants
  PROVE  /\ line[o] \in [Variants -> LineType]
         /\ line[o][v] \in LineType
         /\ line[o][v].quantity \in Quantity /\ line[o][v].reserved \in Quantity
         /\ line[o][v].active \in BOOLEAN
         /\ Quantity \subseteq Nat
BY BoundsAssumption DEF TypeOK, LineType, Quantity

\* The lines that an operation confirms keep their type and hold nothing.
LEMMA CommitEffect ==
  ASSUME TypeOK, NEW o \in Orders, NEW Vs \in SUBSET Variants, CommitLines(o, Vs)
  PROVE  /\ line' \in [Orders -> [Variants -> LineType]]
         /\ \A p \in Orders \ {o} : line'[p] = line[p]
         /\ \A v \in Variants :
              /\ line'[o][v].active = line[o][v].active
              /\ line'[o][v].quantity = line[o][v].quantity
              /\ line'[o][v].reserved = IF v \in Vs THEN 0 ELSE line[o][v].reserved
         /\ Move(Vs, Minus(Holds(o)), Minus(Holds(o)))
         /\ Minus(Holds(o)) \in [Variants -> Int]
         /\ \A v \in Variants : Minus(Holds(o))[v] = 0 - line[o][v].reserved
<1> DEFINE new == [v \in Variants |-> IF v \in Vs THEN [line[o][v] EXCEPT !.reserved = 0]
                                      ELSE line[o][v]]
<1>1. line' = [line EXCEPT ![o] = new]
  BY DEF CommitLines
<1>2. line \in [Orders -> [Variants -> LineType]]
  BY DEF TypeOK
<1>3. ASSUME NEW v \in Variants
      PROVE  /\ new[v] \in LineType
             /\ new[v].active = line[o][v].active
             /\ new[v].quantity = line[o][v].quantity
             /\ new[v].reserved = IF v \in Vs THEN 0 ELSE line[o][v].reserved
  BY LineTyped, BoundsAssumption DEF LineType
<1>4. new \in [Variants -> LineType]
  BY <1>3
<1> HIDE DEF new
<1>5. line'[o] = new /\ \A p \in Orders \ {o} : line'[p] = line[p]
  BY <1>1, <1>2
<1>6. line' \in [Orders -> [Variants -> LineType]]
  BY <1>1, <1>2, <1>4
<1>7. /\ Move(Vs, Minus(Holds(o)), Minus(Holds(o)))
      /\ Minus(Holds(o)) \in [Variants -> Int]
      /\ \A v \in Variants : Minus(Holds(o))[v] = 0 - line[o][v].reserved
  BY LineTyped DEF CommitLines, Minus, Holds
<1>8. QED BY <1>3, <1>5, <1>6, <1>7

\* What a cancelled or shortened line is.
LEMMA CancelLineEffect ==
  ASSUME NEW l \in LineType
  PROVE  /\ CancelLine(l) \in LineType
         /\ CancelLine(l).active = FALSE /\ CancelLine(l).quantity = l.quantity
         /\ CancelLine(l).reserved = 0
<1> DEFINE r == [l EXCEPT !.active = FALSE, !.reserved = 0]
<1>1. 0 \in 0..MaxUnits
  BY BoundsAssumption
<1>2. ASSUME NEW b \in BOOLEAN, NEW n \in 0..MaxUnits
      PROVE  /\ [l EXCEPT !.active = b, !.reserved = n] \in LineType
             /\ [l EXCEPT !.active = b, !.reserved = n].active = b
             /\ [l EXCEPT !.active = b, !.reserved = n].quantity = l.quantity
             /\ [l EXCEPT !.active = b, !.reserved = n].reserved = n
  BY DEF LineType
<1>3. r \in LineType /\ r.active = FALSE /\ r.quantity = l.quantity /\ r.reserved = 0
  BY <1>1, <1>2
<1>4. QED BY <1>3 DEF CancelLine

LEMMA ShorterEffect ==
  ASSUME NEW l \in LineType, NEW q \in 1..l.quantity
  PROVE  /\ Shorter(l, q) \in LineType
         /\ Shorter(l, q).active = l.active
         /\ Shorter(l, q).quantity = l.quantity - q
         /\ Shorter(l, q).reserved = IF l.reserved > q THEN l.reserved - q ELSE 0
<1> DEFINE n == l.quantity - q
           m == IF l.reserved > q THEN l.reserved - q ELSE 0
           r == [l EXCEPT !.quantity = n, !.reserved = m]
<1>1. n \in 0..MaxUnits /\ m \in 0..MaxUnits
  BY BoundsAssumption DEF LineType
<1>2. r \in LineType /\ r.active = l.active /\ r.quantity = n /\ r.reserved = m
  <2> HIDE DEF n, m
  <2>1. QED BY <1>1 DEF LineType
<1>3. QED BY <1>2 DEF Shorter

\* A cancellation of the order, or of a line, concerns its lines only.
LEMMA CancelEffect ==
  ASSUME TypeOK, NEW o \in Orders, NEW to \in {"CANCELLED", "FAILED"}, Cancel(o, to)
  PROVE  /\ line' \in [Orders -> [Variants -> LineType]]
         /\ \A p \in Orders \ {o} : line'[p] = line[p]
         /\ \A v \in Variants :
              line'[o][v] = IF line[o][v].active THEN CancelLine(line[o][v]) ELSE line[o][v]
<1> DEFINE new == [v \in Variants |-> IF v \in Active(o) THEN CancelLine(line[o][v])
                                      ELSE line[o][v]]
<1>1. line' = [line EXCEPT ![o] = new]
  BY DEF Cancel
<1>2. new \in [Variants -> LineType]
  BY LineTyped, CancelLineEffect
<1>3. \A v \in Variants :
        new[v] = IF line[o][v].active THEN CancelLine(line[o][v]) ELSE line[o][v]
  BY DEF Active
<1>4. line \in [Orders -> [Variants -> LineType]]
  BY DEF TypeOK
<1> HIDE DEF new
<1>5. QED BY <1>1, <1>2, <1>3, <1>4

LEMMA CancelItemEffect ==
  ASSUME TypeOK, NEW o \in Orders, NEW v \in Variants, NEW q \in 1..MaxUnits,
         CancelItem(o, v, q)
  PROVE  /\ line' \in [Orders -> [Variants -> LineType]]
         /\ \A p \in Orders \ {o} : line'[p] = line[p]
         /\ \A w \in Variants \ {v} : line'[o][w] = line[o][w]
         /\ line[o][v].active /\ q \in 1..line[o][v].quantity
         /\ line'[o][v] = IF q = line[o][v].quantity THEN CancelLine(line[o][v])
                          ELSE Shorter(line[o][v], q)
<1> DEFINE l == line[o][v]
           new == IF q = l.quantity THEN CancelLine(l) ELSE Shorter(l, q)
<1>1. line' = [line EXCEPT ![o][v] = new] /\ l.active /\ q \in 1..l.quantity
  BY DEF CancelItem
<1>2. line \in [Orders -> [Variants -> LineType]] /\ l \in LineType
  BY LineTyped DEF TypeOK
<1>3. new \in LineType
  BY <1>1, <1>2, CancelLineEffect, ShorterEffect
<1> HIDE DEF new
<1>4. /\ line' \in [Orders -> [Variants -> LineType]]
      /\ \A p \in Orders \ {o} : line'[p] = line[p]
      /\ \A w \in Variants \ {v} : line'[o][w] = line[o][w]
      /\ line'[o][v] = new
  BY <1>1, <1>2, <1>3
<1>5. QED BY <1>1, <1>4 DEF new

\* The order's row as it is placed.
LEMMA PlaceLines ==
  ASSUME TypeOK, NEW t \in Threads, NEW o \in Orders,
         NEW initial \in {"PENDING", "CONFIRMED"}, PlaceOrder(t, o, initial)
  PROVE  /\ line' \in [Orders -> [Variants -> LineType]]
         /\ \A p \in Orders \ {o} : line'[p] = line[p]
         /\ \A v \in Variants :
              /\ line'[o][v].active = (tx[t].asks.cart[v] > 0)
              /\ line'[o][v].quantity = tx[t].asks.cart[v]
              /\ line'[o][v].reserved =
                   IF initial = "PENDING" THEN tx[t].asks.cart[v] ELSE 0
<1> DEFINE cart == tx[t].asks.cart
           new == [v \in Variants |->
                     [active |-> cart[v] > 0, quantity |-> cart[v],
                      reserved |-> IF initial = "PENDING" THEN cart[v] ELSE 0]]
<1>1. line' = [line EXCEPT ![o] = new]
  BY DEF PlaceOrder
<1>2. cart \in [Variants -> Quantity]
  BY Asked DEF PlaceOrder
<1>3. new \in [Variants -> LineType]
  <2> HIDE DEF cart
  <2>1. QED BY <1>2, BoundsAssumption DEF LineType, Quantity
<1>4. line \in [Orders -> [Variants -> LineType]]
  BY DEF TypeOK
<1>5. line'[o] = new /\ \A p \in Orders \ {o} : line'[p] = line[p]
  <2> HIDE DEF new
  <2>1. QED BY <1>1, <1>4
<1>6. line' \in [Orders -> [Variants -> LineType]]
  <2> HIDE DEF new
  <2>1. QED BY <1>1, <1>3, <1>4
<1>7. QED BY <1>5, <1>6

\* The operations that hand units back.
OrderHandedBack(o, Vs, delta, reservedDelta) ==
  /\ Move(Vs, delta, reservedDelta)
  /\ Vs = IF status[o] = "PENDING" THEN Holding(o) ELSE Active(o)
  /\ \A v \in Variants :
       /\ delta[v] = IF status[o] = "PENDING" THEN 0 ELSE line[o][v].quantity
       /\ reservedDelta[v] = IF status[o] = "PENDING" THEN 0 - line[o][v].reserved ELSE 0

LEMMA HandBackEffect ==
  ASSUME TypeOK, NEW o \in Orders, HandBack(o)
  PROVE  \E Vs \in SUBSET Variants, delta \in [Variants -> Int], reservedDelta \in [Variants -> Int] :
           OrderHandedBack(o, Vs, delta, reservedDelta)
<1>1. /\ None \in [Variants -> Int] /\ \A v \in Variants : None[v] = 0
      /\ Quantities(o) \in [Variants -> Int]
      /\ \A v \in Variants : Quantities(o)[v] = line[o][v].quantity
      /\ Minus(Holds(o)) \in [Variants -> Int]
      /\ \A v \in Variants : Minus(Holds(o))[v] = 0 - line[o][v].reserved
  BY LineTyped DEF None, Quantities, Minus, Holds
<1>2. Holding(o) \in SUBSET Variants /\ Active(o) \in SUBSET Variants
  BY DEF Holding, Active
<1>3. CASE status[o] = "PENDING"
  <2>1. Move(Holding(o), None, Minus(Holds(o)))
    BY <1>3 DEF HandBack
  <2>2. OrderHandedBack(o, Holding(o), None, Minus(Holds(o)))
    BY <1>1, <1>3, <2>1 DEF OrderHandedBack
  <2>3. QED BY <1>1, <1>2, <2>2
<1>4. CASE status[o] # "PENDING"
  <2>1. Move(Active(o), Quantities(o), None)
    BY <1>4 DEF HandBack
  <2>2. OrderHandedBack(o, Active(o), Quantities(o), None)
    BY <1>1, <1>4, <2>1 DEF OrderHandedBack
  <2>3. QED BY <1>1, <1>2, <2>2
<1>5. QED BY <1>3, <1>4

UnitsHandedBack(o, v, q, Vs, delta, reservedDelta) ==
  /\ Move(Vs, delta, reservedDelta)
  /\ status[o] = "PENDING" =>
       /\ Vs = { x \in {v} : Smaller(q, line[o][v].reserved) > 0 }
       /\ delta[v] = 0
       /\ reservedDelta[v] = 0 - Smaller(q, line[o][v].reserved)
  /\ status[o] # "PENDING" => Vs = {v} /\ delta[v] = q /\ reservedDelta[v] = 0

LEMMA HandUnitsBackEffect ==
  ASSUME TypeOK, NEW o \in Orders, NEW v \in Variants, NEW q \in 1..MaxUnits,
         HandUnitsBack(o, v, q)
  PROVE  \E Vs \in SUBSET {v}, delta \in [Variants -> Int], reservedDelta \in [Variants -> Int] :
           UnitsHandedBack(o, v, q, Vs, delta, reservedDelta)
<1> DEFINE release == Smaller(q, line[o][v].reserved)
<1>0. release \in Int /\ q \in Int
  BY LineTyped DEF Smaller
<1>1. None \in [Variants -> Int] /\ None[v] = 0
  BY DEF None
<1>2. CASE status[o] = "PENDING"
  <2> DEFINE Vs == { x \in {v} : release > 0 }
             rd == [None EXCEPT ![v] = 0 - release]
  <2>1. Move(Vs, None, rd)
    BY <1>2 DEF HandUnitsBack
  <2>2. rd \in [Variants -> Int] /\ rd[v] = 0 - release
    BY <1>0, <1>1
  <2>3. UnitsHandedBack(o, v, q, Vs, None, rd)
    BY <1>1, <1>2, <2>1, <2>2 DEF UnitsHandedBack
  <2>4. Vs \in SUBSET {v}
    OBVIOUS
  <2> HIDE DEF Vs, rd
  <2>5. QED BY <1>1, <2>2, <2>3, <2>4
<1>3. CASE status[o] # "PENDING"
  <2> DEFINE d == [None EXCEPT ![v] = q]
  <2>1. Move({v}, d, None)
    BY <1>3 DEF HandUnitsBack
  <2>2. d \in [Variants -> Int] /\ d[v] = q
    BY <1>0, <1>1
  <2>3. UnitsHandedBack(o, v, q, {v}, d, None)
    BY <1>1, <1>3, <2>1, <2>2 DEF UnitsHandedBack
  <2> HIDE DEF d
  <2>4. QED BY <1>1, <2>2, <2>3
<1>4. QED BY <1>2, <1>3

\* A stock count moves one variant and holds nothing.
LEMMA AdjustEffect ==
  ASSUME TypeOK, NEW v \in Variants, NEW delta \in Counts, AdjustStock(v, delta)
  PROVE  /\ delta \in Int
         /\ [None EXCEPT ![v] = delta] \in [Variants -> Int] /\ None \in [Variants -> Int]
         /\ [None EXCEPT ![v] = delta][v] = delta /\ None[v] = 0
         /\ Move({v}, [None EXCEPT ![v] = delta], None)
BY BoundsAssumption DEF AdjustStock, None

LEMMA BackorderEffect ==
  ASSUME TypeOK, NEW v \in Variants, SwitchBackorder(v)
  PROVE  /\ stock' \in [Variants -> StockType]
         /\ \A w \in Variants : /\ stock'[w].onHand = stock[w].onHand
                                /\ stock'[w].reserved = stock[w].reserved
         /\ \A w \in Variants \ {v} : stock'[w].backorder = stock[w].backorder
<1>1. stock \in [Variants -> StockType]
  BY DEF TypeOK, StockType
<1>2. stock' = [stock EXCEPT ![v].backorder = ~stock[v].backorder]
  BY DEF SwitchBackorder
<1> DEFINE b == ~stock[v].backorder
<1>3. b \in BOOLEAN /\ stock' = [stock EXCEPT ![v] = [stock[v] EXCEPT !.backorder = b]]
  BY <1>1, <1>2
<1> HIDE DEF b
<1> DEFINE new == [stock[v] EXCEPT !.backorder = b]
<1>4. new \in StockType /\ new.onHand = stock[v].onHand /\ new.reserved = stock[v].reserved
  BY <1>1, <1>3 DEF StockType
<1> HIDE DEF new
<1>5. stock' = [stock EXCEPT ![v] = new]
  BY <1>3 DEF new
<1>6. QED BY <1>1, <1>4, <1>5

----------------------------------------------------------------------------
(* Type correctness.                                                        *)

LEMMA StartType ==
  ASSUME TypeOK, NEW t \in Threads, NEW asks \in Requests, StartCheckout(t, asks)
  PROVE  TypeOK'
<1>1. [pc |-> "drafted", asks |-> asks] \in TxType
  BY DEF TxType
<1>2. tx' \in [Threads -> TxType \cup {Idle}]
  BY <1>1 DEF TypeOK, StartCheckout
<1>3. QED BY <1>2 DEF TypeOK, StartCheckout, orderVars, couponVars

LEMMA HoldType ==
  ASSUME TypeOK, NEW t \in Threads, HoldStock(t)
  PROVE  TypeOK'
<1>1. tx[t] \in TxType
  BY Asked DEF HoldStock
<1>2. [tx[t] EXCEPT !.pc = "holding"] \in TxType
  BY <1>1 DEF TxType
<1>3. tx' \in [Threads -> TxType \cup {Idle}]
  BY <1>2 DEF TypeOK, HoldStock
<1>4. QED BY <1>3 DEF TypeOK, HoldStock, orderVars, couponVars, historyVars

LEMMA AbandonType ==
  ASSUME TypeOK, NEW t \in Threads, AbandonCheckout(t)
  PROVE  TypeOK'
BY DEF TypeOK, AbandonCheckout, orderVars, couponVars, historyVars

LEMMA PlaceType ==
  ASSUME TypeOK, NEW t \in Threads, NEW o \in Orders,
         NEW initial \in {"PENDING", "CONFIRMED"}, PlaceOrder(t, o, initial)
  PROVE  TypeOK'
<1>1. stock' \in [Variants -> StockType]
  BY PlaceEffect
<1>2. line' \in [Orders -> [Variants -> LineType]]
  BY PlaceLines
<1>3. tx[t].asks.customer \in Customers /\ tx[t].asks.coupon \in BOOLEAN
  BY Asked DEF PlaceOrder
<1>4. usages' \subseteq Orders /\ usageCount' \in Nat /\ usageLimit' \in UsageLimits
  <2>1. TakeCoupon(o, tx[t].asks.coupon)
    BY DEF PlaceOrder
  <2>2. usageCount \in Nat /\ usages \subseteq Orders /\ usageLimit \in UsageLimits
    BY DEF TypeOK
  <2>3. QED BY <1>3, <2>1, <2>2 DEF TakeCoupon
<1>5. customer' \in [Orders -> Customers \cup {NoCustomer}]
  BY <1>3 DEF TypeOK, PlaceOrder
<1>6. status' \in [Orders -> OrderStatus]
  BY DEF TypeOK, PlaceOrder, OrderStatus
<1>7. tx' \in [Threads -> TxType \cup {Idle}] /\ keyed' \subseteq Orders
  BY DEF TypeOK, PlaceOrder
<1>8. raced' \in BOOLEAN /\ torn' \subseteq Orders /\ upkeep' \in 0..MaxUpkeep
  BY DEF TypeOK, PlaceOrder, historyVars
<1>9. QED BY <1>1, <1>2, <1>4, <1>5, <1>6, <1>7, <1>8 DEF TypeOK, StockType

LEMMA CommitType ==
  ASSUME TypeOK, NEW o \in Orders, NEW Vs \in SUBSET Variants, CommitLines(o, Vs)
  PROVE  /\ stock' \in [Variants -> StockType]
         /\ line' \in [Orders -> [Variants -> LineType]]
<1>1. Move(Vs, Minus(Holds(o)), Minus(Holds(o))) /\ Minus(Holds(o)) \in [Variants -> Int]
  BY CommitEffect
<1>2. QED BY <1>1, MoveEffect, CommitEffect

LEMMA ConfirmType ==
  ASSUME TypeOK, NEW o \in Orders, Confirm(o)
  PROVE  TypeOK'
<1>1. Holding(o) \in SUBSET Variants
  BY DEF Holding, Active
<1>2. /\ stock' \in [Variants -> StockType]
      /\ line' \in [Orders -> [Variants -> LineType]]
  BY <1>1, CommitType DEF Confirm
<1>3. status' \in [Orders -> OrderStatus]
  BY DEF TypeOK, Confirm, OrderStatus
<1>4. QED BY <1>2, <1>3 DEF TypeOK, StockType, Confirm, couponVars, historyVars

LEMMA SkipType ==
  ASSUME TypeOK, NEW o \in Orders, NEW Vs \in SUBSET Variants, SkipInBulk(o, Vs)
  PROVE  TypeOK'
<1>1. /\ stock' \in [Variants -> StockType]
      /\ line' \in [Orders -> [Variants -> LineType]]
  BY CommitType DEF SkipInBulk
<1>2. torn' \subseteq Orders
  BY DEF TypeOK, SkipInBulk
<1>3. QED BY <1>1, <1>2 DEF TypeOK, StockType, SkipInBulk, couponVars

LEMMA AdvanceType ==
  ASSUME TypeOK, NEW o \in Orders, Advance(o)
  PROVE  TypeOK'
<1>1. status' \in [Orders -> OrderStatus]
  BY DEF TypeOK, Advance, OrderStatus
<1>2. QED BY <1>1 DEF TypeOK, Advance, couponVars, historyVars

LEMMA GiveBackType ==
  ASSUME TypeOK, NEW o \in Orders, GiveCouponBack(o)
  PROVE  usages' \subseteq Orders /\ usageCount' \in Nat /\ usageLimit' \in UsageLimits
BY DEF TypeOK, GiveCouponBack

LEMMA CancelType ==
  ASSUME TypeOK, NEW o \in Orders, NEW to \in {"CANCELLED", "FAILED"}, Cancel(o, to)
  PROVE  TypeOK'
<1>1. HandBack(o) /\ GiveCouponBack(o)
  BY DEF Cancel
<1>2. stock' \in [Variants -> StockType]
  <2>1. PICK Vs \in SUBSET Variants, delta \in [Variants -> Int], reservedDelta \in [Variants -> Int] :
           OrderHandedBack(o, Vs, delta, reservedDelta)
    BY <1>1, HandBackEffect
  <2>2. QED BY <2>1, MoveEffect DEF OrderHandedBack
<1>3. line' \in [Orders -> [Variants -> LineType]]
  BY CancelEffect
<1>4. status' \in [Orders -> OrderStatus]
  BY DEF TypeOK, Cancel, OrderStatus
<1>5. QED BY <1>1, <1>2, <1>3, <1>4, GiveBackType DEF TypeOK, StockType, Cancel, historyVars

LEMMA CancelItemType ==
  ASSUME TypeOK, NEW o \in Orders, NEW v \in Variants, NEW q \in 1..MaxUnits,
         CancelItem(o, v, q)
  PROVE  TypeOK'
<1>1. HandUnitsBack(o, v, q)
  BY DEF CancelItem
<1>2. stock' \in [Variants -> StockType]
  <2>1. PICK Vs \in SUBSET {v}, delta \in [Variants -> Int], reservedDelta \in [Variants -> Int] :
           UnitsHandedBack(o, v, q, Vs, delta, reservedDelta)
    BY <1>1, HandUnitsBackEffect
  <2>2. Vs \in SUBSET Variants
    OBVIOUS
  <2>3. QED BY <2>1, <2>2, MoveEffect DEF UnitsHandedBack
<1>3. line' \in [Orders -> [Variants -> LineType]]
  BY CancelItemEffect
<1>4. status' \in [Orders -> OrderStatus]
  BY DEF TypeOK, CancelItem, OrderStatus
<1>5. usages' \subseteq Orders /\ usageCount' \in Nat /\ usageLimit' \in UsageLimits
  BY GiveBackType DEF CancelItem, couponVars, TypeOK
<1>6. QED BY <1>2, <1>3, <1>4, <1>5 DEF TypeOK, StockType, CancelItem, historyVars

LEMMA UpkeepType ==
  ASSUME TypeOK, Upkeep, stock' \in [Variants -> StockType]
  PROVE  TypeOK'
BY BoundsAssumption DEF TypeOK, StockType, Upkeep, orderVars, couponVars, historyVars

LEMMA TypeStep ==
  ASSUME TypeOK, [Next]_vars
  PROVE  TypeOK'
<1>1. ASSUME NEW t \in Threads, Checkout(t) PROVE TypeOK'
  BY <1>1, StartType, HoldType, PlaceType, AbandonType DEF Checkout
<1>2. ASSUME NEW o \in Orders, Operate(o) PROVE TypeOK'
  BY <1>2, ConfirmType, AdvanceType, SkipType, CancelType, CancelItemType DEF Operate
<1>3. ASSUME NEW v \in Variants, NEW delta \in Counts, AdjustStock(v, delta) PROVE TypeOK'
  <2>1. {v} \in SUBSET Variants
    OBVIOUS
  <2>2. stock' \in [Variants -> StockType]
    BY <1>3, <2>1, AdjustEffect, MoveEffect
  <2>3. QED BY <1>3, <2>2, UpkeepType DEF AdjustStock
<1>4. ASSUME NEW v \in Variants, SwitchBackorder(v) PROVE TypeOK'
  BY <1>4, BackorderEffect, UpkeepType DEF SwitchBackorder
<1>5. CASE UNCHANGED vars
  BY <1>5 DEF TypeOK, vars, orderVars, couponVars, historyVars
<1>6. QED BY <1>1, <1>2, <1>3, <1>4, <1>5 DEF Next

LEMMA TypeInit ==
  ASSUME Init
  PROVE  TypeOK
<1>1. stock \in [Variants -> StockType]
  BY BoundsAssumption DEF Init, StockType
<1>2. line \in [Orders -> [Variants -> LineType]]
  BY BoundsAssumption DEF Init, NoLines, NoLine, LineType
<1>3. /\ tx \in [Threads -> TxType \cup {Idle}] /\ status \in [Orders -> OrderStatus]
      /\ customer \in [Orders -> Customers \cup {NoCustomer}]
  BY DEF Init, OrderStatus
<1>4. usageCount \in Nat /\ usageLimit \in UsageLimits /\ upkeep \in 0..MaxUpkeep
  BY BoundsAssumption DEF Init
<1>5. raced \in BOOLEAN /\ torn \subseteq Orders /\ keyed \subseteq Orders /\ usages \subseteq Orders
  BY DEF Init
<1>6. QED BY <1>1, <1>2, <1>3, <1>4, <1>5 DEF TypeOK, StockType

\* Every variable keeps its type: in particular no item ever has a negative
\* amount reserved and no line goes below zero.
THEOREM TypeCorrect == Spec => []TypeOK
<1>1. Init => TypeOK
  BY TypeInit
<1>2. TypeOK /\ [Next]_vars => TypeOK'
  BY TypeStep
<1>3. QED BY <1>1, <1>2, PTL DEF Spec

----------------------------------------------------------------------------
(* The lines: what they hold, and of which orders.                          *)

\* A line holds no more than its units, only while its order is PENDING, and
\* an order that does not exist has no line.
LinesOK ==
  \A o \in Orders, v \in Variants :
    /\ line[o][v].reserved <= line[o][v].quantity
    /\ line[o][v].reserved > 0 => status[o] = "PENDING" /\ line[o][v].active
    /\ status[o] = "ABSENT" => ~line[o][v].active

\* Only the order that is operated on changes.
LEMMA LinesOKOne ==
  ASSUME TypeOK, LinesOK, NEW o \in Orders,
         \A p \in Orders \ {o} : line'[p] = line[p] /\ status'[p] = status[p],
         \A v \in Variants :
           /\ line'[o][v].reserved <= line'[o][v].quantity
           /\ line'[o][v].reserved > 0 => status'[o] = "PENDING" /\ line'[o][v].active
           /\ status'[o] = "ABSENT" => ~line'[o][v].active
  PROVE  LinesOK'
BY DEF LinesOK

LEMMA StatusOf ==
  ASSUME TypeOK, NEW o \in Orders, NEW x, status' = [status EXCEPT ![o] = x]
  PROVE  status'[o] = x /\ \A p \in Orders \ {o} : status'[p] = status[p]
BY DEF TypeOK

LEMMA SmallerIs ==
  ASSUME NEW a \in Nat, NEW b \in Nat
  PROVE  /\ Smaller(a, b) \in Nat
         /\ a <= b => Smaller(a, b) = a
         /\ b <= a => Smaller(a, b) = b
BY DEF Smaller

LEMMA PlaceLinesOK ==
  ASSUME TypeOK, LinesOK, NEW t \in Threads, NEW o \in Orders,
         NEW initial \in {"PENDING", "CONFIRMED"}, PlaceOrder(t, o, initial)
  PROVE  LinesOK'
<1>1. tx[t].asks.cart \in [Variants -> Quantity] /\ Quantity \subseteq Nat
  <2>1. tx[t].asks.cart \in [Variants -> Quantity]
    BY Asked DEF PlaceOrder
  <2>2. QED BY <2>1, BoundsAssumption DEF Quantity
<1>2. status'[o] = initial /\ \A p \in Orders \ {o} : status'[p] = status[p]
  BY DEF PlaceOrder, TypeOK
<1>3. \A p \in Orders \ {o} : line'[p] = line[p]
  BY PlaceLines
<1>4. ASSUME NEW v \in Variants
      PROVE  /\ line'[o][v].reserved <= line'[o][v].quantity
             /\ line'[o][v].reserved > 0 => initial = "PENDING" /\ line'[o][v].active
  <2>1. tx[t].asks.cart[v] \in Nat
    BY <1>1
  <2>2. /\ line'[o][v].active = (tx[t].asks.cart[v] > 0)
        /\ line'[o][v].quantity = tx[t].asks.cart[v]
        /\ line'[o][v].reserved = IF initial = "PENDING" THEN tx[t].asks.cart[v] ELSE 0
    BY PlaceLines
  <2>3. CASE initial = "PENDING"
    <3>1. line'[o][v].reserved = line'[o][v].quantity /\ line'[o][v].quantity \in Nat
      BY <2>1, <2>2, <2>3
    <3>2. line'[o][v].reserved > 0 => line'[o][v].active
      BY <2>1, <2>2, <2>3, Zenon
    <3>3. QED BY <2>3, <3>1, <3>2
  <2>4. CASE initial # "PENDING"
    <3>1. line'[o][v].reserved = 0 /\ line'[o][v].quantity \in Nat
      BY <2>1, <2>2, <2>4
    <3>2. QED BY <3>1
  <2>5. QED BY <2>3, <2>4
<1>5. QED BY <1>2, <1>3, <1>4, LinesOKOne

LEMMA ConfirmLinesOK ==
  ASSUME TypeOK, LinesOK, NEW o \in Orders, Confirm(o)
  PROVE  LinesOK'
<1>1. Holding(o) \in SUBSET Variants /\ CommitLines(o, Holding(o)) /\ status[o] = "PENDING"
  BY DEF Confirm, Holding, Active
<1>2. status'[o] = "CONFIRMED" /\ \A p \in Orders \ {o} : status'[p] = status[p]
  BY DEF Confirm, TypeOK
<1>3. /\ \A p \in Orders \ {o} : line'[p] = line[p]
      /\ \A v \in Variants :
           /\ line'[o][v].quantity = line[o][v].quantity
           /\ line'[o][v].reserved = IF v \in Holding(o) THEN 0 ELSE line[o][v].reserved
  BY <1>1, CommitEffect
<1>4. ASSUME NEW v \in Variants PROVE line'[o][v].reserved = 0 /\ line'[o][v].quantity \in Nat
  BY <1>3, LineTyped DEF LinesOK, Holding, Active
<1>5. QED BY <1>2, <1>3, <1>4, LinesOKOne

LEMMA SkipLinesOK ==
  ASSUME TypeOK, LinesOK, NEW o \in Orders, NEW Vs \in SUBSET Variants, SkipInBulk(o, Vs)
  PROVE  LinesOK'
<1>1. CommitLines(o, Vs) /\ status[o] = "PENDING" /\ status' = status
  BY DEF SkipInBulk
<1>2. /\ \A p \in Orders \ {o} : line'[p] = line[p]
      /\ \A v \in Variants :
           /\ line'[o][v].active = line[o][v].active
           /\ line'[o][v].quantity = line[o][v].quantity
           /\ line'[o][v].reserved = IF v \in Vs THEN 0 ELSE line[o][v].reserved
  BY <1>1, CommitEffect
<1>3. QED BY <1>1, <1>2, LineTyped, LinesOKOne DEF LinesOK

LEMMA CancelLinesOK ==
  ASSUME TypeOK, LinesOK, NEW o \in Orders, NEW to \in {"CANCELLED", "FAILED"}, Cancel(o, to)
  PROVE  LinesOK'
<1>1. status'[o] = to /\ \A p \in Orders \ {o} : status'[p] = status[p]
  BY DEF Cancel, TypeOK
<1>2. ASSUME NEW v \in Variants
      PROVE  line'[o][v].reserved = 0 /\ line'[o][v].quantity \in Nat
  <2>1. CASE line[o][v].active
    <3>1. line'[o][v] = CancelLine(line[o][v])
      BY <2>1, CancelEffect
    <3>2. line[o][v] \in LineType /\ line[o][v].quantity \in Nat
      BY LineTyped
    <3>3. /\ CancelLine(line[o][v]).reserved = 0
          /\ CancelLine(line[o][v]).quantity = line[o][v].quantity
      BY <3>2, CancelLineEffect
    <3>4. QED BY <3>1, <3>2, <3>3
  <2>2. CASE ~line[o][v].active
    BY <2>2, CancelEffect, LineTyped DEF LinesOK
  <2>3. QED BY <2>1, <2>2
<1>3. QED BY <1>1, <1>2, CancelEffect, LinesOKOne

LEMMA CancelItemLinesOK ==
  ASSUME TypeOK, LinesOK, NEW o \in Orders, NEW v \in Variants, NEW q \in 1..MaxUnits,
         CancelItem(o, v, q)
  PROVE  LinesOK'
<1> DEFINE l == line[o][v]
           last == q = l.quantity /\ Active(o) = {v}
<1>1. /\ status'[o] = IF last THEN "CANCELLED" ELSE status[o]
      /\ \A p \in Orders \ {o} : status'[p] = status[p]
  BY DEF CancelItem, TypeOK
<1>2. status[o] # "ABSENT" /\ status'[o] # "ABSENT"
  BY <1>1 DEF CancelItem
<1>3. l \in LineType /\ q \in 1..l.quantity /\ l.quantity \in Nat /\ l.reserved \in Nat
  BY CancelItemEffect, LineTyped
<1>4. l.reserved <= l.quantity /\ l.active
  BY CancelItemEffect DEF LinesOK
<1>5. /\ line'[o][v].reserved <= line'[o][v].quantity
      /\ line'[o][v].reserved > 0 => status'[o] = "PENDING" /\ line'[o][v].active
  <2>1. CASE q = l.quantity
    <3>1. line'[o][v] = CancelLine(l)
      BY <2>1, CancelItemEffect
    <3>2. line'[o][v].quantity = l.quantity /\ line'[o][v].reserved = 0
      BY <3>1, <1>3, CancelLineEffect
    <3>3. QED BY <1>3, <3>2
  <2>2. CASE q # l.quantity
    <3>1. /\ line'[o][v].active = l.active /\ line'[o][v].quantity = l.quantity - q
          /\ line'[o][v].reserved = IF l.reserved > q THEN l.reserved - q ELSE 0
      BY <2>2, <1>3, CancelItemEffect, ShorterEffect
    <3>2. status'[o] = status[o]
      BY <1>1, <2>2
    <3>3. QED BY <1>3, <1>4, <3>1, <3>2 DEF LinesOK
  <2>3. QED BY <2>1, <2>2
<1>6. ASSUME NEW w \in Variants \ {v}
      PROVE  /\ line'[o][w].reserved <= line'[o][w].quantity
             /\ line'[o][w].reserved > 0 => status'[o] = "PENDING" /\ line'[o][w].active
  <2>1. line'[o][w] = line[o][w]
    BY CancelItemEffect
  <2>2. CASE last
    BY <2>1, <2>2, LineTyped DEF LinesOK, Active
  <2>3. CASE ~last
    BY <2>1, <2>3, <1>1 DEF LinesOK
  <2>4. QED BY <2>2, <2>3
<1>7. \A p \in Orders \ {o} : line'[p] = line[p]
  BY CancelItemEffect
<1> HIDE DEF l, last
<1>8. QED BY <1>1, <1>2, <1>5, <1>6, <1>7, LinesOKOne

LEMMA LinesStep ==
  ASSUME TypeOK, LinesOK, [Next]_vars
  PROVE  LinesOK'
<1>1. ASSUME UNCHANGED <<line, status>> PROVE LinesOK'
  BY <1>1 DEF LinesOK
<1>2. ASSUME NEW t \in Threads, Checkout(t) PROVE LinesOK'
  BY <1>1, <1>2, PlaceLinesOK
     DEF Checkout, StartCheckout, HoldStock, AbandonCheckout, orderVars
<1>3. ASSUME NEW o \in Orders, Operate(o) PROVE LinesOK'
  <2>1. ASSUME Advance(o) PROVE LinesOK'
    <3>1. /\ status[o] \in {"CONFIRMED", "PROCESSING"} /\ line' = line
          /\ status'[o] \in {"PROCESSING", "PACKED"}
          /\ \A p \in Orders \ {o} : status'[p] = status[p]
      BY <2>1 DEF Advance, TypeOK
    <3>2. QED BY <3>1, LinesOKOne, LineTyped DEF LinesOK
  <2>2. QED BY <1>3, <2>1, ConfirmLinesOK, SkipLinesOK, CancelLinesOK, CancelItemLinesOK DEF Operate
<1>4. ASSUME Upkeep PROVE LinesOK'
  BY <1>1, <1>4 DEF Upkeep, orderVars
<1>5. CASE UNCHANGED vars
  BY <1>1, <1>5 DEF vars, orderVars
<1>6. QED BY <1>2, <1>3, <1>4, <1>5 DEF Next, AdjustStock, SwitchBackorder

----------------------------------------------------------------------------
(* What a checkout holds stays there until it is over.                      *)

Holder(t) == tx[t].pc = "holding"

\* Two checkouts that hold units hold those of different variants, and the
\* units each of them found are still there.
LocksOK ==
  \A t \in Threads :
    Holder(t) =>
      /\ \A u \in Threads \ {t} :
           Holder(u) => \A v \in Variants : tx[t].asks.cart[v] = 0 \/ tx[u].asks.cart[v] = 0
      /\ \A v \in Variants :
           tx[t].asks.cart[v] > 0 =>
             stock[v].backorder \/ tx[t].asks.cart[v] <= Free(v)

\* A step that leaves the holders, and the items they hold, alone.
LEMMA LocksKept ==
  ASSUME TypeOK, TypeOK', LocksOK,
         \A t \in Threads : tx'[t].pc = "holding" => tx'[t] = tx[t],
         \A t \in Threads, v \in Variants :
           tx'[t].pc = "holding" /\ tx[t].asks.cart[v] > 0 =>
             /\ stock'[v].onHand = stock[v].onHand
             /\ stock'[v].reserved = stock[v].reserved
             /\ stock'[v].backorder = stock[v].backorder
  PROVE  LocksOK'
BY DEF LocksOK, Holder, Free

LEMMA LocksKeptByMove ==
  ASSUME TypeOK, TypeOK', LocksOK, NEW Vs \in SUBSET Variants,
         NEW delta \in [Variants -> Int], NEW reservedDelta \in [Variants -> Int],
         Move(Vs, delta, reservedDelta), tx' = tx
  PROVE  LocksOK'
<1>1. ASSUME NEW t \in Threads, NEW v \in Variants, tx[t].pc = "holding", tx[t].asks.cart[v] > 0
      PROVE  /\ stock'[v].onHand = stock[v].onHand
             /\ stock'[v].reserved = stock[v].reserved
             /\ stock'[v].backorder = stock[v].backorder
  <2>1. v \notin Vs
    BY <1>1, MoveEffect DEF Locked
  <2>2. stock'[v] = stock[v]
    BY <2>1 DEF Move
  <2>3. QED BY <2>2
<1>2. QED BY <1>1, LocksKept

LEMMA HoldLocks ==
  ASSUME TypeOK, TypeOK', LocksOK, NEW t \in Threads, HoldStock(t)
  PROVE  LocksOK'
<1> DEFINE cart == tx[t].asks.cart
<1>1. tx[t] \in TxType /\ cart \in [Variants -> Nat]
  BY Asked, BoundsAssumption DEF HoldStock, Quantity
<1>2. /\ tx'[t].pc = "holding" /\ tx'[t].asks = tx[t].asks
      /\ \A u \in Threads \ {t} : tx'[u] = tx[u]
  BY <1>1 DEF HoldStock, TypeOK, TxType
<1>3. \A v \in Variants : cart[v] > 0 => ~Locked(v) /\ MayMove(v, 0, cart[v])
  BY DEF HoldStock, Ordered
<1>4. ASSUME NEW v \in Variants, cart[v] > 0
      PROVE  stock[v].backorder \/ cart[v] <= Free(v)
  <2>1. stock[v].backorder \/ Free(v) + 0 - cart[v] >= 0
    BY <1>3, <1>4 DEF MayMove, Enough
  <2>2. Free(v) \in Int /\ cart[v] \in Nat
    BY <1>1 DEF Free, TypeOK
  <2>3. QED BY <2>1, <2>2
<1>5. ASSUME NEW u \in Threads \ {t}, Holder(u), NEW v \in Variants
      PROVE  tx[u].asks.cart[v] = 0 \/ cart[v] = 0
  <2>1. tx[u].asks.cart[v] \in Nat /\ cart[v] \in Nat
    BY <1>1, <1>5, Asked, BoundsAssumption DEF Holder, Quantity
  <2>2. QED BY <1>3, <1>5, <2>1 DEF Locked, Holder
<1>6. stock' = stock
  BY DEF HoldStock
<1>7. Holder(t)'
  BY <1>2 DEF Holder
<1>8. \A u \in Threads \ {t} : Holder(u)' = Holder(u) /\ tx'[u] = tx[u]
  BY <1>2 DEF Holder
<1>9. \A v \in Variants : Free(v)' = Free(v) /\ stock'[v].backorder = stock[v].backorder
  BY <1>6 DEF Free
<1> HIDE DEF cart
<1>10. QED BY <1>2, <1>4, <1>5, <1>7, <1>8, <1>9 DEF LocksOK, cart

LEMMA PlaceLocks ==
  ASSUME TypeOK, TypeOK', LocksOK, NEW t \in Threads, NEW o \in Orders,
         NEW initial \in {"PENDING", "CONFIRMED"}, PlaceOrder(t, o, initial)
  PROVE  LocksOK'
<1>1. tx'[t] = Idle /\ \A u \in Threads \ {t} : tx'[u] = tx[u]
  BY DEF PlaceOrder, TypeOK
<1>2. \A u \in Threads : tx'[u].pc = "holding" => u # t /\ tx'[u] = tx[u]
  BY <1>1 DEF Idle
<1>3. tx[t].asks.cart \in [Variants -> Nat] /\ Holder(t)
  <2>1. tx[t].pc = "holding"
    BY DEF PlaceOrder
  <2>2. tx[t].asks.cart \in [Variants -> Quantity] /\ Quantity \subseteq Nat
    BY <2>1, Asked, BoundsAssumption DEF Quantity
  <2>3. QED BY <2>1, <2>2 DEF Holder
<1>4. ASSUME NEW u \in Threads, NEW v \in Variants, tx'[u].pc = "holding", tx[u].asks.cart[v] > 0
      PROVE  /\ stock'[v].onHand = stock[v].onHand
             /\ stock'[v].reserved = stock[v].reserved
             /\ stock'[v].backorder = stock[v].backorder
  <2>1. tx[t].asks.cart[v] = 0
    BY <1>2, <1>3, <1>4 DEF LocksOK, Holder
  <2>2. stock[v].onHand \in Int /\ stock[v].reserved \in Nat
    BY DEF TypeOK
  <2>3. QED BY <2>1, <2>2, PlaceEffect
<1>5. QED BY <1>2, <1>4, LocksKept

LEMMA StillHolders ==
  ASSUME TypeOK, TypeOK', LocksOK, stock' = stock,
         NEW t \in Threads, NEW x, x.pc # "holding", tx' = [tx EXCEPT ![t] = x]
  PROVE  LocksOK'
<1>1. \A u \in Threads : tx'[u].pc = "holding" => tx'[u] = tx[u]
  BY DEF TypeOK
<1>2. QED BY <1>1, LocksKept

LEMMA CancelItemMoves ==
  ASSUME TypeOK, NEW o \in Orders, NEW v \in Variants, NEW q \in 1..MaxUnits,
         CancelItem(o, v, q)
  PROVE  \E Vs \in SUBSET Variants, delta \in [Variants -> Int], reservedDelta \in [Variants -> Int] :
           UnitsHandedBack(o, v, q, Vs, delta, reservedDelta) /\ Vs \subseteq {v}
<1>1. PICK Vs \in SUBSET {v}, delta \in [Variants -> Int], reservedDelta \in [Variants -> Int] :
        UnitsHandedBack(o, v, q, Vs, delta, reservedDelta)
  BY HandUnitsBackEffect DEF CancelItem
<1>2. Vs \in SUBSET Variants
  OBVIOUS
<1>3. QED BY <1>1, <1>2

LEMMA CancelMoves ==
  ASSUME TypeOK, NEW o \in Orders, NEW to, Cancel(o, to)
  PROVE  \E Vs \in SUBSET Variants, delta \in [Variants -> Int], reservedDelta \in [Variants -> Int] :
           OrderHandedBack(o, Vs, delta, reservedDelta)
BY HandBackEffect DEF Cancel

LEMMA CommitMoves ==
  ASSUME TypeOK, NEW o \in Orders, NEW Vs \in SUBSET Variants, CommitLines(o, Vs)
  PROVE  \E delta \in [Variants -> Int] : Move(Vs, delta, delta)
<1>1. Minus(Holds(o)) \in [Variants -> Int] /\ Move(Vs, Minus(Holds(o)), Minus(Holds(o)))
  BY CommitEffect
<1>2. QED BY <1>1, Zenon

\* Every step but a checkout's moves units as a movement of stock does, or
\* switches the backorder of a variant nobody holds.
LEMMA OperateMoves ==
  ASSUME TypeOK, NEW o \in Orders, Operate(o)
  PROVE  /\ tx' = tx
         /\ \/ stock' = stock
            \/ \E Vs \in SUBSET Variants, delta \in [Variants -> Int],
                  reservedDelta \in [Variants -> Int] : Move(Vs, delta, reservedDelta)
<1>1. tx' = tx
  BY DEF Operate, Confirm, Advance, SkipInBulk, Cancel, CancelItem
<1>2. CASE Confirm(o)
  <2>1. Holding(o) \in SUBSET Variants /\ CommitLines(o, Holding(o))
    BY <1>2 DEF Confirm, Holding, Active
  <2>2. QED BY <1>1, <2>1, CommitMoves
<1>3. CASE Advance(o)
  BY <1>1, <1>3 DEF Advance
<1>4. ASSUME NEW Vs \in SUBSET Variants, SkipInBulk(o, Vs)
      PROVE  \E delta \in [Variants -> Int] : Move(Vs, delta, delta)
  BY <1>4, CommitMoves DEF SkipInBulk
<1>5. ASSUME NEW to \in {"CANCELLED", "FAILED"}, Cancel(o, to)
      PROVE  \E Vs \in SUBSET Variants, delta \in [Variants -> Int],
               reservedDelta \in [Variants -> Int] : Move(Vs, delta, reservedDelta)
  BY <1>5, CancelMoves DEF OrderHandedBack
<1>6. ASSUME NEW v \in Variants, NEW q \in 1..MaxUnits, CancelItem(o, v, q)
      PROVE  \E Vs \in SUBSET Variants, delta \in [Variants -> Int],
               reservedDelta \in [Variants -> Int] : Move(Vs, delta, reservedDelta)
  BY <1>6, CancelItemMoves DEF UnitsHandedBack
<1>7. QED BY <1>1, <1>2, <1>3, <1>4, <1>5, <1>6 DEF Operate

LEMMA LocksStep ==
  ASSUME TypeOK, TypeOK', LocksOK, [Next]_vars
  PROVE  LocksOK'
<1>1. ASSUME NEW t \in Threads, Checkout(t) PROVE LocksOK'
  <2>1. ASSUME NEW asks \in Requests, StartCheckout(t, asks) PROVE LocksOK'
    <3>1. stock' = stock /\ tx' = [tx EXCEPT ![t] = [pc |-> "drafted", asks |-> asks]]
      BY <2>1 DEF StartCheckout
    <3>2. QED BY <3>1, StillHolders
  <2>2. ASSUME AbandonCheckout(t) PROVE LocksOK'
    <3>1. stock' = stock /\ tx' = [tx EXCEPT ![t] = Idle] /\ Idle.pc # "holding"
      BY <2>2 DEF AbandonCheckout, Idle
    <3>2. QED BY <3>1, StillHolders
  <2>3. QED BY <1>1, <2>1, <2>2, HoldLocks, PlaceLocks DEF Checkout
<1>2. ASSUME tx' = tx, stock' = stock PROVE LocksOK'
  BY <1>2, LocksKept
<1>3. ASSUME NEW o \in Orders, Operate(o) PROVE LocksOK'
  BY <1>2, <1>3, OperateMoves, LocksKeptByMove
<1>4. ASSUME NEW v \in Variants, NEW delta \in Counts, AdjustStock(v, delta) PROVE LocksOK'
  <2>1. {v} \in SUBSET Variants /\ tx' = tx
    BY <1>4 DEF AdjustStock, Upkeep
  <2>2. QED BY <1>4, <2>1, AdjustEffect, LocksKeptByMove
<1>5. ASSUME NEW v \in Variants, SwitchBackorder(v) PROVE LocksOK'
  <2>1. ~Locked(v) /\ tx' = tx
    BY <1>5 DEF SwitchBackorder, Upkeep
  <2>2. ASSUME NEW t \in Threads, NEW w \in Variants, tx[t].pc = "holding", tx[t].asks.cart[w] > 0
        PROVE  /\ stock'[w].onHand = stock[w].onHand
               /\ stock'[w].reserved = stock[w].reserved
               /\ stock'[w].backorder = stock[w].backorder
    <3>1. w # v
      BY <2>1, <2>2 DEF Locked
    <3>2. QED BY <3>1, <1>5, BackorderEffect
  <2>3. QED BY <2>1, <2>2, LocksKept
<1>6. CASE UNCHANGED vars
  BY <1>2, <1>6 DEF vars
<1>7. QED BY <1>1, <1>3, <1>4, <1>5, <1>6 DEF Next

----------------------------------------------------------------------------
(* The sums over the orders.                                                *)

LEMMA OwedTyped ==
  ASSUME TypeOK, LinesOK, NEW o \in Orders, NEW v \in Variants
  PROVE  Owed(o, v) \in Nat
BY LineTyped DEF Owed, LinesOK

\* When one order's lines change, the sums change by what changed in it.
LEMMA SumsMove ==
  ASSUME TypeOK, TypeOK', LinesOK, LinesOK', NEW o \in Orders, NEW v \in Variants,
         \A p \in Orders \ {o} : line'[p] = line[p]
  PROVE  /\ SumOver(HeldBy(v), Orders)' =
              SumOver(HeldBy(v), Orders) + (line'[o][v].reserved - line[o][v].reserved)
         /\ SumOver(OwedBy(v), Orders)' =
              SumOver(OwedBy(v), Orders) + (Owed(o, v)' - Owed(o, v))
<1>1. IsFiniteSet(Orders)
  BY SetsAssumption
<1>2. SumOver(HeldBy(v)', Orders) =
        SumOver(HeldBy(v), Orders) + (HeldBy(v)'[o] - HeldBy(v)[o])
  <2>1. (\A p \in Orders : HeldBy(v)[p] \in Int) /\ (\A p \in Orders : HeldBy(v)'[p] \in Int)
    <3>1. ASSUME NEW p \in Orders PROVE line[p][v].reserved \in Int /\ line'[p][v].reserved \in Int
      BY BoundsAssumption DEF TypeOK, LineType
    <3>2. QED BY <3>1 DEF HeldBy
  <2>2. \A p \in Orders \ {o} : HeldBy(v)[p] = HeldBy(v)'[p]
    BY DEF HeldBy
  <2>3. QED BY <1>1, <2>1, <2>2, SumOverUpdate
<1>3. SumOver(OwedBy(v)', Orders) =
        SumOver(OwedBy(v), Orders) + (OwedBy(v)'[o] - OwedBy(v)[o])
  <2>1. (\A p \in Orders : OwedBy(v)[p] \in Int) /\ (\A p \in Orders : OwedBy(v)'[p] \in Int)
    <3>1. ASSUME NEW p \in Orders PROVE Owed(p, v) \in Int /\ Owed(p, v)' \in Int
      <4>1. Owed(p, v) \in Nat
        BY OwedTyped
      <4>2. line'[p][v].quantity \in Int /\ line'[p][v].reserved \in Int
        BY BoundsAssumption DEF TypeOK, LineType
      <4>3. QED BY <4>1, <4>2 DEF Owed
    <3>2. QED BY <3>1 DEF OwedBy
  <2>2. \A p \in Orders \ {o} : OwedBy(v)[p] = OwedBy(v)'[p]
    BY DEF OwedBy, Owed
  <2>3. QED BY <1>1, <2>1, <2>2, SumOverUpdate
<1>4. /\ HeldBy(v)[o] = line[o][v].reserved /\ HeldBy(v)'[o] = line'[o][v].reserved
      /\ OwedBy(v)[o] = Owed(o, v) /\ OwedBy(v)'[o] = Owed(o, v)'
  BY DEF HeldBy, OwedBy
<1>5. QED BY <1>2, <1>3, <1>4

\* A step that changes one order keeps HoldsMatch if each item's reserved
\* changes by as much as the order's line.
LEMMA HoldsMatchKept ==
  ASSUME TypeOK, TypeOK', LinesOK, LinesOK', HoldsMatch, NEW o \in Orders,
         \A p \in Orders \ {o} : line'[p] = line[p],
         \A v \in Variants :
           stock'[v].reserved = stock[v].reserved + (line'[o][v].reserved - line[o][v].reserved)
  PROVE  HoldsMatch'
<1>1. ASSUME NEW v \in Variants PROVE stock'[v].reserved = SumOver(HeldBy(v), Orders)'
  BY SumsMove DEF HoldsMatch
<1>2. QED BY <1>1 DEF HoldsMatch

----------------------------------------------------------------------------
(* What each operation moves: of the shelf, of the holds, of what is owed.  *)

\* For every variant: the shelf by a, the item's holds and the line's by b.
Shifts(o, a, b) ==
  \A v \in Variants :
    /\ Free(v)' = Free(v) + a[v]
    /\ stock'[v].reserved = stock[v].reserved + b[v]
    /\ stock'[v].backorder = stock[v].backorder
    /\ line'[o][v].reserved = line[o][v].reserved + b[v]

\* And what is owed on the order by c.
Moves(o, a, b, c) ==
  /\ Shifts(o, a, b)
  /\ \A v \in Variants : Owed(o, v)' = Owed(o, v) + c[v]

Amount == [Variants -> Quantity]
Less(q) == [v \in Variants |-> 0 - q[v]]

LEMMA PlaceMoves ==
  ASSUME TypeOK, LinesOK, NEW t \in Threads, NEW o \in Orders,
         NEW initial \in {"PENDING", "CONFIRMED"}, PlaceOrder(t, o, initial)
  PROVE  /\ tx[t].asks.cart \in Amount
         /\ initial = "PENDING" => Moves(o, Less(tx[t].asks.cart), tx[t].asks.cart, None)
         /\ initial = "CONFIRMED" => Moves(o, Less(tx[t].asks.cart), None, tx[t].asks.cart)
<1> DEFINE cart == tx[t].asks.cart
<1>1. tx[t].pc = "holding" /\ status[o] = "ABSENT"
  BY DEF PlaceOrder
<1>2. cart \in Amount
  BY <1>1, Asked DEF Amount
<1>3. ASSUME NEW v \in Variants
      PROVE  /\ line[o][v].reserved = 0 /\ Owed(o, v) = 0
             /\ stock[v].onHand \in Int /\ stock[v].reserved \in Int
             /\ cart[v] \in Nat
  BY <1>1, <1>2, LineTyped, BoundsAssumption DEF LinesOK, Owed, TypeOK, Amount, Quantity
<1>4. ASSUME NEW v \in Variants
      PROVE  Owed(o, v)' = IF initial = "PENDING" THEN 0 ELSE cart[v]
  <2>1. /\ line'[o][v].active = (cart[v] > 0) /\ line'[o][v].quantity = cart[v]
        /\ line'[o][v].reserved = IF initial = "PENDING" THEN cart[v] ELSE 0
    BY PlaceLines
  <2> DEFINE r == line'[o][v].reserved
  <2>2. Owed(o, v)' = IF line'[o][v].active THEN line'[o][v].quantity - r ELSE 0
    BY DEF Owed
  <2>3. cart[v] > 0 \/ cart[v] = 0
    BY <1>3
  <2>4. CASE cart[v] > 0
    <3>1. line'[o][v].active
      BY <2>1, <2>4, Zenon
    <3>2. Owed(o, v)' = cart[v] - r /\ r = IF initial = "PENDING" THEN cart[v] ELSE 0
      BY <2>1, <2>2, <3>1
    <3>3. QED BY <1>3, <3>2
  <2>5. CASE ~(cart[v] > 0)
    <3>1. ~line'[o][v].active
      BY <2>1, <2>5, Zenon
    <3>2. Owed(o, v)' = 0 /\ cart[v] = 0
      BY <2>2, <2>3, <2>5, <3>1
    <3>3. QED BY <3>2
  <2>6. QED BY <2>4, <2>5
<1>5. ASSUME initial = "PENDING" PROVE Moves(o, Less(cart), cart, None)
  <2>1. ASSUME NEW v \in Variants
        PROVE  /\ Free(v)' = Free(v) - cart[v]
               /\ stock'[v].reserved = stock[v].reserved + cart[v]
               /\ stock'[v].backorder = stock[v].backorder
               /\ line'[o][v].reserved = cart[v]
    BY <1>3, <1>5, PlaceEffect, PlaceLines DEF Free
  <2>2. QED BY <1>3, <1>4, <1>5, <2>1 DEF Moves, Shifts, Less, None, Free
<1>6. ASSUME initial = "CONFIRMED" PROVE Moves(o, Less(cart), None, cart)
  <2>1. ASSUME NEW v \in Variants
        PROVE  /\ Free(v)' = Free(v) - cart[v]
               /\ stock'[v].reserved = stock[v].reserved
               /\ stock'[v].backorder = stock[v].backorder
               /\ line'[o][v].reserved = 0
    BY <1>3, <1>6, PlaceEffect, PlaceLines DEF Free
  <2>2. QED BY <1>3, <1>4, <1>6, <2>1 DEF Moves, Shifts, Less, None, Free
<1>7. QED BY <1>2, <1>5, <1>6

\* A confirmation, and the lines a batch has confirmed.
LEMMA CommitMovesOut ==
  ASSUME TypeOK, LinesOK, NEW o \in Orders, NEW Vs \in SUBSET Active(o), CommitLines(o, Vs)
  PROVE  \E q \in Amount : Moves(o, None, Less(q), q)
<1> DEFINE q == [v \in Variants |-> IF v \in Vs THEN line[o][v].reserved ELSE 0]
<1>0. Vs \in SUBSET Variants
  BY DEF Active
<1>1. q \in Amount
  BY LineTyped, BoundsAssumption DEF Amount, Quantity
<1>2. ASSUME NEW v \in Variants
      PROVE  /\ Free(v)' = Free(v) /\ stock'[v].backorder = stock[v].backorder
             /\ stock'[v].reserved = stock[v].reserved - q[v]
             /\ line'[o][v].reserved = line[o][v].reserved - q[v]
             /\ Owed(o, v)' = Owed(o, v) + q[v]
             /\ q[v] \in Nat
  <2> DEFINE d == Minus(Holds(o))
  <2>1. d \in [Variants -> Int] /\ d[v] = 0 - line[o][v].reserved /\ Move(Vs, d, d)
    BY <1>0, CommitEffect
  <2> HIDE DEF d
  <2>2. /\ stock'[v].onHand = stock[v].onHand + (IF v \in Vs THEN d[v] ELSE 0)
        /\ stock'[v].reserved = stock[v].reserved + (IF v \in Vs THEN d[v] ELSE 0)
        /\ stock'[v].backorder = stock[v].backorder
    BY <1>0, <2>1, MoveEffect
  <2>3. /\ line'[o][v].active = line[o][v].active /\ line'[o][v].quantity = line[o][v].quantity
        /\ line'[o][v].reserved = IF v \in Vs THEN 0 ELSE line[o][v].reserved
    BY <1>0, CommitEffect
  <2>4. /\ stock[v].onHand \in Int /\ stock[v].reserved \in Int
        /\ line[o][v].reserved \in Nat /\ line[o][v].quantity \in Nat
    BY LineTyped DEF TypeOK
  <2>5. v \in Vs => line[o][v].active
    BY DEF Active
  <2>6. CASE v \in Vs
    BY <2>1, <2>2, <2>3, <2>4, <2>5, <2>6 DEF Free, Owed
  <2>7. CASE v \notin Vs
    BY <2>2, <2>3, <2>4, <2>7 DEF Free, Owed
  <2>8. QED BY <2>6, <2>7
<1> HIDE DEF q
<1>3. Moves(o, None, Less(q), q)
  <2>1. ASSUME NEW v \in Variants
        PROVE /\ Less(q)[v] = 0 - q[v] /\ None[v] = 0 /\ Free(v) \in Int
              /\ stock[v].reserved \in Int /\ line[o][v].reserved \in Int
    BY LineTyped DEF Less, None, Free, TypeOK
  <2>2. QED BY <1>2, <2>1 DEF Moves, Shifts
<1>4. QED BY <1>1, <1>3

\* What an order that awaits payment holds, it drops; the units of a
\* confirmed one come back.
LEMMA CancelMovesBack ==
  ASSUME TypeOK, LinesOK, PendingHoldsAll, NEW o \in Orders,
         NEW to \in {"CANCELLED", "FAILED"}, Cancel(o, to)
  PROVE  \E q \in Amount :
           /\ status[o] = "PENDING" =>
                Shifts(o, q, Less(q)) /\ (o \notin torn => Moves(o, q, Less(q), None))
           /\ status[o] # "PENDING" => Moves(o, q, None, Less(q))
<1>1. PICK Vs \in SUBSET Variants, delta \in [Variants -> Int], reservedDelta \in [Variants -> Int] :
        OrderHandedBack(o, Vs, delta, reservedDelta)
  BY CancelMoves
<1> DEFINE q == [v \in Variants |->
                   IF v \notin Vs THEN 0
                   ELSE IF status[o] = "PENDING" THEN line[o][v].reserved
                   ELSE line[o][v].quantity]
<1>2. q \in Amount
  BY LineTyped, BoundsAssumption DEF Amount, Quantity
<1>3. ASSUME NEW v \in Variants
      PROVE  /\ q[v] = (IF v \notin Vs THEN 0
                         ELSE IF status[o] = "PENDING" THEN line[o][v].reserved
                         ELSE line[o][v].quantity)
             /\ q[v] \in Nat /\ Less(q)[v] = 0 - q[v] /\ None[v] = 0
             /\ Free(v) \in Int /\ stock[v].reserved \in Int /\ stock[v].onHand \in Int
             /\ line[o][v].reserved \in Nat /\ line[o][v].quantity \in Nat
             /\ Owed(o, v) \in Nat
  <2>1. q[v] \in Nat
    BY <1>2, BoundsAssumption DEF Amount, Quantity
  <2>2. q[v] = (IF v \notin Vs THEN 0
                ELSE IF status[o] = "PENDING" THEN line[o][v].reserved
                ELSE line[o][v].quantity)
    OBVIOUS
  <2> HIDE DEF q
  <2>3. QED BY <2>1, <2>2, LineTyped, OwedTyped DEF Less, None, Free, TypeOK
<1> HIDE DEF q
<1>4. ASSUME NEW v \in Variants
      PROVE  /\ stock'[v].onHand = stock[v].onHand + (IF v \in Vs THEN delta[v] ELSE 0)
             /\ stock'[v].reserved =
                  stock[v].reserved + (IF v \in Vs THEN reservedDelta[v] ELSE 0)
             /\ stock'[v].backorder = stock[v].backorder
  <2>1. Move(Vs, delta, reservedDelta)
    BY <1>1 DEF OrderHandedBack
  <2>2. QED BY <2>1, MoveEffect
<1>5. ASSUME NEW v \in Variants
      PROVE  line'[o][v].reserved = 0 /\ Owed(o, v)' = 0
  <2>1. CASE line[o][v].active
    <3>1. line'[o][v] = CancelLine(line[o][v])
      BY <2>1, CancelEffect
    <3>2. line[o][v] \in LineType
      BY LineTyped
    <3>3. /\ CancelLine(line[o][v]).reserved = 0
          /\ CancelLine(line[o][v]).active = FALSE
      BY <3>2, CancelLineEffect
    <3>4. QED BY <3>1, <3>3 DEF Owed
  <2>2. CASE ~line[o][v].active
    <3>1. line'[o][v] = line[o][v]
      BY <2>2, CancelEffect
    <3>2. line[o][v].reserved = 0
      BY <1>3, <2>2 DEF LinesOK
    <3>3. Owed(o, v)' = 0
      BY <2>2, <3>1 DEF Owed
    <3>4. QED BY <3>1, <3>2, <3>3
  <2>3. QED BY <2>1, <2>2
<1>6. ASSUME status[o] = "PENDING"
      PROVE  Shifts(o, q, Less(q)) /\ (o \notin torn => Moves(o, q, Less(q), None))
  <2>1. ASSUME NEW v \in Variants
        PROVE  /\ q[v] = line[o][v].reserved
               /\ v \in Vs => delta[v] = 0 /\ reservedDelta[v] = 0 - line[o][v].reserved
               /\ v \notin Vs => line[o][v].reserved = 0
    <3>1. v \in Vs <=> line[o][v].active /\ line[o][v].reserved > 0
      BY <1>1, <1>6 DEF OrderHandedBack, Holding, Active
    <3>2. delta[v] = 0 /\ reservedDelta[v] = 0 - line[o][v].reserved
      BY <1>1, <1>6 DEF OrderHandedBack
    <3>3. v \notin Vs => line[o][v].reserved = 0
      BY <1>3, <3>1 DEF LinesOK
    <3>4. QED BY <1>3, <1>6, <3>2, <3>3
  <2>2. ASSUME NEW v \in Variants
        PROVE  /\ Free(v)' = Free(v) + q[v]
               /\ stock'[v].reserved = stock[v].reserved + Less(q)[v]
               /\ stock'[v].backorder = stock[v].backorder
               /\ line'[o][v].reserved = line[o][v].reserved + Less(q)[v]
    <3>1. CASE v \in Vs
      BY <1>3, <1>4, <1>5, <2>1, <3>1 DEF Free
    <3>2. CASE v \notin Vs
      <4>1. /\ stock'[v].onHand = stock[v].onHand /\ stock'[v].reserved = stock[v].reserved
            /\ line[o][v].reserved = 0 /\ q[v] = 0
        BY <1>3, <1>4, <2>1, <3>2
      <4>2. QED BY <1>3, <1>4, <1>5, <4>1 DEF Free
    <3>3. QED BY <3>1, <3>2
  <2>3. ASSUME o \notin torn, NEW v \in Variants PROVE Owed(o, v) = 0
    BY <1>3, <1>6, <2>3 DEF PendingHoldsAll, Owed
  <2>4. Shifts(o, q, Less(q))
    BY <2>2 DEF Shifts
  <2>5. ASSUME o \notin torn, NEW v \in Variants PROVE Owed(o, v)' = Owed(o, v) + None[v]
    BY <1>3, <1>5, <2>3, <2>5
  <2>6. QED BY <2>4, <2>5 DEF Moves
<1>7. ASSUME status[o] # "PENDING" PROVE Moves(o, q, None, Less(q))
  <2>1. ASSUME NEW v \in Variants
        PROVE  /\ q[v] = Owed(o, v)
               /\ v \in Vs => delta[v] = q[v] /\ reservedDelta[v] = 0
               /\ v \notin Vs => q[v] = 0
               /\ line[o][v].reserved = 0
    <3>1. line[o][v].reserved = 0
      BY <1>3, <1>7 DEF LinesOK
    <3>2. v \in Vs <=> line[o][v].active
      BY <1>1, <1>7 DEF OrderHandedBack, Active
    <3>3. v \in Vs => delta[v] = line[o][v].quantity /\ reservedDelta[v] = 0
      BY <1>1, <1>7 DEF OrderHandedBack
    <3>4. QED BY <1>3, <1>7, <3>1, <3>2, <3>3 DEF Owed
  <2>2. ASSUME NEW v \in Variants
        PROVE  /\ Free(v)' = Free(v) + q[v]
               /\ stock'[v].reserved = stock[v].reserved + None[v]
               /\ stock'[v].backorder = stock[v].backorder
               /\ line'[o][v].reserved = line[o][v].reserved + None[v]
               /\ Owed(o, v)' = Owed(o, v) + Less(q)[v]
    <3>1. CASE v \in Vs
      BY <1>3, <1>4, <1>5, <2>1, <3>1 DEF Free
    <3>2. CASE v \notin Vs
      BY <1>3, <1>4, <1>5, <2>1, <3>2 DEF Free
    <3>3. QED BY <3>1, <3>2
  <2>3. QED BY <2>2 DEF Moves, Shifts
<1>8. QED BY <1>2, <1>6, <1>7

LEMMA CancelItemMovesBack ==
  ASSUME TypeOK, LinesOK, PendingHoldsAll, NEW o \in Orders,
         NEW v \in Variants, NEW n \in 1..MaxUnits, CancelItem(o, v, n)
  PROVE  \E q \in Amount :
           /\ status[o] = "PENDING" =>
                Shifts(o, q, Less(q)) /\ (o \notin torn => Moves(o, q, Less(q), None))
           /\ status[o] # "PENDING" => Moves(o, q, None, Less(q))
<1> DEFINE l == line[o][v]
           release == Smaller(n, l.reserved)
           m == IF status[o] = "PENDING" THEN release ELSE n
           q == [w \in Variants |-> IF w = v THEN m ELSE 0]
<1>1. PICK Vs \in SUBSET Variants, delta \in [Variants -> Int], reservedDelta \in [Variants -> Int] :
        UnitsHandedBack(o, v, n, Vs, delta, reservedDelta) /\ Vs \subseteq {v}
  BY CancelItemMoves
<1>2. /\ l \in LineType /\ n \in Nat /\ n <= l.quantity /\ l.active
      /\ l.quantity \in Nat /\ l.reserved \in Nat /\ l.reserved <= l.quantity
  BY CancelItemEffect, LineTyped DEF LinesOK
<1>3. release \in Nat /\ release <= n /\ release <= l.reserved
  BY <1>2 DEF Smaller
<1>4. m \in Quantity
  BY <1>2, <1>3, BoundsAssumption DEF Quantity
<1>5. q \in Amount
  BY <1>4, BoundsAssumption DEF Amount, Quantity
<1>6. ASSUME NEW w \in Variants
      PROVE  /\ q[w] = (IF w = v THEN m ELSE 0) /\ q[w] \in Nat
             /\ Less(q)[w] = 0 - q[w] /\ None[w] = 0
             /\ Free(w) \in Int /\ stock[w].reserved \in Int /\ stock[w].onHand \in Int
             /\ line[o][w].reserved \in Nat
             /\ Owed(o, w) \in Nat
  <2>1. q[w] \in Nat
    BY <1>5, BoundsAssumption DEF Amount, Quantity
  <2>2. q[w] = IF w = v THEN m ELSE 0
    OBVIOUS
  <2> HIDE DEF q, m
  <2>3. QED BY <2>1, <2>2, LineTyped, OwedTyped DEF Less, None, Free, TypeOK
<1> HIDE DEF q
<1>7. ASSUME NEW w \in Variants
      PROVE  /\ stock'[w].onHand = stock[w].onHand + (IF w \in Vs THEN delta[w] ELSE 0)
             /\ stock'[w].reserved =
                  stock[w].reserved + (IF w \in Vs THEN reservedDelta[w] ELSE 0)
             /\ stock'[w].backorder = stock[w].backorder
  <2>1. Move(Vs, delta, reservedDelta)
    BY <1>1 DEF UnitsHandedBack
  <2>2. QED BY <2>1, MoveEffect
<1>8. ASSUME NEW w \in Variants, w # v PROVE line'[o][w] = line[o][w] /\ Owed(o, w)' = Owed(o, w)
  BY <1>8, CancelItemEffect DEF Owed
<1>9. ASSUME NEW w \in Variants, w # v
      PROVE  /\ Free(w)' = Free(w) /\ stock'[w].reserved = stock[w].reserved
             /\ stock'[w].backorder = stock[w].backorder
  <2>1. w \notin Vs
    BY <1>1, <1>9
  <2>2. stock'[w].onHand = stock[w].onHand + 0 /\ stock'[w].reserved = stock[w].reserved + 0
    BY <1>7, <2>1
  <2>3. QED BY <1>6, <1>7, <2>2 DEF Free
<1>10. /\ line'[o][v].reserved = IF l.reserved > n THEN l.reserved - n ELSE 0
       /\ line'[o][v].active = (n # l.quantity)
       /\ n # l.quantity => line'[o][v].quantity = l.quantity - n
  <2>1. CASE n = l.quantity
    <3>1. line'[o][v] = CancelLine(l)
      BY <2>1, CancelItemEffect
    <3>2. line'[o][v].reserved = 0 /\ line'[o][v].active = FALSE
      BY <1>2, <3>1, CancelLineEffect
    <3>3. ~(l.reserved > n)
      BY <1>2, <2>1
    <3>4. QED BY <2>1, <3>2, <3>3
  <2>2. CASE n # l.quantity
    <3>1. line'[o][v] = Shorter(l, n) /\ n \in 1..l.quantity
      BY <2>2, CancelItemEffect
    <3>2. /\ line'[o][v].active = TRUE /\ line'[o][v].quantity = l.quantity - n
          /\ line'[o][v].reserved = IF l.reserved > n THEN l.reserved - n ELSE 0
      BY <1>2, <3>1, ShorterEffect
    <3>3. QED BY <2>2, <3>2
  <2>3. QED BY <2>1, <2>2
<1>11. Owed(o, v) = l.quantity - l.reserved
  BY <1>2 DEF Owed
<1>12. Owed(o, v)' = IF n = l.quantity THEN 0
                     ELSE l.quantity - n - (IF l.reserved > n THEN l.reserved - n ELSE 0)
  BY <1>10 DEF Owed
<1>13. ASSUME status[o] = "PENDING"
       PROVE  Shifts(o, q, Less(q)) /\ (o \notin torn => Moves(o, q, Less(q), None))
  <2>1. /\ m = release /\ delta[v] = 0 /\ reservedDelta[v] = 0 - release
        /\ v \in Vs <=> release > 0
    BY <1>1, <1>13 DEF UnitsHandedBack
  <2> HIDE DEF m, release
  <2>2. /\ Free(v)' = Free(v) + release /\ stock'[v].reserved = stock[v].reserved - release
        /\ stock'[v].backorder = stock[v].backorder
    <3>1. CASE release > 0
      <4>1. /\ stock'[v].onHand = stock[v].onHand
            /\ stock'[v].reserved = stock[v].reserved - release
        <5>1. /\ stock'[v].onHand = stock[v].onHand + 0
              /\ stock'[v].reserved = stock[v].reserved + (0 - release)
          BY <1>7, <2>1, <3>1
        <5>2. QED BY <1>3, <1>6, <5>1
      <4>2. QED BY <1>3, <1>6, <1>7, <4>1 DEF Free
    <3>2. CASE ~(release > 0)
      <4>1. /\ stock'[v].onHand = stock[v].onHand /\ release = 0
            /\ stock'[v].reserved = stock[v].reserved
        BY <1>3, <1>6, <1>7, <2>1, <3>2
      <4>2. QED BY <1>3, <1>6, <1>7, <4>1 DEF Free
    <3>3. QED BY <3>1, <3>2
  <2>3. line'[o][v].reserved = l.reserved - release
    BY <1>2, <1>10 DEF Smaller, release
  <2>4. Shifts(o, q, Less(q))
    <3>1. ASSUME NEW w \in Variants
          PROVE  /\ Free(w)' = Free(w) + q[w] /\ stock'[w].backorder = stock[w].backorder
                 /\ stock'[w].reserved = stock[w].reserved + Less(q)[w]
                 /\ line'[o][w].reserved = line[o][w].reserved + Less(q)[w]
      <4>1. CASE w = v
        <5>1. q[v] = release /\ Less(q)[v] = 0 - release
          BY <1>6, <2>1
        <5>2. QED BY <1>3, <1>6, <2>2, <2>3, <4>1, <5>1
      <4>2. CASE w # v
        BY <1>6, <1>8, <1>9, <4>2
      <4>3. QED BY <4>1, <4>2
    <3>2. QED BY <3>1 DEF Shifts
  <2>5. ASSUME o \notin torn PROVE Moves(o, q, Less(q), None)
    <3>1. l.reserved = l.quantity
      BY <1>2, <1>13, <2>5 DEF PendingHoldsAll
    <3>2. Owed(o, v) = 0 /\ Owed(o, v)' = 0
      BY <1>2, <1>11, <1>12, <3>1
    <3>3. ASSUME NEW w \in Variants PROVE Owed(o, w)' = Owed(o, w) + None[w]
      BY <1>6, <1>8, <3>2
    <3>4. QED BY <2>4, <3>3 DEF Moves
  <2>6. QED BY <2>4, <2>5
<1>14. ASSUME status[o] # "PENDING" PROVE Moves(o, q, None, Less(q))
  <2>1. m = n /\ delta[v] = n /\ reservedDelta[v] = 0 /\ v \in Vs
    BY <1>1, <1>14 DEF UnitsHandedBack
  <2> HIDE DEF m
  <2>2. l.reserved = 0
    BY <1>2, <1>14 DEF LinesOK
  <2>3. line'[o][v].reserved = 0
    BY <1>2, <1>10, <2>2
  <2>4. Owed(o, v)' = Owed(o, v) - n
    BY <1>2, <1>11, <1>12, <2>2
  <2>5. /\ Free(v)' = Free(v) + n /\ stock'[v].reserved = stock[v].reserved
        /\ stock'[v].backorder = stock[v].backorder
    BY <1>2, <1>6, <1>7, <2>1 DEF Free
  <2>6. ASSUME NEW w \in Variants
        PROVE  /\ Free(w)' = Free(w) + q[w] /\ stock'[w].backorder = stock[w].backorder
               /\ stock'[w].reserved = stock[w].reserved + None[w]
               /\ line'[o][w].reserved = line[o][w].reserved + None[w]
               /\ Owed(o, w)' = Owed(o, w) + Less(q)[w]
    <3>1. CASE w = v
      BY <1>2, <1>6, <2>1, <2>2, <2>3, <2>4, <2>5, <3>1
    <3>2. CASE w # v
      BY <1>6, <1>8, <1>9, <3>2
    <3>3. QED BY <3>1, <3>2
  <2>7. QED BY <2>6 DEF Moves, Shifts
<1>15. QED BY <1>5, <1>13, <1>14

----------------------------------------------------------------------------
(* The invariants.                                                          *)

\* Of every operation that changes lines, in the forms above.
LEMMA OperateShifts ==
  ASSUME TypeOK, LinesOK, PendingHoldsAll, NEW o \in Orders, Operate(o)
  PROVE  \/ stock' = stock /\ line' = line
         \/ /\ \A p \in Orders \ {o} : line'[p] = line[p]
            /\ \E q \in Amount :
                 \/ Moves(o, None, Less(q), q)
                 \/ Shifts(o, q, Less(q)) /\ (o \notin torn => Moves(o, q, Less(q), None))
                 \/ Moves(o, q, None, Less(q))
<1>1. ASSUME Confirm(o)
      PROVE  /\ \A p \in Orders \ {o} : line'[p] = line[p]
             /\ \E q \in Amount : Moves(o, None, Less(q), q)
  <2>1. /\ Holding(o) \in SUBSET Active(o) /\ Holding(o) \in SUBSET Variants
        /\ CommitLines(o, Holding(o))
    BY <1>1 DEF Confirm, Holding, Active
  <2>2. QED BY <2>1, CommitMovesOut, CommitEffect
<1>2. ASSUME NEW Vs \in SUBSET Variants, SkipInBulk(o, Vs)
      PROVE  /\ \A p \in Orders \ {o} : line'[p] = line[p]
             /\ \E q \in Amount : Moves(o, None, Less(q), q)
  <2>1. Vs \in SUBSET Active(o) /\ CommitLines(o, Vs)
    BY <1>2 DEF SkipInBulk, Holding, Active
  <2>2. QED BY <2>1, CommitMovesOut, CommitEffect
<1>3. ASSUME Advance(o) PROVE stock' = stock /\ line' = line
  BY <1>3 DEF Advance
<1>4. ASSUME NEW to \in {"CANCELLED", "FAILED"}, Cancel(o, to)
      PROVE  /\ \A p \in Orders \ {o} : line'[p] = line[p]
             /\ \E q \in Amount :
                  \/ Shifts(o, q, Less(q)) /\ (o \notin torn => Moves(o, q, Less(q), None))
                  \/ Moves(o, q, None, Less(q))
  <2>1. \A p \in Orders \ {o} : line'[p] = line[p]
    BY <1>4, CancelEffect
  <2>2. PICK q \in Amount :
           /\ status[o] = "PENDING" =>
                Shifts(o, q, Less(q)) /\ (o \notin torn => Moves(o, q, Less(q), None))
           /\ status[o] # "PENDING" => Moves(o, q, None, Less(q))
    BY <1>4, CancelMovesBack
  <2>3. QED BY <2>1, <2>2
<1>5. ASSUME NEW v \in Variants, NEW n \in 1..MaxUnits, CancelItem(o, v, n)
      PROVE  /\ \A p \in Orders \ {o} : line'[p] = line[p]
             /\ \E q \in Amount :
                  \/ Shifts(o, q, Less(q)) /\ (o \notin torn => Moves(o, q, Less(q), None))
                  \/ Moves(o, q, None, Less(q))
  <2>1. \A p \in Orders \ {o} : line'[p] = line[p]
    BY <1>5, CancelItemEffect
  <2>2. PICK q \in Amount :
           /\ status[o] = "PENDING" =>
                Shifts(o, q, Less(q)) /\ (o \notin torn => Moves(o, q, Less(q), None))
           /\ status[o] # "PENDING" => Moves(o, q, None, Less(q))
    BY <1>5, CancelItemMovesBack
  <2>3. QED BY <2>1, <2>2
<1>6. QED BY <1>1, <1>2, <1>3, <1>4, <1>5 DEF Operate

LEMMA ShiftsOf ==
  ASSUME NEW o, NEW a, NEW b, NEW c, Moves(o, a, b, c)
  PROVE  Shifts(o, a, b)
BY DEF Moves

LEMMA ShiftKeepsHolds ==
  ASSUME TypeOK, TypeOK', LinesOK, LinesOK', HoldsMatch, NEW o \in Orders,
         \A p \in Orders \ {o} : line'[p] = line[p],
         NEW a, NEW b, Shifts(o, a, b), \A v \in Variants : b[v] \in Int
  PROVE  HoldsMatch'
<1>1. ASSUME NEW v \in Variants
      PROVE  stock'[v].reserved = stock[v].reserved + (line'[o][v].reserved - line[o][v].reserved)
  <2>1. /\ stock'[v].reserved = stock[v].reserved + b[v]
        /\ line'[o][v].reserved = line[o][v].reserved + b[v]
    BY DEF Shifts
  <2>2. stock[v].reserved \in Int /\ line[o][v].reserved \in Int /\ b[v] \in Int
    BY LineTyped DEF TypeOK
  <2> HIDE DEF Shifts
  <2>3. QED BY <2>1, <2>2
<1>2. QED BY <1>1, HoldsMatchKept

LEMMA AmountsAreInts ==
  /\ \A q \in Amount, v \in Variants : q[v] \in Nat /\ Less(q)[v] \in Int /\ Less(q)[v] = 0 - q[v]
  /\ \A v \in Variants : None[v] = 0
BY BoundsAssumption DEF Amount, Quantity, Less, None

LEMMA HoldsSame ==
  ASSUME HoldsMatch, line' = line,
         \A v \in Variants : stock'[v].reserved = stock[v].reserved
  PROVE  HoldsMatch'
BY DEF HoldsMatch, HeldBy

LEMMA HoldsStep ==
  ASSUME TypeOK, TypeOK', LinesOK, LinesOK', PendingHoldsAll, HoldsMatch, [Next]_vars
  PROVE  HoldsMatch'
<1>1. ASSUME NEW t \in Threads, Checkout(t) PROVE HoldsMatch'
  <2>1. ASSUME stock' = stock, line' = line PROVE HoldsMatch'
    BY <2>1, HoldsSame
  <2>2. ASSUME NEW o \in Orders, NEW initial \in {"PENDING", "CONFIRMED"}, PlaceOrder(t, o, initial)
        PROVE  HoldsMatch'
    <3> DEFINE cart == tx[t].asks.cart
    <3>1. cart \in Amount /\ \A p \in Orders \ {o} : line'[p] = line[p]
      BY <2>2, PlaceMoves, PlaceLines
    <3>2. Shifts(o, Less(cart), cart) \/ Shifts(o, Less(cart), None)
      BY <2>2, PlaceMoves, ShiftsOf
    <3> HIDE DEF cart
    <3>3. (\A v \in Variants : cart[v] \in Int) /\ (\A v \in Variants : None[v] \in Int)
      BY <3>1, AmountsAreInts
    <3>4. QED BY <3>1, <3>2, <3>3, ShiftKeepsHolds
  <2>3. QED BY <1>1, <2>1, <2>2
          DEF Checkout, StartCheckout, HoldStock, AbandonCheckout, orderVars
<1>2. ASSUME NEW o \in Orders, Operate(o) PROVE HoldsMatch'
  <2>1. CASE stock' = stock /\ line' = line
    BY <2>1, HoldsSame
  <2>2. CASE /\ \A p \in Orders \ {o} : line'[p] = line[p]
             /\ \E q \in Amount :
                 \/ Moves(o, None, Less(q), q)
                 \/ Shifts(o, q, Less(q)) /\ (o \notin torn => Moves(o, q, Less(q), None))
                 \/ Moves(o, q, None, Less(q))
    <3>1. PICK q \in Amount : Shifts(o, None, Less(q)) \/ Shifts(o, q, Less(q)) \/ Shifts(o, q, None)
      BY <2>2, ShiftsOf
    <3>2. (\A v \in Variants : Less(q)[v] \in Int) /\ (\A v \in Variants : None[v] \in Int)
      BY AmountsAreInts
    <3>3. QED BY <2>2, <3>1, <3>2, ShiftKeepsHolds
  <2>3. QED BY <1>2, <2>1, <2>2, OperateShifts
<1>3. ASSUME NEW v \in Variants, NEW delta \in Counts, AdjustStock(v, delta) PROVE HoldsMatch'
  <2>1. \A w \in Variants : stock'[w].reserved = stock[w].reserved
    <3> DEFINE d == [None EXCEPT ![v] = delta]
    <3>1. {v} \in SUBSET Variants /\ d \in [Variants -> Int] /\ None \in [Variants -> Int] /\ Move({v}, d, None)
      BY <1>3, AdjustEffect
    <3> HIDE DEF d
    <3>2. ASSUME NEW w \in Variants
          PROVE  stock'[w].reserved = stock[w].reserved + (IF w \in {v} THEN None[w] ELSE 0)
      BY <3>1, MoveEffect
    <3>3. \A w \in Variants : None[w] = 0 /\ stock[w].reserved \in Int
      BY DEF None, TypeOK
    <3>4. QED BY <3>2, <3>3
  <2>2. QED BY <1>3, <2>1, HoldsSame DEF AdjustStock, Upkeep, orderVars
<1>4. ASSUME NEW v \in Variants, SwitchBackorder(v) PROVE HoldsMatch'
  BY <1>4, BackorderEffect, HoldsSame DEF SwitchBackorder, Upkeep, orderVars
<1>5. CASE UNCHANGED vars
  BY <1>5, HoldsSame DEF vars, orderVars
<1>6. QED BY <1>1, <1>2, <1>3, <1>4, <1>5 DEF Next

\* Only the order that is operated on changes.
LEMMA PendingOne ==
  ASSUME PendingHoldsAll, NEW o \in Orders, torn \subseteq torn',
         \A p \in Orders \ {o} : line'[p] = line[p] /\ status'[p] = status[p],
         o \notin torn' /\ status'[o] = "PENDING" =>
           \A v \in Variants : line'[o][v].active => line'[o][v].reserved = line'[o][v].quantity
  PROVE  PendingHoldsAll'
BY DEF PendingHoldsAll

LEMMA PendingStep ==
  ASSUME TypeOK, LinesOK, PendingHoldsAll, [Next]_vars
  PROVE  PendingHoldsAll'
<1>1. ASSUME UNCHANGED <<line, status, torn>> PROVE PendingHoldsAll'
  BY <1>1 DEF PendingHoldsAll
<1>2. ASSUME NEW t \in Threads, NEW o \in Orders, NEW initial \in {"PENDING", "CONFIRMED"},
             PlaceOrder(t, o, initial)
      PROVE  PendingHoldsAll'
  <2>1. /\ status'[o] = initial /\ \A p \in Orders \ {o} : status'[p] = status[p]
        /\ torn' = torn
    BY <1>2 DEF PlaceOrder, TypeOK, historyVars
  <2>2. QED BY <1>2, <2>1, PlaceLines, PendingOne
<1>3. ASSUME NEW o \in Orders, Confirm(o) PROVE PendingHoldsAll'
  <2>1. Holding(o) \in SUBSET Variants /\ CommitLines(o, Holding(o))
    BY <1>3 DEF Confirm, Holding, Active
  <2>2. /\ status'[o] = "CONFIRMED" /\ \A p \in Orders \ {o} : status'[p] = status[p]
        /\ torn' = torn
    BY <1>3 DEF Confirm, TypeOK, historyVars
  <2>3. QED BY <2>1, <2>2, CommitEffect, PendingOne
<1>4. ASSUME NEW o \in Orders, NEW Vs \in SUBSET Variants, SkipInBulk(o, Vs) PROVE PendingHoldsAll'
  <2>1. /\ status' = status /\ torn \subseteq torn' /\ CommitLines(o, Vs)
        /\ o \notin torn' => Vs = {} /\ o \notin torn
    BY <1>4 DEF SkipInBulk
  <2>2. ASSUME o \notin torn', status[o] = "PENDING", NEW v \in Variants, line'[o][v].active
        PROVE  line'[o][v].reserved = line'[o][v].quantity
    <3>1. /\ line'[o][v].active = line[o][v].active /\ line'[o][v].quantity = line[o][v].quantity
          /\ line'[o][v].reserved = line[o][v].reserved
      <4>1. v \notin Vs
        BY <2>1, <2>2
      <4>2. /\ line'[o][v].active = line[o][v].active /\ line'[o][v].quantity = line[o][v].quantity
            /\ line'[o][v].reserved = IF v \in Vs THEN 0 ELSE line[o][v].reserved
        BY <2>1, CommitEffect
      <4>3. QED BY <4>1, <4>2
    <3>2. QED BY <2>1, <2>2, <3>1 DEF PendingHoldsAll
  <2>3. \A p \in Orders \ {o} : line'[p] = line[p]
    BY <2>1, CommitEffect
  <2>4. QED BY <2>1, <2>2, <2>3, PendingOne
<1>5. ASSUME NEW o \in Orders, Advance(o) PROVE PendingHoldsAll'
  <2>1. /\ status'[o] # "PENDING" /\ line' = line /\ torn' = torn
        /\ \A p \in Orders \ {o} : status'[p] = status[p]
    BY <1>5 DEF Advance, TypeOK, historyVars
  <2>2. QED BY <2>1, PendingOne
<1>6. ASSUME NEW o \in Orders, NEW to \in {"CANCELLED", "FAILED"}, Cancel(o, to) PROVE PendingHoldsAll'
  <2>1. /\ status'[o] # "PENDING" /\ torn' = torn
        /\ \A p \in Orders \ {o} : status'[p] = status[p]
    BY <1>6 DEF Cancel, TypeOK, historyVars
  <2>2. QED BY <1>6, <2>1, CancelEffect, PendingOne
<1>7. ASSUME NEW o \in Orders, NEW v \in Variants, NEW q \in 1..MaxUnits, CancelItem(o, v, q)
      PROVE  PendingHoldsAll'
  <2>1. /\ status'[o] = "PENDING" => status[o] = "PENDING"
        /\ torn' = torn /\ \A p \in Orders \ {o} : status'[p] = status[p]
    BY <1>7 DEF CancelItem, TypeOK, historyVars
  <2>2. ASSUME o \notin torn, status[o] = "PENDING", NEW w \in Variants, line'[o][w].active
        PROVE  line'[o][w].reserved = line'[o][w].quantity
    <3>1. CASE w # v
      <4>1. line'[o][w] = line[o][w]
        BY <1>7, <3>1, CancelItemEffect
      <4>2. QED BY <2>2, <4>1 DEF PendingHoldsAll
    <3>2. CASE w = v
      <4> DEFINE l == line[o][v]
      <4>1. /\ l \in LineType /\ l.active /\ q \in 1..l.quantity /\ l.quantity \in Nat
            /\ l.reserved = l.quantity
        BY <1>7, <2>2, CancelItemEffect, LineTyped DEF PendingHoldsAll
      <4>2. q # l.quantity
        <5>1. CancelLine(l).active = FALSE
          BY <4>1, CancelLineEffect
        <5>2. line'[o][v] = IF q = l.quantity THEN CancelLine(l) ELSE Shorter(l, q)
          BY <1>7, CancelItemEffect
        <5>3. QED BY <2>2, <3>2, <5>1, <5>2
      <4>3. line'[o][v] = Shorter(l, q)
        BY <1>7, <4>2, CancelItemEffect
      <4>4. QED BY <3>2, <4>1, <4>2, <4>3, ShorterEffect
    <3>3. QED BY <3>1, <3>2
  <2>3. QED BY <1>7, <2>1, <2>2, CancelItemEffect, PendingOne
<1>8. ASSUME UNCHANGED <<orderVars, historyVars>> PROVE PendingHoldsAll'
  BY <1>1, <1>8 DEF orderVars, historyVars
<1>9. ASSUME NEW t \in Threads, Checkout(t) PROVE PendingHoldsAll'
  BY <1>1, <1>2, <1>9
     DEF Checkout, StartCheckout, HoldStock, AbandonCheckout, orderVars, historyVars
<1>10. QED
  BY <1>3, <1>4, <1>5, <1>6, <1>7, <1>8, <1>9
     DEF Next, Operate, AdjustStock, SwitchBackorder, Upkeep, vars

LEMMA CouponSame ==
  ASSUME CouponAccounts, UNCHANGED couponVars,
         \A o \in usages : status'[o] \notin {"ABSENT", "CANCELLED", "FAILED"}
  PROVE  CouponAccounts'
BY DEF CouponAccounts, couponVars

LEMMA CouponGivenBack ==
  ASSUME TypeOK, CouponAccounts, NEW o \in Orders, GiveCouponBack(o),
         \A p \in Orders \ {o} : status'[p] = status[p]
  PROVE  CouponAccounts'
<1>1. /\ usages' = usages \ {o} /\ usageLimit' = usageLimit
      /\ usageCount' = IF o \in usages /\ usageCount > 0 THEN usageCount - 1 ELSE usageCount
  BY DEF GiveCouponBack
<1>2. IsFiniteSet(usages) /\ usages \subseteq Orders /\ usageCount \in Nat /\ usageLimit \in Nat
  BY FS_Subset, SetsAssumption, BoundsAssumption DEF TypeOK
<1>3. \A p \in usages' : status'[p] \notin {"ABSENT", "CANCELLED", "FAILED"}
  BY <1>1, <1>2 DEF CouponAccounts
<1>4. CASE o \in usages
  <2>1. Cardinality(usages \ {o}) = Cardinality(usages) - 1
    BY <1>2, <1>4, FS_RemoveElement
  <2>2. usageCount > 0
    <3>1. Cardinality(usages) # 0
      BY <1>2, <1>4, FS_EmptySet
    <3>2. QED BY <1>2, <3>1 DEF CouponAccounts
  <2>3. QED BY <1>1, <1>2, <1>3, <1>4, <2>1, <2>2 DEF CouponAccounts
<1>5. CASE o \notin usages
  <2>1. usages' = usages /\ usageCount' = usageCount
    BY <1>1, <1>5
  <2>2. QED BY <1>1, <1>3, <2>1 DEF CouponAccounts
<1>6. QED BY <1>4, <1>5

LEMMA CouponStep ==
  ASSUME TypeOK, CouponAccounts, [Next]_vars
  PROVE  CouponAccounts'
<1>0. usages \subseteq Orders
  BY DEF TypeOK
<1>1. ASSUME UNCHANGED couponVars, status' = status PROVE CouponAccounts'
  BY <1>1, CouponSame DEF CouponAccounts
<1>2. ASSUME NEW t \in Threads, NEW o \in Orders, NEW initial \in {"PENDING", "CONFIRMED"},
             PlaceOrder(t, o, initial)
      PROVE  CouponAccounts'
  <2> DEFINE redeem == tx[t].asks.coupon
  <2>1. /\ redeem => usageCount < usageLimit
        /\ usageLimit' = usageLimit
        /\ usages' = usages \cup { x \in {o} : redeem }
        /\ usageCount' = usageCount + (IF redeem THEN 1 ELSE 0)
    BY <1>2 DEF PlaceOrder, TakeCoupon
  <2>2. /\ status[o] = "ABSENT" /\ status'[o] = initial
        /\ \A p \in Orders \ {o} : status'[p] = status[p]
    BY <1>2 DEF PlaceOrder, TypeOK
  <2>3. IsFiniteSet(usages) /\ usageCount \in Nat /\ usageLimit \in Nat
    BY FS_Subset, SetsAssumption, BoundsAssumption DEF TypeOK
  <2>4. o \notin usages
    BY <2>2 DEF CouponAccounts
  <2>5. \A p \in usages' : status'[p] \notin {"ABSENT", "CANCELLED", "FAILED"}
    BY <1>0, <2>1, <2>2 DEF CouponAccounts
  <2> HIDE DEF redeem
  <2>6. CASE redeem
    <3>1. usages' = usages \cup {o} /\ usageCount' = usageCount + 1
      <4>1. { x \in {o} : redeem } = {o}
        BY <2>6
      <4>2. usageCount' = usageCount + 1
        BY <2>1, <2>6
      <4>3. usages' = usages \cup { x \in {o} : redeem }
        BY <2>1
      <4>4. QED BY <4>1, <4>2, <4>3
    <3>2. Cardinality(usages \cup {o}) = Cardinality(usages) + 1
      BY <2>3, <2>4, FS_AddElement
    <3>3. usageCount = Cardinality(usages) /\ usageCount < usageLimit
      BY <2>1, <2>6 DEF CouponAccounts
    <3>4. usageCount' = Cardinality(usages') /\ usageCount' <= usageLimit'
      BY <2>1, <2>3, <3>1, <3>2, <3>3
    <3>5. QED BY <2>5, <3>4 DEF CouponAccounts
  <2>7. CASE ~redeem
    <3>1. usages' = usages /\ usageCount' = usageCount
      <4>1. { x \in {o} : redeem } = {}
        BY <2>7
      <4>2. usageCount' = usageCount + 0
        BY <2>1, <2>7
      <4>3. QED BY <2>1, <2>3, <4>1, <4>2
    <3>2. QED BY <2>1, <2>5, <3>1 DEF CouponAccounts
  <2>8. QED BY <2>6, <2>7
<1>3. ASSUME NEW t \in Threads, Checkout(t) PROVE CouponAccounts'
  BY <1>1, <1>2, <1>3 DEF Checkout, StartCheckout, HoldStock, AbandonCheckout, orderVars
<1>4. ASSUME NEW o \in Orders, NEW x, x \notin {"ABSENT", "CANCELLED", "FAILED"},
             UNCHANGED couponVars, status' = [status EXCEPT ![o] = x]
      PROVE  CouponAccounts'
  <2>1. \A p \in usages : status'[p] \notin {"ABSENT", "CANCELLED", "FAILED"}
    BY <1>0, <1>4 DEF CouponAccounts, TypeOK
  <2>2. QED BY <1>4, <2>1, CouponSame
<1>5. ASSUME NEW o \in Orders, Confirm(o) PROVE CouponAccounts'
  BY <1>4, <1>5 DEF Confirm
<1>6. ASSUME NEW o \in Orders, Advance(o) PROVE CouponAccounts'
  <2>1. /\ UNCHANGED couponVars
        /\ status' = [status EXCEPT ![o] = "PROCESSING"] \/ status' = [status EXCEPT ![o] = "PACKED"]
    BY <1>6 DEF Advance
  <2>2. QED BY <1>4, <2>1
<1>7. ASSUME NEW o \in Orders, NEW Vs \in SUBSET Variants, SkipInBulk(o, Vs) PROVE CouponAccounts'
  BY <1>1, <1>7 DEF SkipInBulk
<1>8. ASSUME NEW o \in Orders, NEW to \in {"CANCELLED", "FAILED"}, Cancel(o, to) PROVE CouponAccounts'
  <2>1. \A p \in Orders \ {o} : status'[p] = status[p]
    BY <1>8 DEF Cancel, TypeOK
  <2>2. QED BY <1>8, <2>1, CouponGivenBack DEF Cancel
<1>9. ASSUME NEW o \in Orders, NEW v \in Variants, NEW q \in 1..MaxUnits, CancelItem(o, v, q)
      PROVE  CouponAccounts'
  <2> DEFINE last == q = line[o][v].quantity /\ Active(o) = {v}
  <2>1. /\ IF last THEN GiveCouponBack(o) ELSE UNCHANGED couponVars
        /\ status' = [status EXCEPT ![o] = IF last THEN "CANCELLED" ELSE status[o]]
    BY <1>9 DEF CancelItem
  <2> HIDE DEF last
  <2>2. CASE last
    <3>1. \A p \in Orders \ {o} : status'[p] = status[p]
      BY <2>1 DEF TypeOK
    <3>2. QED BY <2>1, <2>2, <3>1, CouponGivenBack
  <2>3. CASE ~last
    <3>1. status' = status /\ UNCHANGED couponVars
      BY <2>1, <2>3 DEF TypeOK
    <3>2. QED BY <1>1, <3>1
  <2>4. QED BY <2>2, <2>3
<1>10. QED
  BY <1>1, <1>3, <1>5, <1>6, <1>7, <1>8, <1>9
     DEF Next, Operate, AdjustStock, SwitchBackorder, Upkeep, vars, orderVars

----------------------------------------------------------------------------
(* The theorems.                                                            *)

IInv == TypeOK /\ LinesOK /\ LocksOK /\ PendingHoldsAll /\ HoldsMatch /\ CouponAccounts

LEMMA NothingYet ==
  ASSUME Init, NEW v \in Variants
  PROVE  SumOver(HeldBy(v), Orders) = 0 /\ SumOver(OwedBy(v), Orders) = 0
<1> DEFINE zero == [o \in Orders |-> 0]
<1>1. \A o \in Orders : line[o][v].reserved = 0 /\ Owed(o, v) = 0
  BY DEF Init, NoLines, NoLine, Owed
<1>2. HeldBy(v) = zero /\ OwedBy(v) = zero
  BY <1>1 DEF HeldBy, OwedBy
<1>3. SumOver(zero, Orders) = 0
  <2>1. \A S \in SUBSET Orders : \A o \in S : zero[o] = 0
    OBVIOUS
  <2>2. Sums(zero, Orders, [S \in SUBSET Orders |-> 0])
    BY DEF Sums
  <2>3. QED BY <2>2, SumOverIs, SetsAssumption
<1>4. QED BY <1>2, <1>3

LEMMA Invariants == Spec => []IInv
<1>1. Init => IInv
  <2> SUFFICES ASSUME Init PROVE IInv
    OBVIOUS
  <2>1. TypeOK
    BY TypeInit
  <2>2. LinesOK
    BY DEF Init, LinesOK, NoLines, NoLine
  <2>3. LocksOK
    BY DEF Init, LocksOK, Holder, Idle
  <2>4. PendingHoldsAll
    BY DEF Init, PendingHoldsAll
  <2>5. HoldsMatch
    BY NothingYet DEF Init, HoldsMatch
  <2>6. CouponAccounts
    BY <2>1, FS_EmptySet, BoundsAssumption DEF Init, CouponAccounts
  <2>7. QED BY <2>1, <2>2, <2>3, <2>4, <2>5, <2>6 DEF IInv
<1>2. IInv /\ [Next]_vars => IInv'
  <2> SUFFICES ASSUME IInv, [Next]_vars PROVE IInv'
    OBVIOUS
  <2>1. TypeOK' /\ LinesOK'
    BY TypeStep, LinesStep DEF IInv
  <2>2. LocksOK' /\ PendingHoldsAll' /\ HoldsMatch' /\ CouponAccounts'
    BY <2>1, LocksStep, PendingStep, HoldsStep, CouponStep DEF IInv
  <2>3. QED BY <2>1, <2>2 DEF IInv
<1>3. QED BY <1>1, <1>2, PTL DEF Spec

\* What an item has reserved is what orders that await payment hold of it,
\* whatever is cancelled, confirmed or left half done by a batch.
THEOREM HoldsAlwaysMatch == Spec => []HoldsMatch
<1>1. IInv => HoldsMatch
  BY DEF IInv
<1>2. QED BY <1>1, Invariants, PTL

\* An order that awaits payment holds all its units unless a batch has half
\* confirmed it.
THEOREM PendingOrdersHold == Spec => []PendingHoldsAll
<1>1. IInv => PendingHoldsAll
  BY DEF IInv
<1>2. QED BY <1>1, Invariants, PTL

\* The coupon is redeemed at most usageLimit times however checkouts overlap,
\* and its counter is the number of live orders that redeem it.
THEOREM CouponNeverOverspent == Spec => []CouponAccounts
<1>1. IInv => CouponAccounts
  BY DEF IInv
<1>2. QED BY <1>1, Invariants, PTL

LEMMA MoveKeepsShelf ==
  ASSUME TypeOK, NEW Vs \in SUBSET Variants,
         NEW delta \in [Variants -> Int], NEW reservedDelta \in [Variants -> Int],
         Move(Vs, delta, reservedDelta), NEW v \in Variants,
         Free(v)' < Free(v), ~stock[v].backorder
  PROVE  Free(v)' >= 0
<1>1. /\ stock'[v].onHand = stock[v].onHand + (IF v \in Vs THEN delta[v] ELSE 0)
      /\ stock'[v].reserved = stock[v].reserved + (IF v \in Vs THEN reservedDelta[v] ELSE 0)
      /\ v \in Vs => MayMove(v, delta[v], reservedDelta[v])
  BY MoveEffect
<1>2. stock[v].onHand \in Int /\ stock[v].reserved \in Int
  BY DEF TypeOK
<1>3. CASE v \in Vs
  <2>1. Free(v) + delta[v] - reservedDelta[v] >= 0
    BY <1>1, <1>3 DEF MayMove, Enough
  <2>2. QED BY <1>1, <1>2, <1>3, <2>1 DEF Free
<1>4. CASE v \notin Vs
  BY <1>1, <1>2, <1>4 DEF Free
<1>5. QED BY <1>3, <1>4

\* No step takes units that are not on the shelf, unless the variant may be
\* sold on backorder at that moment.
THEOREM NeverOversold == Spec => NeverOversells
<1>1. ASSUME IInv, IInv', [Next]_vars, NEW v \in Variants,
             Free(v)' < Free(v), ~stock[v].backorder
      PROVE  Free(v)' >= 0
  <2>0. TypeOK /\ LinesOK /\ LocksOK /\ Free(v) \in Int
    BY <1>1 DEF IInv, TypeOK, Free
  <2>1. ASSUME stock' = stock PROVE FALSE
    BY <1>1, <2>0, <2>1 DEF Free
  <2>2. ASSUME NEW t \in Threads, NEW o \in Orders, NEW initial \in {"PENDING", "CONFIRMED"},
               PlaceOrder(t, o, initial)
        PROVE  Free(v)' >= 0
    <3>1. /\ tx[t].asks.cart \in Amount /\ Holder(t)
          /\ Free(v)' = Free(v) + Less(tx[t].asks.cart)[v]
      BY <2>0, <2>2, PlaceMoves DEF Moves, Shifts, PlaceOrder, Holder
    <3>2. tx[t].asks.cart[v] \in Nat /\ Free(v)' = Free(v) - tx[t].asks.cart[v]
      BY <2>0, <3>1, AmountsAreInts
    <3>3. tx[t].asks.cart[v] > 0
      BY <1>1, <2>0, <3>2
    <3>4. tx[t].asks.cart[v] <= Free(v)
      BY <1>1, <2>0, <3>1, <3>3 DEF LocksOK
    <3>5. QED BY <2>0, <3>2, <3>4
  <2>3. ASSUME NEW t \in Threads, Checkout(t) PROVE Free(v)' >= 0
    BY <2>1, <2>2, <2>3 DEF Checkout, StartCheckout, HoldStock, AbandonCheckout
  <2>4. ASSUME NEW o \in Orders, Operate(o) PROVE Free(v)' >= 0
    BY <1>1, <2>0, <2>1, <2>4, OperateMoves, MoveKeepsShelf
  <2>5. ASSUME NEW w \in Variants, NEW delta \in Counts, AdjustStock(w, delta) PROVE Free(v)' >= 0
    <3>1. {w} \in SUBSET Variants
      OBVIOUS
    <3>2. QED BY <1>1, <2>0, <2>5, <3>1, AdjustEffect, MoveKeepsShelf
  <2>6. ASSUME NEW w \in Variants, SwitchBackorder(w) PROVE FALSE
    <3>1. Free(v)' = Free(v)
      BY <2>0, <2>6, BackorderEffect DEF Free
    <3>2. QED BY <1>1, <2>0, <3>1
  <2>7. QED BY <1>1, <2>1, <2>3, <2>4, <2>5, <2>6 DEF Next, vars
<1>2. IInv /\ IInv' /\ [Next]_vars =>
        [\A v \in Variants : Free(v)' < Free(v) /\ ~stock[v].backorder => Free(v)' >= 0]_vars
  BY <1>1
<1>3. QED BY <1>2, Invariants, PTL DEF Spec, NeverOversells

----------------------------------------------------------------------------
(* OrderStock implements StockCustody.                                      *)

Sold(v) == SumOver(OwedBy(v), Orders)

LEMMA SoldTyped ==
  ASSUME TypeOK, LinesOK, NEW v \in Variants
  PROVE  Sold(v) \in Nat
<1>1. IsFiniteSet(Orders) /\ \A o \in Orders : OwedBy(v)[o] \in Nat
  BY SetsAssumption, OwedTyped DEF OwedBy
<1>2. QED BY <1>1, SumOverNat DEF Sold

\* The parts of the abstract state.
shelf == [v \in Variants |-> Free(v)]
holds == [v \in Variants |-> stock[v].reserved]
sales == [v \in Variants |-> SumOver(OwedBy(v), Orders)]
onBackorder == [v \in Variants |-> stock[v].backorder]

IsMap(f) == f = [v \in Variants |-> f[v]]

LEMMA SameMap ==
  ASSUME NEW f, NEW g, IsMap(f), IsMap(g), \A v \in Variants : f[v] = g[v]
  PROVE  f = g
BY DEF IsMap

LEMMA SumIs ==
  ASSUME NEW f, NEW g, NEW q, IsMap(g), \A v \in Variants : g[v] = f[v] + q[v]
  PROVE  g = Custody!Plus(f, q)
<1>1. g = [v \in Variants |-> g[v]]
  BY DEF IsMap
<1>2. QED BY <1>1 DEF Custody!Plus

LEMMA DifferenceIs ==
  ASSUME NEW f, NEW g, NEW q, IsMap(g), \A v \in Variants : g[v] = f[v] - q[v]
  PROVE  g = Custody!Minus(f, q)
<1>1. g = [v \in Variants |-> g[v]]
  BY DEF IsMap
<1>2. QED BY <1>1 DEF Custody!Minus

LEMMA AreMaps ==
  /\ IsMap(shelf) /\ IsMap(holds) /\ IsMap(sales)
  /\ IsMap(shelf') /\ IsMap(holds') /\ IsMap(sales')
BY DEF IsMap, shelf, holds, sales

LEMMA Mapped ==
  ASSUME TypeOK, TypeOK', LinesOK, LinesOK', NEW o \in Orders,
         \A p \in Orders \ {o} : line'[p] = line[p],
         NEW a, NEW b, NEW c, Moves(o, a, b, c),
         \A v \in Variants : c[v] \in Int
  PROVE  /\ (\A v \in Variants : shelf'[v] = shelf[v] + a[v])
         /\ (\A v \in Variants : holds'[v] = holds[v] + b[v])
         /\ (\A v \in Variants : sales'[v] = sales[v] + c[v])
         /\ onBackorder' = onBackorder
<1>1. ASSUME NEW v \in Variants
      PROVE  /\ Free(v)' = Free(v) + a[v] /\ stock'[v].reserved = stock[v].reserved + b[v]
             /\ stock'[v].backorder = stock[v].backorder
  BY DEF Moves, Shifts
<1>2. ASSUME NEW v \in Variants
      PROVE  SumOver(OwedBy(v), Orders)' = SumOver(OwedBy(v), Orders) + c[v]
  <2>1. SumOver(OwedBy(v), Orders)' = SumOver(OwedBy(v), Orders) + (Owed(o, v)' - Owed(o, v))
    BY SumsMove
  <2>2. Owed(o, v)' = Owed(o, v) + c[v] /\ Owed(o, v) \in Nat /\ c[v] \in Int
    BY OwedTyped DEF Moves
  <2>3. QED BY <2>1, <2>2
<1>3. QED BY <1>1, <1>2 DEF shelf, holds, sales, onBackorder

LEMMA MapsHold ==
  ASSUME NEW q \in Amount,
         \A v \in Variants : q[v] > 0 => q[v] <= shelf[v] \/ onBackorder[v],
         \A v \in Variants : shelf'[v] = shelf[v] + Less(q)[v],
         \A v \in Variants : holds'[v] = holds[v] + q[v],
         \A v \in Variants : sales'[v] = sales[v] + None[v],
         onBackorder' = onBackorder,
         \A v \in Variants : shelf[v] \in Int /\ sales[v] \in Nat
  PROVE  Custody!Hold(q)
<1>1. \A v \in Variants : q[v] \in Int /\ Less(q)[v] = 0 - q[v] /\ None[v] = 0
  BY AmountsAreInts
<1>2. Custody!Available(q)
  BY DEF Custody!Available, shelf, onBackorder
<1>3. shelf' = Custody!Minus(shelf, q)
  BY <1>1, AreMaps, DifferenceIs
<1>4. holds' = Custody!Plus(holds, q)
  BY AreMaps, SumIs
<1>5. sales' = sales
  BY <1>1, AreMaps, SameMap
<1>6. QED BY <1>2, <1>3, <1>4, <1>5 DEF Custody!Hold, shelf, holds, sales, onBackorder

LEMMA MapsSellFromShelf ==
  ASSUME NEW q \in Amount,
         \A v \in Variants : q[v] > 0 => q[v] <= shelf[v] \/ onBackorder[v],
         \A v \in Variants : shelf'[v] = shelf[v] + Less(q)[v],
         \A v \in Variants : holds'[v] = holds[v] + None[v],
         \A v \in Variants : sales'[v] = sales[v] + q[v],
         onBackorder' = onBackorder,
         \A v \in Variants : shelf[v] \in Int /\ holds[v] \in Nat
  PROVE  Custody!SellFromShelf(q)
<1>1. \A v \in Variants : q[v] \in Int /\ Less(q)[v] = 0 - q[v] /\ None[v] = 0
  BY AmountsAreInts
<1>2. Custody!Available(q)
  BY DEF Custody!Available, shelf, onBackorder
<1>3. shelf' = Custody!Minus(shelf, q)
  BY <1>1, AreMaps, DifferenceIs
<1>4. sales' = Custody!Plus(sales, q)
  BY AreMaps, SumIs
<1>5. holds' = holds
  BY <1>1, AreMaps, SameMap
<1>6. QED BY <1>2, <1>3, <1>4, <1>5 DEF Custody!SellFromShelf, shelf, holds, sales, onBackorder

LEMMA MapsSell ==
  ASSUME NEW q \in Amount,
         (\A v \in Variants : shelf'[v] = shelf[v] + None[v]),
         (\A v \in Variants : holds'[v] = holds[v] + Less(q)[v]),
         (\A v \in Variants : sales'[v] = sales[v] + q[v]),
         onBackorder' = onBackorder,
         \A v \in Variants : shelf[v] \in Int /\ holds[v] \in Nat /\ holds'[v] \in Nat
  PROVE  Custody!Sell(q)
<1>1. \A v \in Variants : q[v] \in Int /\ Less(q)[v] = 0 - q[v] /\ None[v] = 0
  BY AmountsAreInts
<1>2. Custody!Within(q, holds)
  BY <1>1 DEF Custody!Within
<1>3. holds' = Custody!Minus(holds, q)
  BY <1>1, AreMaps, DifferenceIs
<1>4. sales' = Custody!Plus(sales, q)
  BY AreMaps, SumIs
<1>5. shelf' = shelf
  BY <1>1, AreMaps, SameMap
<1>6. QED BY <1>2, <1>3, <1>4, <1>5 DEF Custody!Sell, shelf, holds, sales, onBackorder

LEMMA MapsDrop ==
  ASSUME NEW q \in Amount,
         (\A v \in Variants : shelf'[v] = shelf[v] + q[v]),
         (\A v \in Variants : holds'[v] = holds[v] + Less(q)[v]),
         (\A v \in Variants : sales'[v] = sales[v] + None[v]),
         onBackorder' = onBackorder,
         \A v \in Variants : sales[v] \in Nat /\ holds[v] \in Nat /\ holds'[v] \in Nat
  PROVE  Custody!Drop(q)
<1>1. \A v \in Variants : q[v] \in Int /\ Less(q)[v] = 0 - q[v] /\ None[v] = 0
  BY AmountsAreInts
<1>2. Custody!Within(q, holds)
  BY <1>1 DEF Custody!Within
<1>3. holds' = Custody!Minus(holds, q)
  BY <1>1, AreMaps, DifferenceIs
<1>4. shelf' = Custody!Plus(shelf, q)
  BY AreMaps, SumIs
<1>5. sales' = sales
  BY <1>1, AreMaps, SameMap
<1>6. QED BY <1>2, <1>3, <1>4, <1>5 DEF Custody!Drop, shelf, holds, sales, onBackorder

LEMMA MapsTakeBack ==
  ASSUME NEW q \in Amount,
         (\A v \in Variants : shelf'[v] = shelf[v] + q[v]),
         (\A v \in Variants : holds'[v] = holds[v] + None[v]),
         (\A v \in Variants : sales'[v] = sales[v] + Less(q)[v]),
         onBackorder' = onBackorder,
         \A v \in Variants : holds[v] \in Nat /\ sales[v] \in Nat /\ sales'[v] \in Nat
  PROVE  Custody!TakeBack(q)
<1>1. \A v \in Variants : q[v] \in Int /\ Less(q)[v] = 0 - q[v] /\ None[v] = 0
  BY AmountsAreInts
<1>2. Custody!Within(q, sales)
  BY <1>1 DEF Custody!Within
<1>3. sales' = Custody!Minus(sales, q)
  BY <1>1, AreMaps, DifferenceIs
<1>4. shelf' = Custody!Plus(shelf, q)
  BY AreMaps, SumIs
<1>5. holds' = holds
  BY <1>1, AreMaps, SameMap
<1>6. QED BY <1>2, <1>3, <1>4, <1>5 DEF Custody!TakeBack, shelf, holds, sales, onBackorder

LEMMA MappedTyped ==
  ASSUME TypeOK, LinesOK, NEW v \in Variants
  PROVE  shelf[v] \in Int /\ holds[v] \in Nat /\ sales[v] \in Nat
BY SoldTyped DEF shelf, holds, sales, Free, Sold, TypeOK

LEMMA MappedTypedNext ==
  ASSUME TypeOK', LinesOK', NEW v \in Variants
  PROVE  shelf'[v] \in Int /\ holds'[v] \in Nat /\ sales'[v] \in Nat
<1>1. IsFiniteSet(Orders) /\ \A o \in Orders : OwedBy(v)'[o] \in Nat
  <2>1. ASSUME NEW o \in Orders PROVE Owed(o, v)' \in Nat
    BY BoundsAssumption DEF Owed, TypeOK, LinesOK, LineType
  <2>2. QED BY <2>1, SetsAssumption DEF OwedBy
<1>2. SumOver(OwedBy(v)', Orders) \in Nat
  BY <1>1, SumOverNat
<1>3. stock'[v].onHand \in Int /\ stock'[v].reserved \in Nat
  BY DEF TypeOK
<1>4. QED BY <1>2, <1>3 DEF shelf, holds, sales, Free

LEMMA AmountsMatch == Amount = Custody!Amounts
BY DEF Amount, Custody!Amounts, Quantity

LEMMA CustodyStutters ==
  ASSUME TypeOK, UNCHANGED <<stock, line, torn>>
  PROVE  UNCHANGED Custody!vars
BY DEF Custody!vars, Free, OwedBy, Owed

\* A step that leaves every order whole moves units as StockCustody allows.
\* A checkout takes units for its order, to hold or to sell.
LEMMA TakeMaps ==
  ASSUME TypeOK, TypeOK', LinesOK, LinesOK', NEW o \in Orders, NEW q \in Amount,
         \A v \in Variants : q[v] > 0 => q[v] <= shelf[v] \/ onBackorder[v],
         \A p \in Orders \ {o} : line'[p] = line[p],
         Moves(o, Less(q), q, None) \/ Moves(o, Less(q), None, q)
  PROVE  Custody!MoveUnits
<1>1. \A v \in Variants : q[v] \in Int /\ None[v] \in Int
  BY AmountsAreInts
<1>2. q \in Custody!Amounts
  BY AmountsMatch
<1>3. CASE Moves(o, Less(q), q, None)
  <2>1. /\ \A v \in Variants : shelf'[v] = shelf[v] + Less(q)[v]
        /\ \A v \in Variants : holds'[v] = holds[v] + q[v]
        /\ \A v \in Variants : sales'[v] = sales[v] + None[v]
        /\ onBackorder' = onBackorder
    BY <1>1, <1>3, Mapped
  <2>2. \A v \in Variants : shelf[v] \in Int /\ sales[v] \in Nat
    BY MappedTyped
  <2>3. Custody!Hold(q)
    BY <2>1, <2>2, MapsHold
  <2>4. QED BY <1>2, <2>3 DEF Custody!MoveUnits
<1>4. CASE Moves(o, Less(q), None, q)
  <2>1. /\ \A v \in Variants : shelf'[v] = shelf[v] + Less(q)[v]
        /\ \A v \in Variants : holds'[v] = holds[v] + None[v]
        /\ \A v \in Variants : sales'[v] = sales[v] + q[v]
        /\ onBackorder' = onBackorder
    BY <1>1, <1>4, Mapped
  <2>2. \A v \in Variants : shelf[v] \in Int /\ holds[v] \in Nat
    BY MappedTyped
  <2>3. Custody!SellFromShelf(q)
    BY <2>1, <2>2, MapsSellFromShelf
  <2>4. QED BY <1>2, <2>3 DEF Custody!MoveUnits
<1>5. QED BY <1>3, <1>4

LEMMA PlaceMaps ==
  ASSUME TypeOK, TypeOK', LinesOK, LinesOK', LocksOK, NEW t \in Threads, NEW o \in Orders,
         NEW initial \in {"PENDING", "CONFIRMED"}, PlaceOrder(t, o, initial)
  PROVE  Custody!MoveUnits
<1> DEFINE cart == tx[t].asks.cart
<1>1. /\ cart \in Amount /\ Holder(t)
      /\ Moves(o, Less(cart), cart, None) \/ Moves(o, Less(cart), None, cart)
      /\ \A p \in Orders \ {o} : line'[p] = line[p]
  BY PlaceMoves, PlaceLines DEF PlaceOrder, Holder
<1>2. \A v \in Variants : cart[v] > 0 => cart[v] <= shelf[v] \/ onBackorder[v]
  BY <1>1 DEF LocksOK, shelf, onBackorder
<1> HIDE DEF cart
<1>3. PICK q \in Amount : q = cart
  BY <1>1
<1>4. QED BY <1>1, <1>2, <1>3, TakeMaps

LEMMA OperateMaps ==
  ASSUME TypeOK, TypeOK', LinesOK, LinesOK', PendingHoldsAll, torn = {},
         NEW o \in Orders, Operate(o)
  PROVE  Custody!MoveUnits \/ (stock' = stock /\ line' = line)
<1>1. CASE /\ \A p \in Orders \ {o} : line'[p] = line[p]
           /\ \E q \in Amount :
                 \/ Moves(o, None, Less(q), q)
                 \/ Shifts(o, q, Less(q)) /\ (o \notin torn => Moves(o, q, Less(q), None))
                 \/ Moves(o, q, None, Less(q))
  <2>1. PICK q \in Amount : \/ Moves(o, None, Less(q), q)
                            \/ Moves(o, q, Less(q), None)
                            \/ Moves(o, q, None, Less(q))
    BY <1>1
  <2>2. \A v \in Variants : q[v] \in Int /\ None[v] \in Int /\ Less(q)[v] \in Int
    BY <2>1, AmountsAreInts
  <2>3. CASE Moves(o, None, Less(q), q)
    <3>1. /\ (\A v \in Variants : shelf'[v] = shelf[v] + None[v])
          /\ (\A v \in Variants : holds'[v] = holds[v] + Less(q)[v])
          /\ (\A v \in Variants : sales'[v] = sales[v] + q[v])
          /\ onBackorder' = onBackorder
      BY <1>1, <2>2, <2>3, Mapped
    <3>2. Custody!Sell(q)
      BY <3>1, MappedTyped, MappedTypedNext, MapsSell
    <3>3. q \in Custody!Amounts
      BY AmountsMatch
    <3>4. QED BY <3>2, <3>3, Zenon DEF Custody!MoveUnits
  <2>4. CASE Moves(o, q, Less(q), None)
    <3>1. /\ (\A v \in Variants : shelf'[v] = shelf[v] + q[v])
          /\ (\A v \in Variants : holds'[v] = holds[v] + Less(q)[v])
          /\ (\A v \in Variants : sales'[v] = sales[v] + None[v])
          /\ onBackorder' = onBackorder
      BY <1>1, <2>2, <2>4, Mapped
    <3>2. Custody!Drop(q)
      BY <3>1, MappedTyped, MappedTypedNext, MapsDrop
    <3>3. q \in Custody!Amounts
      BY AmountsMatch
    <3>4. QED BY <3>2, <3>3, Zenon DEF Custody!MoveUnits
  <2>5. CASE Moves(o, q, None, Less(q))
    <3>1. /\ (\A v \in Variants : shelf'[v] = shelf[v] + q[v])
          /\ (\A v \in Variants : holds'[v] = holds[v] + None[v])
          /\ (\A v \in Variants : sales'[v] = sales[v] + Less(q)[v])
          /\ onBackorder' = onBackorder
      BY <1>1, <2>2, <2>5, Mapped
    <3>2. Custody!TakeBack(q)
      BY <3>1, MappedTyped, MappedTypedNext, MapsTakeBack
    <3>3. q \in Custody!Amounts
      BY AmountsMatch
    <3>4. QED BY <3>2, <3>3, Zenon DEF Custody!MoveUnits
  <2>6. QED BY <2>1, <2>3, <2>4, <2>5
<1>2. QED BY <1>1, OperateShifts

LEMMA AdjustMaps ==
  ASSUME TypeOK, NEW v \in Variants, NEW delta \in Counts, AdjustStock(v, delta)
  PROVE  Custody!Count(v)
<1> DEFINE d == [None EXCEPT ![v] = delta]
<1>1. /\ {v} \in SUBSET Variants /\ d \in [Variants -> Int] /\ None \in [Variants -> Int]
      /\ Move({v}, d, None) /\ d[v] = delta /\ None[v] = 0 /\ line' = line
  BY AdjustEffect DEF AdjustStock, Upkeep, orderVars
<1> HIDE DEF d
<1>2. ASSUME NEW w \in Variants
      PROVE  /\ stock'[w].onHand = stock[w].onHand + (IF w \in {v} THEN d[w] ELSE 0)
             /\ stock'[w].reserved = stock[w].reserved + (IF w \in {v} THEN None[w] ELSE 0)
             /\ stock'[w].backorder = stock[w].backorder
             /\ stock[w].onHand \in Int /\ stock[w].reserved \in Int
             /\ w \in {v} => MayMove(w, d[w], None[w])
  <2>1. stock[w].onHand \in Int /\ stock[w].reserved \in Int
    BY DEF TypeOK
  <2>2. QED BY <1>1, <2>1, MoveEffect
<1>3. ASSUME NEW w \in Variants
      PROVE  stock'[w].reserved = stock[w].reserved /\ (w # v => Free(w)' = Free(w))
  BY <1>1, <1>2 DEF Free
<1>4. shelf'[v] >= 0 \/ onBackorder[v]
  <2>1. stock[v].backorder \/ Free(v) + d[v] - None[v] >= 0
    BY <1>2 DEF MayMove, Enough
  <2>2. Free(v)' = Free(v) + d[v] /\ Free(v) \in Int /\ d[v] \in Int
    BY <1>1, <1>2 DEF Free
  <2>3. QED BY <1>1, <2>1, <2>2 DEF shelf, onBackorder
<1>5. shelf' = [shelf EXCEPT ![v] = shelf'[v]]
  BY <1>3 DEF shelf
<1>6. holds' = holds /\ onBackorder' = onBackorder /\ sales' = sales
  BY <1>1, <1>2, <1>3 DEF holds, onBackorder, sales, OwedBy, Owed
<1>7. QED BY <1>4, <1>5, <1>6 DEF Custody!Count, shelf, holds, sales, onBackorder

LEMMA BackorderMaps ==
  ASSUME TypeOK, NEW v \in Variants, SwitchBackorder(v)
  PROVE  Custody!SwitchBackorder
<1>1. \A w \in Variants : Free(w)' = Free(w) /\ stock'[w].reserved = stock[w].reserved
  BY BackorderEffect DEF Free
<1>2. line' = line
  BY DEF SwitchBackorder, Upkeep, orderVars
<1>3. QED BY <1>1, <1>2 DEF Custody!SwitchBackorder, OwedBy, Owed

LEMMA CustodyInit ==
  ASSUME Init
  PROVE  Custody!Init
<1>1. \A v \in Variants : /\ Free(v) = Opening[v] /\ stock[v].reserved = 0
                         /\ stock[v].backorder = FALSE
  BY BoundsAssumption DEF Init, Free
<1>2. /\ shelf \in [Variants -> Nat] /\ holds = [v \in Variants |-> 0]
      /\ onBackorder \in [Variants -> BOOLEAN]
  BY <1>1, BoundsAssumption DEF shelf, holds, onBackorder
<1>3. sales = [v \in Variants |-> 0]
  BY NothingYet DEF sales
<1>4. (torn = {}) = TRUE
  BY DEF Init
<1>5. QED BY <1>2, <1>3, <1>4 DEF Custody!Init, shelf, holds, sales, onBackorder

LEMMA CustodyStep ==
  ASSUME IInv, IInv', [Next]_vars
  PROVE  Custody!Next \/ UNCHANGED Custody!vars
<1>0. /\ TypeOK /\ TypeOK' /\ LinesOK /\ LinesOK' /\ LocksOK /\ PendingHoldsAll
  BY DEF IInv
<1>1. torn \subseteq torn'
  BY DEF Next, Checkout, Operate, StartCheckout, HoldStock, PlaceOrder, AbandonCheckout,
         Confirm, Advance, SkipInBulk, Cancel, CancelItem, AdjustStock, SwitchBackorder,
         Upkeep, historyVars, vars
<1>2. CASE torn' # {}
  <2>1. (torn' = {}) = FALSE
    BY <1>2
  <2>2. QED BY <2>1 DEF Custody!Next
<1>3. CASE torn' = {}
  <2>1. torn = {}
    BY <1>1, <1>3
  <2>2. (torn' = {}) = (torn = {}) /\ torn' = torn
    BY <1>3, <2>1
  <2>3. ASSUME Custody!MoveUnits PROVE Custody!Next
    BY <2>2, <2>3 DEF Custody!Next
  <2>4. ASSUME stock' = stock, line' = line PROVE UNCHANGED Custody!vars
    BY <1>0, <2>2, <2>4, CustodyStutters
  <2>5. ASSUME NEW t \in Threads, Checkout(t)
        PROVE  Custody!MoveUnits \/ (stock' = stock /\ line' = line)
    <3>1. ASSUME NEW o \in Orders, NEW initial \in {"PENDING", "CONFIRMED"}, PlaceOrder(t, o, initial)
          PROVE  Custody!MoveUnits
      BY <1>0, <3>1, PlaceMaps
    <3>2. QED BY <2>5, <3>1 DEF Checkout, StartCheckout, HoldStock, AbandonCheckout, orderVars
  <2>6. ASSUME NEW o \in Orders, Operate(o)
        PROVE  Custody!MoveUnits \/ (stock' = stock /\ line' = line)
    BY <1>0, <2>1, <2>6, OperateMaps
  <2>7. ASSUME NEW v \in Variants, NEW delta \in Counts, AdjustStock(v, delta)
        PROVE  Custody!MoveUnits
    BY <1>0, <2>7, AdjustMaps DEF Custody!MoveUnits
  <2>8. ASSUME NEW v \in Variants, SwitchBackorder(v) PROVE Custody!MoveUnits
    BY <1>0, <2>8, BackorderMaps DEF Custody!MoveUnits
  <2>9. CASE UNCHANGED vars
    BY <2>4, <2>9 DEF vars, orderVars
  <2>10. QED BY <2>3, <2>4, <2>5, <2>6, <2>7, <2>8, <2>9 DEF Next
<1>4. QED BY <1>2, <1>3

\* Checkouts, confirmations, cancellations and stock counts implement the
\* custody of units: each step moves units between shelf, holds and sales.
THEOREM ImplementsCustody == Spec => UnitsInCustody
<1>1. Init => Custody!Init
  BY CustodyInit
<1>2. IInv /\ IInv' /\ [Next]_vars => [Custody!Next]_(Custody!vars)
  BY CustodyStep
<1>3. QED BY <1>1, <1>2, Invariants, PTL DEF Spec, UnitsInCustody, Custody!Spec

----------------------------------------------------------------------------
(* The caps that are counted without a lock: a checkout that is alone finds *)
(* at its end what it counted at its start, or less.                        *)

CapsHold(c) ==
  /\ Cardinality(Redeemed(c)) <= PerCustomer
  /\ MaxOpen > 0 => Cardinality(Open(c) \ keyed) <= MaxOpen

\* What a checkout has counted is still so.
Counted(asks) ==
  /\ asks.source = "STOREFRONT" => WithinCaps(asks.customer)
  /\ asks.coupon => MayRedeem(asks.customer)

CapsInv ==
  ~raced =>
    /\ \A t, u \in Threads : tx[t] # Idle /\ tx[u] # Idle => t = u
    /\ \A t \in Threads : tx[t] # Idle => Counted(tx[t].asks)
    /\ \A c \in Customers : CapsHold(c)

\* No order of the customer is opened, and none redeems the coupon anew.
NothingCounted ==
  /\ keyed' = keyed
  /\ \A c \in Customers : Open(c)' \subseteq Open(c) /\ Redeemed(c)' \subseteq Redeemed(c)

LEMMA CountsShrink ==
  ASSUME TypeOK, TypeOK', NothingCounted, NEW c \in Customers
  PROVE  /\ WithinCaps(c) => WithinCaps(c)'
         /\ MayRedeem(c) => MayRedeem(c)'
         /\ CapsHold(c) => CapsHold(c)'
<1>1. PICK open, open2, redeemed, redeemed2 :
        /\ open = Open(c) /\ open2 = Open(c)'
        /\ redeemed = Redeemed(c) /\ redeemed2 = Redeemed(c)'
  OBVIOUS
<1>2. /\ open2 \subseteq open /\ open2 \ keyed \subseteq open \ keyed
      /\ redeemed2 \subseteq redeemed /\ keyed' = keyed
  BY <1>1 DEF NothingCounted
<1>3. IsFiniteSet(open) /\ IsFiniteSet(open \ keyed) /\ IsFiniteSet(redeemed)
  <2>1. open \subseteq Orders /\ open \ keyed \subseteq Orders /\ redeemed \subseteq Orders
    BY <1>1 DEF Open, Redeemed, TypeOK
  <2>2. QED BY <2>1, FS_Subset, SetsAssumption
<1>4. /\ Cardinality(open2) <= Cardinality(open)
      /\ Cardinality(open2 \ keyed) <= Cardinality(open \ keyed)
      /\ Cardinality(redeemed2) <= Cardinality(redeemed)
      /\ IsFiniteSet(open2) /\ IsFiniteSet(open2 \ keyed) /\ IsFiniteSet(redeemed2)
  BY <1>2, <1>3, FS_Subset
<1>5. /\ Cardinality(open2) \in Nat /\ Cardinality(open) \in Nat
      /\ Cardinality(open2 \ keyed) \in Nat /\ Cardinality(open \ keyed) \in Nat
      /\ Cardinality(redeemed2) \in Nat /\ Cardinality(redeemed) \in Nat
      /\ PerCustomer \in Nat /\ MaxOpen \in Nat
  BY <1>3, <1>4, FS_CardinalityType, BoundsAssumption
<1>6. WithinCaps(c) => WithinCaps(c)'
  BY <1>1, <1>4, <1>5 DEF WithinCaps
<1>7. MayRedeem(c) => MayRedeem(c)'
  BY <1>1, <1>4, <1>5 DEF MayRedeem
<1>8. CapsHold(c) => CapsHold(c)'
  BY <1>1, <1>2, <1>4, <1>5 DEF CapsHold
<1>9. QED BY <1>6, <1>7, <1>8

\* A step that opens nothing, and gives no checkout a new request.
LEMMA CapsKept ==
  ASSUME TypeOK, TypeOK', CapsInv, NothingCounted, raced' = raced,
         \A t \in Threads : \/ tx'[t] = Idle
                            \/ tx[t] # Idle /\ tx'[t].asks = tx[t].asks
  PROVE  CapsInv'
<1>1. \A t \in Threads : tx'[t] # Idle =>
        tx[t] # Idle /\ tx'[t].asks = tx[t].asks /\ tx[t].asks \in Requests
  BY DEF TypeOK, TxType
<1>2. SUFFICES ASSUME ~raced PROVE CapsInv'
  BY DEF CapsInv
<1>3. \A t, u \in Threads : tx'[t] # Idle /\ tx'[u] # Idle => t = u
  BY <1>1, <1>2 DEF CapsInv
<1>4. ASSUME NEW t \in Threads, tx'[t] # Idle
      PROVE  /\ tx'[t].asks = tx[t].asks
             /\ \E asks \in Requests : asks = tx[t].asks /\ Counted(asks)'
  <2>1. PICK asks \in Requests : asks = tx[t].asks /\ tx'[t].asks = asks
    BY <1>1, <1>4
  <2>2. asks.customer \in Customers
    BY RequestsAssumption
  <2>3. PICK c \in Customers : c = asks.customer
    BY <2>2
  <2>4. /\ WithinCaps(c) => WithinCaps(c)'
        /\ MayRedeem(c) => MayRedeem(c)'
    BY CountsShrink
  <2>5. Counted(asks)
    BY <1>1, <1>2, <1>4, <2>1 DEF CapsInv
  <2>6. Counted(asks)'
    BY <2>3, <2>4, <2>5 DEF Counted
  <2>7. QED BY <2>1, <2>6
<1>5. \A c \in Customers : CapsHold(c)'
  BY <1>2, CountsShrink DEF CapsInv
<1>6. ASSUME NEW t \in Threads, tx'[t] # Idle
      PROVE  Counted(tx[t].asks)'
  BY <1>4, <1>6
<1>7. QED BY <1>3, <1>5, <1>6 DEF CapsInv

\* A checkout that starts alone has counted.
LEMMA StartKeepsCaps ==
  ASSUME TypeOK, TypeOK', CapsInv, NEW t \in Threads, NEW asks \in Requests,
         StartCheckout(t, asks)
  PROVE  CapsInv'
<1>1. SUFFICES ASSUME ~raced' PROVE CapsInv'
  BY DEF CapsInv
<1>2. ~raced /\ \A u \in Threads : tx[u] = Idle
  BY <1>1 DEF StartCheckout, TypeOK
<1>3. /\ \A u \in Threads : tx'[u] = IF u = t THEN [pc |-> "drafted", asks |-> asks] ELSE Idle
      /\ UNCHANGED <<orderVars, couponVars>>
  BY <1>2 DEF StartCheckout, TypeOK
<1>4. Counted(asks)'
  BY <1>3 DEF StartCheckout, Counted, WithinCaps, MayRedeem, Open, Redeemed, orderVars,
       couponVars
<1>5. \A c \in Customers : CapsHold(c)'
  BY <1>2, <1>3 DEF CapsInv, CapsHold, Open, Redeemed, orderVars, couponVars
<1>6. \A u \in Threads : tx'[u] # Idle => u = t /\ tx'[u].asks = asks
  BY <1>3
<1>7. \A u \in Threads : tx'[u] # Idle => Counted(tx[u].asks)'
  BY <1>4, <1>6 DEF Counted, WithinCaps, MayRedeem, Open, Redeemed
<1>8. QED BY <1>5, <1>6, <1>7 DEF CapsInv

LEMMA OneMore ==
  ASSUME NEW S, IsFiniteSet(S), NEW x
  PROVE  IsFiniteSet(S \cup {x}) /\ Cardinality(S \cup {x}) <= Cardinality(S) + 1
<1>1. Cardinality(S) \in Nat
  BY FS_CardinalityType
<1>2. /\ IsFiniteSet(S \cup {x})
      /\ Cardinality(S \cup {x}) = IF x \in S THEN Cardinality(S) ELSE Cardinality(S) + 1
  BY FS_AddElement
<1>3. QED BY <1>1, <1>2

LEMMA PlaceKeepsCaps ==
  ASSUME TypeOK, TypeOK', CapsInv, CouponAccounts,
         NEW t \in Threads, NEW o \in Orders, NEW initial \in {"PENDING", "CONFIRMED"},
         PlaceOrder(t, o, initial)
  PROVE  CapsInv'
<1>1. SUFFICES ASSUME ~raced PROVE CapsInv'
  BY DEF CapsInv, PlaceOrder, historyVars
<1>2. PICK asks \in Requests : asks = tx[t].asks
  BY Asked DEF PlaceOrder
<1>3. tx[t] # Idle /\ asks.customer \in Customers /\ asks.coupon \in BOOLEAN
  <2>1. tx[t].pc = "holding"
    BY DEF PlaceOrder
  <2>2. tx[t] # Idle
    BY <2>1 DEF Idle
  <2>3. asks.customer \in Customers /\ asks.coupon \in BOOLEAN
    BY RequestsAssumption
  <2>4. QED BY <2>2, <2>3
<1>4. \A u \in Threads : tx'[u] = Idle
  BY <1>1, <1>3 DEF CapsInv, PlaceOrder, TypeOK
<1>5. /\ status[o] = "ABSENT" /\ o \notin usages
      /\ status' = [status EXCEPT ![o] = initial]
      /\ customer' = [customer EXCEPT ![o] = asks.customer]
      /\ keyed' = keyed \cup { x \in {o} : asks.source = "MANUAL" }
      /\ usages' = usages \cup { x \in {o} : asks.coupon }
  BY <1>2 DEF PlaceOrder, TakeCoupon, CouponAccounts
<1>6. /\ asks.source = "STOREFRONT" => WithinCaps(asks.customer)
      /\ asks.coupon => MayRedeem(asks.customer)
  BY <1>1, <1>2, <1>3 DEF CapsInv, Counted
<1>7. ASSUME NEW c \in Customers PROVE CapsHold(c)'
  <2>1. PICK open, open2, redeemed, redeemed2 :
          /\ open = Open(c) /\ open2 = Open(c)' \ keyed'
          /\ redeemed = Redeemed(c) /\ redeemed2 = Redeemed(c)'
    OBVIOUS
  <2>2. /\ redeemed2 \subseteq redeemed \cup { x \in {o} : asks.coupon /\ c = asks.customer }
        /\ open2 \subseteq (open \ keyed)
                \cup { x \in {o} : asks.source # "MANUAL" /\ c = asks.customer }
    BY <1>5, <2>1 DEF Open, Redeemed, TypeOK
  <2>3. open \subseteq Orders /\ redeemed \subseteq Orders
    BY <2>1 DEF Open, Redeemed, TypeOK
  <2>4. IsFiniteSet(open) /\ IsFiniteSet(open \ keyed) /\ IsFiniteSet(redeemed)
    BY <2>3, FS_Subset, SetsAssumption
  <2>5. /\ Cardinality(open \ keyed) <= Cardinality(open)
        /\ Cardinality(open) \in Nat /\ Cardinality(open \ keyed) \in Nat
        /\ Cardinality(redeemed) \in Nat
    BY <2>4, FS_Subset, FS_CardinalityType
  <2>6. Cardinality(redeemed2) <= PerCustomer
    <3>1. CASE asks.coupon /\ c = asks.customer
      <4>1. /\ IsFiniteSet(redeemed \cup {o})
            /\ Cardinality(redeemed \cup {o}) <= Cardinality(redeemed) + 1
        BY <2>4, OneMore
      <4>2. redeemed2 \subseteq redeemed \cup {o}
        BY <2>2
      <4>3. Cardinality(redeemed2) <= Cardinality(redeemed \cup {o})
        BY <4>1, <4>2, FS_Subset
      <4>4. Cardinality(redeemed) < PerCustomer
        BY <1>6, <2>1, <3>1 DEF MayRedeem
      <4>5. Cardinality(redeemed2) \in Nat /\ Cardinality(redeemed \cup {o}) \in Nat
        BY <4>1, <4>2, FS_Subset, FS_CardinalityType
      <4>6. QED BY <2>5, <4>1, <4>3, <4>4, <4>5, BoundsAssumption
    <3>2. CASE ~(asks.coupon /\ c = asks.customer)
      <4>1. redeemed2 \subseteq redeemed
        BY <2>2, <3>2
      <4>2. Cardinality(redeemed2) <= Cardinality(redeemed) /\ Cardinality(redeemed2) \in Nat
        BY <2>4, <4>1, FS_Subset, FS_CardinalityType
      <4>3. Cardinality(redeemed) <= PerCustomer
        BY <1>1, <2>1 DEF CapsInv, CapsHold
      <4>4. QED BY <2>5, <4>2, <4>3, BoundsAssumption
    <3>3. QED BY <3>1, <3>2
  <2>7. ASSUME MaxOpen > 0 PROVE Cardinality(open2) <= MaxOpen
    <3>1. CASE asks.source # "MANUAL" /\ c = asks.customer
      <4>1. /\ IsFiniteSet((open \ keyed) \cup {o})
            /\ Cardinality((open \ keyed) \cup {o}) <= Cardinality(open \ keyed) + 1
        BY <2>4, OneMore
      <4>2. open2 \subseteq (open \ keyed) \cup {o}
        BY <2>2
      <4>3. Cardinality(open2) <= Cardinality((open \ keyed) \cup {o})
        BY <4>1, <4>2, FS_Subset
      <4>4. asks.source = "STOREFRONT"
        BY <3>1, RequestsAssumption
      <4>5. Cardinality(open) < MaxOpen
        BY <1>6, <2>1, <2>7, <3>1, <4>4 DEF WithinCaps
      <4>6. Cardinality(open2) \in Nat /\ Cardinality((open \ keyed) \cup {o}) \in Nat
        BY <4>1, <4>2, FS_Subset, FS_CardinalityType
      <4>7. QED BY <2>5, <4>1, <4>3, <4>5, <4>6, BoundsAssumption
    <3>2. CASE ~(asks.source # "MANUAL" /\ c = asks.customer)
      <4>1. open2 \subseteq open \ keyed
        BY <2>2, <3>2
      <4>2. Cardinality(open2) <= Cardinality(open \ keyed) /\ Cardinality(open2) \in Nat
        BY <2>4, <4>1, FS_Subset, FS_CardinalityType
      <4>3. Cardinality(open \ keyed) <= MaxOpen
        BY <1>1, <2>1, <2>7 DEF CapsInv, CapsHold
      <4>4. QED BY <2>5, <4>2, <4>3, BoundsAssumption
    <3>3. QED BY <3>1, <3>2
  <2>8. QED BY <2>1, <2>6, <2>7 DEF CapsHold
<1>8. QED BY <1>4, <1>7 DEF CapsInv

LEMMA CapsStep ==
  ASSUME TypeOK, TypeOK', CapsInv, CouponAccounts, [Next]_vars
  PROVE  CapsInv'
<1> USE DEF orderVars, couponVars, historyVars
\* Status, customers and redemptions that stand, or orders that close.
<1>1. ASSUME customer' = customer, keyed' = keyed, usages' \subseteq usages,
             \A o \in Orders : status'[o] = "PENDING" => status[o] = "PENDING"
      PROVE  NothingCounted
  BY <1>1 DEF NothingCounted, Open, Redeemed
<1>2. ASSUME UNCHANGED <<orderVars, couponVars, raced>>,
             \A t \in Threads : \/ tx'[t] = Idle
                                \/ tx[t] # Idle /\ tx'[t].asks = tx[t].asks
      PROVE  CapsInv'
  BY <1>1, <1>2, CapsKept
<1>3. ASSUME NEW t \in Threads, HoldStock(t) PROVE CapsInv'
  <2>1. UNCHANGED <<orderVars, couponVars, raced>>
    BY <1>3 DEF HoldStock
  <2>2. tx[t] # Idle /\ tx' = [tx EXCEPT ![t].pc = "holding"]
    BY <1>3 DEF HoldStock, Idle
  <2>3. tx[t] \in TxType
    BY <2>2 DEF TypeOK
  <2>4. \A u \in Threads : tx'[u] = Idle \/ (tx[u] # Idle /\ tx'[u].asks = tx[u].asks)
    BY <2>2, <2>3 DEF TypeOK, TxType
  <2>5. QED BY <1>2, <2>1, <2>4
<1>4. ASSUME NEW t \in Threads, AbandonCheckout(t) PROVE CapsInv'
  <2>1. UNCHANGED <<orderVars, couponVars, raced>>
    BY <1>4 DEF AbandonCheckout
  <2>2. \A u \in Threads : tx'[u] = Idle \/ (tx[u] # Idle /\ tx'[u].asks = tx[u].asks)
    BY <1>4 DEF AbandonCheckout, TypeOK
  <2>3. QED BY <1>2, <2>1, <2>2
<1>5. ASSUME NEW t \in Threads, Checkout(t) PROVE CapsInv'
  BY <1>3, <1>4, <1>5, StartKeepsCaps, PlaceKeepsCaps DEF Checkout
<1>6. ASSUME NEW o \in Orders, Operate(o) PROVE CapsInv'
  <2>1. customer' = customer /\ keyed' = keyed /\ raced' = raced /\ tx' = tx
    BY <1>6 DEF Operate, Confirm, Advance, SkipInBulk, Cancel, CancelItem
  <2>2. usages' \subseteq usages
    BY <1>6 DEF Operate, Confirm, Advance, SkipInBulk, Cancel, CancelItem, GiveCouponBack
  <2>3. \A x \in Orders : status'[x] = "PENDING" => status[x] = "PENDING"
    BY <1>6 DEF Operate, Confirm, Advance, SkipInBulk, Cancel, CancelItem, TypeOK
  <2>4. NothingCounted
    BY <1>1, <2>1, <2>2, <2>3
  <2>5. QED BY <2>1, <2>4, CapsKept
<1>7. ASSUME NEW v \in Variants,
             (\E delta \in Counts : AdjustStock(v, delta)) \/ SwitchBackorder(v)
      PROVE  CapsInv'
  <2>1. UNCHANGED <<orderVars, couponVars, raced, tx>>
    BY <1>7 DEF AdjustStock, SwitchBackorder, Upkeep
  <2>2. QED BY <1>2, <2>1
<1>8. CASE UNCHANGED vars
  BY <1>2, <1>8 DEF vars
<1>9. QED BY <1>5, <1>6, <1>7, <1>8 DEF Next

LEMMA CapsInit == Init => CapsInv
<1>1. SUFFICES ASSUME Init PROVE CapsInv
  OBVIOUS
<1>2. \A t \in Threads : tx[t] = Idle
  BY <1>1 DEF Init
<1>3. ASSUME NEW c \in Customers PROVE CapsHold(c)
  <2>1. Open(c) = {} /\ Redeemed(c) = {} /\ keyed = {}
    BY <1>1 DEF Init, Open, Redeemed
  <2>2. Open(c) \ keyed = {}
    BY <2>1
  <2>3. QED BY <2>1, <2>2, FS_EmptySet, BoundsAssumption DEF CapsHold
<1>4. QED BY <1>2, <1>3 DEF CapsInv

\* The caps that are counted without a lock (assertCheckoutCaps,
\* recordCouponUsage) hold as long as checkouts do not overlap, whatever
\* happens to orders between the count and the insert.
THEOREM CapsHoldAlone == Spec => []CapsHoldSerially
<1>1. TypeOK /\ TypeOK' /\ CapsInv /\ CouponAccounts /\ [Next]_vars => CapsInv'
  BY CapsStep
<1>2. CapsInv => CapsHoldSerially
  BY DEF CapsInv, CapsHold, CapsHoldSerially
<1>3. QED BY <1>1, <1>2, CapsInit, TypeCorrect, CouponNeverOverspent, PTL DEF Spec
=============================================================================
