-------------------------- MODULE FulfilmentProofs --------------------------
(***************************************************************************)
(* Proofs about Fulfilment: for any number of lines, parcels, returns and   *)
(* requests, and any prices.                                                *)
(***************************************************************************)
EXTENDS Fulfilment, SumsProofs

----------------------------------------------------------------------------
(* The derived status.                                                      *)

\* Deriving a second time from the same rows changes nothing.
LEMMA DerivedIsStable ==
  ASSUME NEW current, status' = Derived(current)'
  PROVE  StatusFollowsRows'
BY DEF StatusFollowsRows, Derived

LEMMA RecomputedIsStable ==
  ASSUME NEW from, Recompute(from)
  PROVE  StatusFollowsRows'
<1>1. PICK current \in {from} : status' = Derived(current)'
  BY DEF Recompute
<1>2. QED BY <1>1, DerivedIsStable

LEMMA CancelledIsStable == status' = "CANCELLED" => StatusFollowsRows'
BY DEF StatusFollowsRows, Derived

\* Every step derives the status, cancels the order, or touches nothing that the
\* status is derived from.
LEMMA StatusShape ==
  ASSUME [Next]_vars
  PROVE  \/ Recompute(status) \/ Recompute("DELIVERED") \/ Recompute("CANCELLED")
         \/ status' = "CANCELLED"
         \/ UNCHANGED <<cod, line, parcel, rma, moneyVars>> /\ (status' = status \/ Advance)
<1> USE DEF historyVars
<1>1. CASE Advance
  BY <1>1 DEF Advance
<1>2. CASE CancelOrder
  BY <1>2 DEF CancelOrder
<1>3. ASSUME NEW l \in Lines, NEW q \in 1..MaxUnits, CancelItem(l, q)
      PROVE  status' = "CANCELLED" \/ Recompute(status)
  BY <1>3 DEF CancelItem
<1>4. ASSUME NEW p \in Parcels, Ship(p)
      PROVE  Recompute(status) \/ Recompute("DELIVERED") \/ Recompute("CANCELLED")
  <2>1. ASSUME NEW items \in Contents, NEW handed \in BOOLEAN, CreateParcel(p, items, handed)
        PROVE  Recompute(status)
    BY <2>1 DEF CreateParcel
  <2>2. CASE ShipOrder(p)
    BY <2>2 DEF ShipOrder, CreateParcel
  <2>3. ASSUME NEW to \in ShipmentStatus, MoveParcel(p, to)
        PROVE  Recompute(status)
    BY <2>3 DEF MoveParcel
  <2>4. CASE DeliverParcel(p)
    BY <2>4 DEF DeliverParcel
  <2>5. CASE ReceiveBack(p)
    BY <2>5 DEF ReceiveBack
  <2>6. QED BY <1>4, <2>1, <2>2, <2>3, <2>4, <2>5 DEF Ship
<1>5. ASSUME NEW r \in Returns, NEW l \in Lines, NEW q \in 1..MaxUnits, NEW fault \in BOOLEAN,
             OpenReturn(r, l, q, fault)
      PROVE  Recompute(status)
  BY <1>5 DEF OpenReturn
<1>6. ASSUME NEW t \in Threads, Serve(t)
      PROVE  \/ Recompute(status)
             \/ UNCHANGED <<cod, line, parcel, rma, moneyVars, status>>
  <2>1. ASSUME NEW to \in ReturnStatus, NEW replacement \in BOOLEAN,
               ReviewReturn(t, to, replacement)
        PROVE  Recompute(status)
    BY <2>1 DEF ReviewReturn
  <2>2. ASSUME NEW to \in ReturnStatus, NEW disposition \in Dispositions,
               InspectReturn(t, to, disposition)
        PROVE  Recompute(status)
    BY <2>2 DEF InspectReturn
  <2>3. ASSUME NEW amount \in 1..Invoice, RefundReturn(t, amount)
        PROVE  Recompute(status)
    BY <2>3 DEF RefundReturn, BearRefund
  <2>4. ASSUME NEW p \in Parcels, ReplaceReturn(t, p)
        PROVE  Recompute(status)
    BY <2>4 DEF ReplaceReturn
  <2>5. CASE DropRequest(t) \/ \E r \in Returns : LoadReturn(t, r)
    BY <2>5 DEF DropRequest, LoadReturn
  <2>6. QED BY <1>6, <2>1, <2>2, <2>3, <2>4, <2>5 DEF Serve
<1>7. ASSUME NEW r \in Returns, SettleReturn(r)
      PROVE  Recompute(status)
  BY <1>7 DEF SettleReturn
<1>8. CASE SettleCancellations
  BY <1>8 DEF SettleCancellations
<1>9. CASE UNCHANGED vars
  BY <1>9 DEF vars
<1>10. ASSUME NEW r \in Returns, NEW amount \in 1..Invoice, CreateRefund(r, amount)
       PROVE  Recompute(status)
  BY <1>10 DEF CreateRefund, BearRefund
<1>11. QED
  BY <1>1, <1>2, <1>3, <1>4, <1>5, <1>6, <1>7, <1>8, <1>9, <1>10 DEF Next

LEMMA StatusStep ==
  ASSUME StatusFollowsRows, [Next]_vars
  PROVE  StatusFollowsRows'
<1>1. CASE \/ Recompute(status) \/ Recompute("DELIVERED") \/ Recompute("CANCELLED")
           \/ status' = "CANCELLED"
  BY <1>1, RecomputedIsStable, CancelledIsStable
<1>2. CASE UNCHANGED <<cod, line, parcel, rma, moneyVars>> /\ (status' = status \/ Advance)
  <2>1. /\ NotCancelled' = NotCancelled
        /\ Paid' = Paid /\ Repaid' = Repaid /\ Requested' = Requested
        /\ \A statuses : SomeParcel(statuses)' = SomeParcel(statuses)
    BY <1>2 DEF moneyVars, NotCancelled, Paid, Repaid, Requested, SomeParcel
  <2>2. AllDelivered' = AllDelivered /\ AllReturned' = AllReturned
    BY <1>2, <2>1 DEF AllDelivered, AllReturned
  <2>3. CASE status' = status
    BY <2>1, <2>2, <2>3 DEF StatusFollowsRows, Derived
  <2>4. CASE Advance
    BY <2>1, <2>2, <2>4 DEF Advance, StatusFollowsRows, Derived
  <2>5. QED BY <1>2, <2>3, <2>4
<1>3. QED BY <1>1, <1>2, StatusShape

\* Whatever a handler does, the status it leaves is the one that deriving it once
\* more would give: no handler forgets to derive it, or derives it too early.
THEOREM StatusAlwaysFollows == Spec => []StatusFollowsRows
<1>1. Init => StatusFollowsRows
  <2> SUFFICES ASSUME Init PROVE StatusFollowsRows
    OBVIOUS
  <2>1. PICK l \in Lines : TRUE
    BY SetsAssumption
  <2>2. /\ line[l].state = "ACTIVE" /\ ~line[l].delivered
        /\ line[l].returned = 0 /\ line[l].quantity \in 1..MaxUnits
    BY OrderAssumption DEF Init
  <2>3. l \in NotCancelled
    BY <2>2 DEF NotCancelled
  <2>4. ~AllDelivered /\ ~AllReturned
    BY <2>2, <2>3, OrderAssumption DEF AllDelivered, AllReturned
  <2>5. ~Requested
    BY DEF Init, Requested, NoReturn, Open
  <2>6. ~SomeParcel({"OUT_FOR_DELIVERY"})
        /\ ~SomeParcel({"SHIPPED", "IN_TRANSIT", "DELIVERED", "RETURNED_TO_ORIGIN"})
    BY DEF Init, SomeParcel, NoParcel
  <2>7. status = "CONFIRMED"
    BY DEF Init
  <2>8. QED BY <2>3, <2>4, <2>5, <2>6, <2>7 DEF StatusFollowsRows, Derived
<1>2. StatusFollowsRows /\ [Next]_vars => StatusFollowsRows'
  BY StatusStep
<1>3. QED BY <1>1, <1>2, PTL DEF Spec

----------------------------------------------------------------------------
(* Types.  What needs an argument is that shares of a sum stay within it.     *)

LEMMA Quotient ==
  ASSUME NEW a \in Nat, NEW b \in Nat \ {0}
  PROVE  a \div b \in Nat /\ b * (a \div b) <= a
<1> DEFINE k == a \div b
<1>1. k \in Int /\ b * k <= a /\ a < b * k + b
  BY SMT
<1> HIDE DEF k
<1>2. k < 0 => b * k + b <= 0
  BY <1>1, SMT
<1>3. k \in Nat
  BY <1>1, <1>2
<1>4. QED BY <1>1, <1>3 DEF k

LEMMA RoundedNat ==
  ASSUME NEW sum \in Nat, NEW n \in Nat \ {0}, NEW q \in Nat
  PROVE  Rounded(sum, q, n) \in Nat
<1>1. 2 * sum * q + n \in Nat /\ 2 * n \in Nat \ {0}
  BY SMT
<1>2. QED BY <1>1, Quotient DEF Rounded

LEMMA RoundedWithin ==
  ASSUME NEW sum \in Nat, NEW n \in Nat \ {0}, NEW q \in 0..n
  PROVE  Rounded(sum, q, n) <= sum
<1>1. 2 * sum * q + n \in Nat /\ 2 * n \in Nat \ {0}
  BY SMT
<1>2. PICK r \in Nat : r = Rounded(sum, q, n)
  BY RoundedNat
<1>3. 2 * n * r <= 2 * sum * q + n
  BY <1>1, <1>2, Quotient DEF Rounded
<1>4. SUFFICES ASSUME r >= sum + 1 PROVE FALSE
  BY <1>2
<1>5. sum * q <= sum * n /\ n * (sum + 1) <= n * r
  BY <1>4, SMT
<1>6. n * (sum + 1) = sum * n + n
  BY SMT
<1>7. QED BY <1>3, <1>5, <1>6, SMT

LEMMA OrderFigures ==
  ASSUME TypeOK
  PROVE  /\ Invoice \in Nat /\ Paid \in Nat /\ Promised \in Nat /\ Refundable \in Nat
         /\ \A S \in SUBSET Lines : SumOver([x \in Lines |-> line[x].total], S) \in Nat
<1>1. Invoice \in Nat
  BY SetsAssumption, OrderAssumption, SumOverNat DEF Invoice
<1>2. Paid \in Nat
  BY <1>1 DEF Paid, TypeOK
<1>3. \A r \in Returns : [x \in Returns |-> rma[x].amount][r] \in Nat
  BY DEF TypeOK, ReturnType
<1>4. SumOver([x \in Returns |-> rma[x].amount], Returns) \in Nat
  BY <1>3, SetsAssumption, SumOverNat
<1>5. Promised \in Nat
  BY <1>4 DEF Promised, TypeOK
<1>6. ASSUME NEW S \in SUBSET Lines
      PROVE  SumOver([x \in Lines |-> line[x].total], S) \in Nat
  <2>1. \A l \in S : [x \in Lines |-> line[x].total][l] \in Nat
    BY DEF TypeOK, LineType
  <2>2. IsFiniteSet(S)
    BY SetsAssumption, FS_Subset
  <2>3. QED BY <2>1, <2>2, SumOverNat
<1>7. QED BY <1>1, <1>2, <1>5, <1>6 DEF Refundable, Larger

LEMMA RecomputeType ==
  ASSUME NEW from, Recompute(from)
  PROVE  status' \in OrderStatus
<1>1. PICK current \in {from} : status' = Derived(current)'
  BY DEF Recompute
<1>2. QED BY <1>1 DEF Derived, OrderStatus

LEMMA StatusType ==
  ASSUME TypeOK, [Next]_vars
  PROVE  status' \in OrderStatus
<1>1. CASE Advance
  BY <1>1 DEF Advance, OrderStatus
<1>2. QED BY <1>1, StatusShape, RecomputeType DEF TypeOK, OrderStatus

LEMMA StampedType ==
  ASSUME line \in [Lines -> LineType], NEW ls
  PROVE  Stamped(ls) \in [Lines -> LineType]
BY DEF Stamped, LineType

LEMMA NoReturnType ==
  ASSUME NEW l \in Lines
  PROVE  NoReturn(l) \in ReturnType
BY OrderAssumption DEF NoReturn, ReturnType, Dispositions, ReturnStatus, Open

LEMMA NothingIsContents == Nothing \in Contents /\ NoParcel \in ParcelType
BY OrderAssumption DEF Nothing, NoParcel, Contents, ParcelType

LEMMA UnshippedContents ==
  ASSUME TypeOK, NEW l \in Lines
  PROVE  /\ OnParcels(l, Live) \in Nat
         /\ Unshipped(l) \in 0..MaxUnits
<1>1. \A p \in Live : [q \in Parcels |-> parcel[q].items[l]][p] \in Nat
  BY DEF Live, TypeOK, ParcelType, Contents
<1>2. IsFiniteSet(Live)
  BY SetsAssumption, FS_Subset DEF Live
<1>3. OnParcels(l, Live) \in Nat
  BY <1>1, <1>2, SumOverNat DEF OnParcels
<1>4. line[l].quantity \in 1..MaxUnits
  BY DEF TypeOK, LineType
<1>5. QED BY <1>3, <1>4, OrderAssumption DEF Unshipped, Larger

LEMMA CreateParcelType ==
  ASSUME TypeOK, status' \in OrderStatus,
         NEW p \in Parcels, NEW items \in Contents, NEW handed \in BOOLEAN,
         CreateParcel(p, items, handed)
  PROVE  TypeOK'
<1>1. parcel' \in [Parcels -> ParcelType]
  BY DEF CreateParcel, TypeOK, ParcelType, ShipmentStatus
<1>2. line' \in [Lines -> LineType]
  BY StampedType DEF CreateParcel, TypeOK
<1>3. QED BY <1>1, <1>2 DEF CreateParcel, TypeOK, moneyVars, historyVars

LEMMA CancelLinesType ==
  ASSUME TypeOK, status' \in OrderStatus, NEW ls, CancelLines(ls)
  PROVE  TypeOK'
<1>1. line' \in [Lines -> LineType]
  BY DEF CancelLines, TypeOK, LineType
<1>2. putBack' \in [Lines -> Nat]
  BY OrderAssumption DEF CancelLines, TypeOK, LineType
<1>3. promised' \in Nat
  BY OrderFigures DEF CancelLines, TypeOK
<1>4. QED BY <1>1, <1>2, <1>3 DEF CancelLines, TypeOK

LEMMA ShipType ==
  ASSUME TypeOK, status' \in OrderStatus, NEW p \in Parcels, Ship(p)
  PROVE  TypeOK'
<1> USE DEF moneyVars, historyVars
<1>1. ASSUME NEW items \in Contents, NEW handed \in BOOLEAN, CreateParcel(p, items, handed)
      PROVE  TypeOK'
  BY <1>1, CreateParcelType
<1>2. CASE ShipOrder(p)
  <2>1. PICK left : left = [l \in Lines |-> IF l \in ActiveLines THEN Unshipped(l) ELSE 0]
    OBVIOUS
  <2>2. left \in Contents
    BY <2>1, UnshippedContents, OrderAssumption DEF Contents
  <2>3. CASE CreateParcel(p, left, TRUE)
    BY <2>2, <2>3, CreateParcelType
  <2>4. CASE ~CreateParcel(p, left, TRUE)
    <3>1. /\ parcel' = [q \in Parcels |->
                          IF parcel[q].status \in {"PENDING", "PACKED"}
                          THEN [parcel[q] EXCEPT !.status = "SHIPPED"] ELSE parcel[q]]
          /\ line' = Stamped(ActiveLines)
          /\ UNCHANGED <<cod, total, rma, tx, moneyVars, historyVars>>
      BY <1>2, <2>1, <2>4 DEF ShipOrder
    <3>2. parcel' \in [Parcels -> ParcelType]
      BY <3>1 DEF TypeOK, ParcelType, ShipmentStatus
    <3>3. line' \in [Lines -> LineType]
      BY <3>1, StampedType DEF TypeOK
    <3>4. QED BY <3>1, <3>2, <3>3 DEF TypeOK
  <2>5. QED BY <2>3, <2>4
<1>3. ASSUME NEW to \in ShipmentStatus, MoveParcel(p, to)
      PROVE  TypeOK'
  <2>1. parcel' \in [Parcels -> ParcelType]
    BY <1>3 DEF MoveParcel, TypeOK, ParcelType
  <2>2. line' \in [Lines -> LineType]
    BY <1>3, StampedType DEF MoveParcel, TypeOK
  <2>3. QED BY <1>3, <2>1, <2>2 DEF MoveParcel, TypeOK
<1>4. CASE DeliverParcel(p)
  <2>1. parcel' \in [Parcels -> ParcelType]
    BY <1>4 DEF DeliverParcel, TypeOK, ParcelType, ShipmentStatus
  <2>2. line' \in [Lines -> LineType]
    BY <1>4 DEF DeliverParcel, TypeOK, LineType
  <2>3. Collected(p) \in Nat
    <3>1. ASSUME NEW l \in Lines
          PROVE  Rounded(line[l].total, parcel[p].items[l], Larger(1, line[l].quantity)) \in Nat
      <4>1. /\ line[l].total \in Nat /\ line[l].quantity \in Nat
            /\ parcel[p].items[l] \in Nat
        BY OrderAssumption DEF TypeOK, LineType, ParcelType, Contents
      <4>2. PICK n \in Nat \ {0} : n = Larger(1, line[l].quantity)
        BY <4>1 DEF Larger
      <4>3. QED BY <4>1, <4>2, RoundedNat
    <3>2. PICK shares : shares = [l \in Lines |-> Rounded(line[l].total, parcel[p].items[l],
                                                         Larger(1, line[l].quantity))]
      OBVIOUS
    <3>3. SumOver(shares, Lines) \in Nat
      BY <3>1, <3>2, SetsAssumption, SumOverNat
    <3>4. PICK invoiced \in Nat :
            invoiced = SumOver([l \in Lines |-> line[l].total], NotCancelled)
      BY OrderFigures DEF NotCancelled
    <3>5. Larger(0, total - invoiced) \in Nat
      BY DEF Larger, TypeOK
    <3>6. QED BY <3>2, <3>3, <3>4, <3>5 DEF Collected
  <2>4. cash' \in Nat
    BY <1>4, <2>3 DEF DeliverParcel, TypeOK
  <2>5. QED BY <1>4, <2>1, <2>2, <2>4 DEF DeliverParcel, TypeOK
<1>5. CASE ReceiveBack(p)
  BY <1>5, CancelLinesType DEF ReceiveBack
<1>6. QED BY <1>1, <1>2, <1>3, <1>4, <1>5 DEF Ship

\* What the request on a return holds: a row, as it once was.
LEMMA Held ==
  ASSUME TypeOK, NEW t \in Threads, tx[t].pc = "loaded"
  PROVE  tx[t] \in TxType
BY DEF TypeOK, Idle

LEMMA ReturnedType ==
  ASSUME line \in [Lines -> LineType], NEW seen \in [return : ReturnType, line : LineType]
  PROVE  Returned(seen) \in [Lines -> LineType]
<1>1. seen.line.quantity \in 1..MaxUnits /\ seen.line.returned \in 0..MaxUnits
      /\ seen.return.quantity \in 0..MaxUnits /\ seen.return.line \in Lines
  BY DEF ReturnType, LineType
<1>2. PICK now : now = Smaller(seen.line.quantity, seen.line.returned + seen.return.quantity)
  OBVIOUS
<1>3. now \in 0..MaxUnits
  BY <1>1, <1>2, OrderAssumption DEF Smaller
<1>4. PICK full \in BOOLEAN :
        full = (now >= seen.line.quantity /\ seen.line.state = "ACTIVE")
  OBVIOUS
<1>5. Returned(seen) = [line EXCEPT ![seen.return.line].returned = now,
                                    ![seen.return.line].state = IF full THEN "RETURNED" ELSE @]
  BY <1>2, <1>4 DEF Returned
<1>6. QED BY <1>1, <1>3, <1>5 DEF LineType

\* A step that at most calls lines refunded, none of them a cancelled one.
OnlyRefunds ==
  \A l \in Lines :
    /\ line'[l].quantity = line[l].quantity /\ line'[l].total = line[l].total
    /\ line'[l].shipped = line[l].shipped /\ line'[l].delivered = line[l].delivered
    /\ line'[l].returned = line[l].returned
    /\ line'[l].state \in {line[l].state, "REFUNDED"}
    /\ line'[l].state = "CANCELLED" <=> line[l].state = "CANCELLED"

LEMMA AppliedOnly ==
  ASSUME TypeOK, NEW x \in Lines, NEW repaid, line' = Applied(x, repaid)
  PROVE  /\ OnlyRefunds /\ line' \in [Lines -> LineType]
         /\ \A l \in Lines \ {x} : line'[l] = line[l]
<1>1. PICK full \in BOOLEAN :
        full = (repaid > 0 /\ line[x].returned >= line[x].quantity
                  /\ line[x].state # "CANCELLED")
  BY Zenon
<1>2. line' = [line EXCEPT ![x].state = IF full THEN "REFUNDED" ELSE @]
  BY <1>1 DEF Applied
<1>3. full => line[x].state # "CANCELLED"
  BY <1>1
<1>4. QED BY <1>2, <1>3 DEF OnlyRefunds, TypeOK, LineType

\* What a return's refund writes, whoever asks for it.
LEMMA BearShape ==
  ASSUME TypeOK, NEW r \in Returns, NEW amount \in Nat, NEW to \in ReturnStatus \cup {"ABSENT"},
         BearRefund(r, amount, to)
  PROVE  /\ OnlyRefunds /\ line' \in [Lines -> LineType] /\ rma' \in [Returns -> ReturnType]
         /\ \A l \in Lines : l # rma[r].line => line'[l] = line[l]
         /\ cod' = cod /\ total' = total /\ parcel' = parcel /\ cash' = cash
         /\ promised' = promised /\ settled' = settled
         /\ putBack' = putBack /\ restocks' = restocks
         /\ \A x \in Returns \ {r} : rma'[x] = rma[x]
         /\ rma'[r].line = rma[r].line /\ rma'[r].quantity = rma[r].quantity
         /\ rma'[r].disposition = rma[r].disposition /\ rma'[r].received = rma[r].received
         /\ rma'[r].status = to /\ rma'[r].amount = amount
         /\ rma[r].amount = 0 /\ amount \in 1..RefundCap(r)
<1>1. /\ rma' = [rma EXCEPT ![r].status = to, ![r].amount = amount]
      /\ rma[r].amount = 0 /\ amount \in 1..RefundCap(r)
      /\ cod' = cod /\ total' = total /\ parcel' = parcel /\ cash' = cash
      /\ promised' = promised /\ settled' = settled
      /\ putBack' = putBack /\ restocks' = restocks
  BY DEF BearRefund, moneyVars
<1>2. /\ rma' \in [Returns -> ReturnType]
      /\ \A x \in Returns \ {r} : rma'[x] = rma[x]
      /\ rma'[r].line = rma[r].line /\ rma'[r].quantity = rma[r].quantity
      /\ rma'[r].disposition = rma[r].disposition /\ rma'[r].received = rma[r].received
      /\ rma'[r].status = to /\ rma'[r].amount = amount
  BY <1>1 DEF TypeOK, ReturnType
<1>3. PICK home, repaid : home \in Lines /\ home = rma[r].line /\ repaid = RepaidOn(home)
  BY DEF TypeOK, ReturnType
<1>4. line' = Applied(home, repaid)
  BY <1>3 DEF BearRefund
<1>5. QED BY <1>1, <1>2, <1>3, <1>4, AppliedOnly

LEMMA RefundBears ==
  ASSUME TypeOK, NEW t \in Threads, NEW amount \in 1..Invoice, RefundReturn(t, amount)
  PROVE  /\ tx[t].id \in Returns /\ amount \in Nat
         /\ "REFUND_INITIATED" \in ReturnStatus \cup {"ABSENT"}
         /\ BearRefund(tx[t].id, amount, "REFUND_INITIATED")
<1>1. tx[t].pc = "loaded"
  BY DEF RefundReturn, Transition
<1>2. QED BY <1>1, Held DEF RefundReturn, TxType, ReturnStatus, Open

LEMMA CreateBears ==
  ASSUME TypeOK, NEW r \in Returns, NEW amount \in 1..Invoice, CreateRefund(r, amount)
  PROVE  /\ amount \in Nat /\ rma[r].status \in ReturnStatus \cup {"ABSENT"}
         /\ BearRefund(r, amount, rma[r].status)
         /\ rma[r].status # "ABSENT" /\ tx' = tx /\ stale' = stale
BY DEF CreateRefund, TypeOK, ReturnType

LEMMA SettleShape ==
  ASSUME TypeOK, NEW r \in Returns, SettleReturn(r)
  PROVE  /\ OnlyRefunds /\ line' \in [Lines -> LineType]
         /\ \A l \in Lines : l # rma[r].line => line'[l] = line[l]
<1>1. PICK home, repaid :
        home \in Lines /\ home = rma[r].line /\ repaid = RepaidOn(home) + rma[r].amount
  BY DEF TypeOK, ReturnType
<1>2. line' = Applied(home, repaid)
  BY <1>1 DEF SettleReturn
<1>3. QED BY <1>1, <1>2, AppliedOnly

LEMMA ServeType ==
  ASSUME TypeOK, status' \in OrderStatus, NEW t \in Threads, Serve(t)
  PROVE  TypeOK'
<1> USE DEF moneyVars, historyVars
<1>1. ASSUME NEW r \in Returns, LoadReturn(t, r)
      PROVE  TypeOK'
  <2>1. Row(r) \in [return : ReturnType, line : LineType]
    BY DEF Row, TypeOK, ReturnType
  <2>2. [pc |-> "loaded", id |-> r, row |-> Row(r)] \in TxType
    BY <2>1 DEF TxType
  <2>3. tx' \in [Threads -> TxType \cup {Idle}]
    BY <1>1, <2>2 DEF LoadReturn, TypeOK
  <2>4. QED BY <1>1, <2>3 DEF LoadReturn, TypeOK
<1>2. CASE DropRequest(t)
  BY <1>2 DEF DropRequest, TypeOK
<1>3. ASSUME NEW to \in ReturnStatus, Transition(t, to)
      PROVE  /\ tx[t] \in TxType /\ tx[t].id \in Returns
             /\ tx[t].row \in [return : ReturnType, line : LineType]
             /\ tx' \in [Threads -> TxType \cup {Idle}]
             /\ stale' \in BOOLEAN
  <2>1. tx[t] \in TxType
    BY <1>3, Held DEF Transition
  <2>2. tx[t].id \in Returns /\ tx[t].row \in [return : ReturnType, line : LineType]
    BY <2>1 DEF TxType
  <2>3. tx' \in [Threads -> TxType \cup {Idle}]
    BY <1>3 DEF Transition, TypeOK
  <2>4. stale' \in BOOLEAN
    BY <1>3, Zenon DEF Transition
  <2>5. QED BY <2>1, <2>2, <2>3, <2>4
<1>4. ASSUME NEW to \in ReturnStatus, NEW replacement \in BOOLEAN,
             ReviewReturn(t, to, replacement)
      PROVE  TypeOK'
  <2>1. Transition(t, to)
    BY <1>4 DEF ReviewReturn
  <2>2. PICK st \in ReturnStatus : st = IF to = "REJECTED" THEN "CLOSED" ELSE to
    BY DEF ReturnStatus
  <2>3. PICK r \in Returns : r = tx[t].id
    BY <1>3, <2>1
  <2>4. rma' = [rma EXCEPT ![r].status = st,
                           ![r].replacement = IF to = "APPROVED" THEN replacement ELSE @,
                           ![r].received = @ \/ to = "RECEIVED"]
    BY <1>4, <2>2, <2>3 DEF ReviewReturn
  <2>5. PICK rep \in BOOLEAN, got \in BOOLEAN :
          /\ rep = IF to = "APPROVED" THEN replacement ELSE rma[r].replacement
          /\ got = (rma[r].received \/ to = "RECEIVED")
    <3>1. rma[r].replacement \in BOOLEAN
      BY DEF TypeOK, ReturnType
    <3>2. PICK rep \in BOOLEAN : rep = IF to = "APPROVED" THEN replacement ELSE rma[r].replacement
      BY <3>1
    <3>3. PICK got \in BOOLEAN : got = (rma[r].received \/ to = "RECEIVED")
      BY Zenon
    <3>4. QED BY <3>2, <3>3
  <2>6. rma' = [rma EXCEPT ![r] = [rma[r] EXCEPT !.status = st, !.replacement = rep,
                                                 !.received = got]]
    BY <2>4, <2>5 DEF TypeOK
  <2>7. rma' \in [Returns -> ReturnType]
    BY <2>6 DEF TypeOK, ReturnType
  <2>8. QED BY <1>3, <1>4, <2>1, <2>7 DEF ReviewReturn, KeepUnits, TypeOK
<1>5. ASSUME NEW to \in ReturnStatus, NEW disposition \in Dispositions,
             InspectReturn(t, to, disposition)
      PROVE  TypeOK'
  <2>1. Transition(t, to)
    BY <1>5 DEF InspectReturn
  <2>2. PICK r \in Returns : r = tx[t].id
    BY <1>3, <2>1
  <2>3. rma' \in [Returns -> ReturnType]
    BY <1>5, <2>2 DEF InspectReturn, TypeOK, ReturnType
  <2>4. restocks' \in [Returns -> Nat]
    BY <1>5, <2>2 DEF InspectReturn, TypeOK
  <2>5. line' \in [Lines -> LineType]
    BY <1>3, <1>5, <2>1, ReturnedType DEF InspectReturn, TypeOK
  <2>6. QED BY <1>3, <1>5, <2>1, <2>3, <2>4, <2>5 DEF InspectReturn, TypeOK
<1>6. ASSUME NEW amount \in 1..Invoice, RefundReturn(t, amount)
      PROVE  TypeOK'
  <2>1. Transition(t, "REFUND_INITIATED") /\ "REFUND_INITIATED" \in ReturnStatus
    BY <1>6 DEF RefundReturn, ReturnStatus, Open
  <2>2. PICK r \in Returns : r = tx[t].id /\ BearRefund(r, amount, "REFUND_INITIATED")
    BY <1>6, RefundBears
  <2>3. amount \in Nat /\ "REFUND_INITIATED" \in ReturnStatus \cup {"ABSENT"}
    BY <1>6, RefundBears
  <2>4. QED BY <1>3, <2>1, <2>2, <2>3, BearShape DEF TypeOK
<1>7. ASSUME NEW p \in Parcels, ReplaceReturn(t, p)
      PROVE  TypeOK'
  <2>1. Transition(t, "REPLACEMENT_SHIPPED") /\ "REPLACEMENT_SHIPPED" \in ReturnStatus
    BY <1>7 DEF ReplaceReturn, ReturnStatus
  <2>2. PICK r \in Returns, seen \in ReturnType : r = tx[t].id /\ seen = tx[t].row.return
    BY <1>3, <2>1
  <2>3. PICK items : items = [Nothing EXCEPT ![seen.line] = seen.quantity]
    OBVIOUS
  <2>4. items \in Contents
    BY <2>3, OrderAssumption DEF Nothing, Contents, ReturnType
  <2>5. parcel' = [parcel EXCEPT ![p] = [status |-> "SHIPPED", replaces |-> TRUE,
                                        items |-> items]]
    BY <1>7, <2>2, <2>3 DEF ReplaceReturn
  <2>6. parcel' \in [Parcels -> ParcelType]
    BY <2>4, <2>5 DEF TypeOK, ParcelType, ShipmentStatus
  <2>7. rma' \in [Returns -> ReturnType]
    BY <1>7, <2>1, <2>2 DEF ReplaceReturn, TypeOK, ReturnType
  <2>8. QED BY <1>3, <1>7, <2>1, <2>6, <2>7 DEF ReplaceReturn, TypeOK
<1>8. QED BY <1>1, <1>2, <1>4, <1>5, <1>6, <1>7 DEF Serve

LEMMA CancelItemType ==
  ASSUME TypeOK, status' \in OrderStatus, NEW l \in Lines, NEW q \in 1..MaxUnits,
         CancelItem(l, q)
  PROVE  TypeOK'
<1>1. /\ line[l] \in LineType /\ line[l].total \in Nat /\ line[l].quantity \in 1..MaxUnits
      /\ q \in 1..line[l].quantity
  BY DEF TypeOK, LineType, CancelItem, Cancellable
<1>2. PICK whole \in BOOLEAN : whole = (q = line[l].quantity)
  OBVIOUS
<1>3. PICK value : value = IF whole THEN line[l].total
                           ELSE Rounded(line[l].total, q, line[l].quantity)
  OBVIOUS
<1>4. value \in Nat /\ value <= line[l].total
  <2>1. line[l].quantity \in Nat \ {0} /\ q \in 0..line[l].quantity /\ q \in Nat
    BY <1>1, OrderAssumption
  <2>2. PICK rounded : rounded = Rounded(line[l].total, q, line[l].quantity)
    OBVIOUS
  <2>3. rounded \in Nat /\ rounded <= line[l].total
    BY <1>1, <2>1, <2>2, RoundedNat, RoundedWithin
  <2>4. QED BY <1>1, <1>3, <2>2, <2>3
<1>5. PICK active \in Nat : active = SumOver([x \in Lines |-> line[x].total], ActiveLines)
  BY OrderFigures DEF ActiveLines
<1>6. line[l].total <= active
  <2>1. l \in ActiveLines /\ IsFiniteSet(ActiveLines)
    BY SetsAssumption, FS_Subset DEF CancelItem, Cancellable, ActiveLines
  <2>2. \A x \in ActiveLines : [y \in Lines |-> line[y].total][x] \in Nat
    BY DEF ActiveLines, TypeOK, LineType
  <2>3. [y \in Lines |-> line[y].total][l] <= active
    BY <1>5, <2>1, <2>2, SumOverAtLeast
  <2>4. QED BY <2>3
<1>7. PICK rest : rest = active - value + Larger(0, total - active)
  OBVIOUS
<1>8. rest \in Nat
  BY <1>1, <1>4, <1>5, <1>6, <1>7 DEF Larger, TypeOK
<1>9. PICK last \in BOOLEAN : last = (whole /\ ActiveLines = {l})
  OBVIOUS
<1>10. /\ putBack' = [putBack EXCEPT ![l] = @ + q]
       /\ line' = IF whole THEN [line EXCEPT ![l].state = "CANCELLED"]
                  ELSE [line EXCEPT ![l].quantity = @ - q, ![l].total = @ - value]
       /\ total' = IF last THEN 0 ELSE rest
       /\ promised' = promised + (IF last THEN Refundable
                                  ELSE Smaller(Refundable, Larger(0, Paid - rest)))
       /\ UNCHANGED <<cod, parcel, rma, tx, cash, settled, restocks, stale>>
  BY <1>2, <1>3, <1>5, <1>7, <1>9 DEF CancelItem
<1>11. line' \in [Lines -> LineType]
  <2>1. CASE whole
    BY <1>10, <2>1 DEF TypeOK, LineType
  <2>2. CASE ~whole
    <3>1. line[l].quantity - q \in 1..MaxUnits /\ line[l].total - value \in Nat
      <4>1. q # line[l].quantity
        BY <1>2, <2>2
      <4>2. QED BY <1>1, <1>4, <4>1, OrderAssumption
    <3>2. PICK left \in 1..MaxUnits, worth \in Nat :
            left = line[l].quantity - q /\ worth = line[l].total - value
      BY <3>1
    <3>3. line' = [line EXCEPT ![l].quantity = left, ![l].total = worth]
      BY <1>10, <2>2, <3>2 DEF TypeOK
    <3>4. QED BY <3>3 DEF TypeOK, LineType
  <2>3. QED BY <2>1, <2>2
<1>12. promised' \in Nat
  <2>1. Refundable \in Nat /\ Paid \in Nat
    BY OrderFigures
  <2>2. QED BY <1>8, <1>10, <2>1 DEF Smaller, Larger, TypeOK
<1>13. putBack' \in [Lines -> Nat] /\ total' \in Nat
  BY <1>1, <1>8, <1>10 DEF TypeOK
<1>14. QED BY <1>10, <1>11, <1>12, <1>13 DEF TypeOK

LEMMA TypeStep ==
  ASSUME TypeOK, [Next]_vars
  PROVE  TypeOK'
<1> USE DEF moneyVars, historyVars
<1>1. status' \in OrderStatus
  BY StatusType
<1>2. CASE Advance
  BY <1>1, <1>2 DEF Advance, TypeOK
<1>3. CASE CancelOrder
  BY <1>1, <1>3, CancelLinesType DEF CancelOrder
<1>4. ASSUME NEW l \in Lines, NEW q \in 1..MaxUnits, CancelItem(l, q)
      PROVE  TypeOK'
  BY <1>1, <1>4, CancelItemType
<1>5. ASSUME NEW p \in Parcels, Ship(p)
      PROVE  TypeOK'
  BY <1>1, <1>5, ShipType
<1>6. ASSUME NEW r \in Returns, NEW l \in Lines, NEW q \in 1..MaxUnits, NEW fault \in BOOLEAN,
             OpenReturn(r, l, q, fault)
      PROVE  TypeOK'
  <2>1. [NoReturn(l) EXCEPT !.status = "REQUESTED", !.quantity = q, !.fault = fault]
          \in ReturnType
    <3>1. q \in 0..MaxUnits /\ "REQUESTED" \in ReturnStatus \cup {"ABSENT"}
      BY OrderAssumption DEF ReturnStatus, Open
    <3>2. NoReturn(l) \in ReturnType
      BY NoReturnType
    <3>3. QED BY <3>1, <3>2 DEF ReturnType
  <2>2. rma' \in [Returns -> ReturnType]
    BY <1>6, <2>1 DEF OpenReturn, TypeOK
  <2>3. QED BY <1>1, <1>6, <2>2 DEF OpenReturn, TypeOK
<1>7. ASSUME NEW t \in Threads, Serve(t)
      PROVE  TypeOK'
  BY <1>1, <1>7, ServeType
<1>8. ASSUME NEW r \in Returns, SettleReturn(r)
      PROVE  TypeOK'
  <2>1. rma' \in [Returns -> ReturnType]
    <3>1. PICK st \in ReturnStatus \cup {"ABSENT"} :
            st = IF rma[r].status = "REFUND_INITIATED" THEN "REFUND_COMPLETED" ELSE rma[r].status
      BY DEF TypeOK, ReturnType, ReturnStatus
    <3>2. rma' = [rma EXCEPT ![r] = [rma[r] EXCEPT !.repaid = TRUE, !.status = st]]
      BY <1>8, <3>1 DEF SettleReturn, TypeOK
    <3>3. QED BY <3>2 DEF TypeOK, ReturnType
  <2>2. line' \in [Lines -> LineType]
    BY <1>8, SettleShape
  <2>3. QED BY <1>1, <1>8, <2>1, <2>2 DEF SettleReturn, TypeOK
<1>9. CASE SettleCancellations
  BY <1>1, <1>9 DEF SettleCancellations, TypeOK
<1>10. CASE UNCHANGED vars
  BY <1>1, <1>10 DEF vars, TypeOK
<1>11. ASSUME NEW r \in Returns, NEW amount \in 1..Invoice, CreateRefund(r, amount)
       PROVE  TypeOK'
  BY <1>1, <1>11, CreateBears, BearShape DEF TypeOK
<1>12. QED
  BY <1>2, <1>3, <1>4, <1>5, <1>6, <1>7, <1>8, <1>9, <1>10, <1>11 DEF Next

\* Type correctness: among the rest that no line is sold or shortened below one
\* unit and that a share taken from a line's total leaves it at zero or more.
THEOREM TypeCorrect == Spec => []TypeOK
<1>1. Init => TypeOK
  <2> SUFFICES ASSUME Init PROVE TypeOK
    OBVIOUS
  <2>1. line \in [Lines -> LineType]
    BY OrderAssumption DEF Init, LineType
  <2>2. (CHOOSE l \in Lines : TRUE) \in Lines
    BY SetsAssumption
  <2>3. rma \in [Returns -> ReturnType]
    BY <2>2, NoReturnType DEF Init
  <2>4. parcel \in [Parcels -> ParcelType]
    BY NothingIsContents DEF Init
  <2>5. total \in Nat
    BY SetsAssumption, OrderAssumption, SumOverNat DEF Init, Invoice
  <2>6. putBack \in [Lines -> Nat]
    BY DEF Init, Nothing
  <2>7. QED BY <2>1, <2>3, <2>4, <2>5, <2>6 DEF Init, TypeOK, OrderStatus
<1>2. TypeOK /\ [Next]_vars => TypeOK'
  BY TypeStep
<1>3. QED BY <1>1, <1>2, PTL DEF Spec

----------------------------------------------------------------------------
(* Cancelled orders.  CancelOrder leaves out the lines that were shipped; it   *)
(* is whole because the status says that there are none.                      *)

\* Where a parcel that was handed over may be.
Handed == {"SHIPPED", "IN_TRANSIT", "OUT_FOR_DELIVERY", "DELIVERED", "RETURNED_TO_ORIGIN"}

ShippedIsHanded == (\E l \in Lines : line[l].shipped) => SomeParcel(Handed)

\* A step that stamps no line and takes no parcel back.
StampsNothing ==
  /\ \A l \in Lines : line'[l].shipped => line[l].shipped
  /\ \A p \in Parcels : parcel[p].status \in Handed => parcel'[p].status \in Handed

LEMMA NothingStamped ==
  ASSUME ShippedIsHanded, StampsNothing
  PROVE  ShippedIsHanded'
BY DEF ShippedIsHanded, StampsNothing, SomeParcel

LEMMA CancelKeeps ==
  ASSUME TypeOK, NEW ls, CancelLines(ls)
  PROVE  /\ StampsNothing
         /\ \A l \in Lines : line'[l].state = "ACTIVE" <=> l \in ActiveLines /\ l \notin ls
BY DEF CancelLines, StampsNothing, TypeOK, LineType, ActiveLines

\* Handing over needs a parcel, whoever creates it.
LEMMA HandedNow ==
  ASSUME NEW p \in Parcels, parcel'[p].status \in Handed
  PROVE  ShippedIsHanded'
BY DEF ShippedIsHanded, SomeParcel

LEMMA ShipKeeps ==
  ASSUME TypeOK, ShippedIsHanded, NEW p \in Parcels, Ship(p)
  PROVE  /\ ShippedIsHanded'
         /\ \A l \in Lines : line'[l].state = "ACTIVE" => line[l].state = "ACTIVE"
<1>1. \A ls : \A l \in Lines : Stamped(ls)[l].state = line[l].state
  BY DEF Stamped, TypeOK, LineType
<1>2. ASSUME NEW items, NEW handed \in BOOLEAN, CreateParcel(p, items, handed)
      PROVE  /\ ShippedIsHanded'
             /\ \A l \in Lines : line'[l].state = line[l].state
  <2>1. CASE handed
    <3>1. parcel'[p].status = "SHIPPED"
      BY <1>2, <2>1 DEF CreateParcel, TypeOK
    <3>2. QED BY <1>1, <1>2, <3>1, <2>1, HandedNow DEF CreateParcel, Handed
  <2>2. CASE ~handed
    <3>1. line' = line /\ \A q \in Parcels \ {p} : parcel'[q] = parcel[q]
      BY <1>2, <2>2 DEF CreateParcel, TypeOK
    <3>2. parcel[p].status \notin Handed
      BY <1>2 DEF CreateParcel, Handed
    <3>3. QED BY <3>1, <3>2, NothingStamped DEF StampsNothing
  <2>3. QED BY <2>1, <2>2
<1>3. CASE ShipOrder(p)
  <2>1. PICK left : left = [l \in Lines |-> IF l \in ActiveLines THEN Unshipped(l) ELSE 0]
    OBVIOUS
  <2>2. CASE CreateParcel(p, left, TRUE)
    BY <1>2, <2>2
  <2>3. CASE ~CreateParcel(p, left, TRUE)
    <3>1. /\ Live # {}
          /\ parcel' = [q \in Parcels |->
                          IF parcel[q].status \in {"PENDING", "PACKED"}
                          THEN [parcel[q] EXCEPT !.status = "SHIPPED"] ELSE parcel[q]]
          /\ line' = Stamped(ActiveLines)
      BY <1>3, <2>1, <2>3 DEF ShipOrder
    <3>2. PICK q \in Parcels : q \in Live
      BY <3>1 DEF Live
    <3>3. parcel[q].status \in Handed \cup {"PENDING", "PACKED"} /\ parcel[q] \in ParcelType
      BY <3>2 DEF Live, TypeOK, ParcelType, ShipmentStatus, Handed
    <3>4. parcel'[q].status \in Handed
      BY <3>1, <3>3 DEF ParcelType, Handed
    <3>5. QED BY <1>1, <3>1, <3>4, HandedNow
  <2>4. QED BY <2>2, <2>3
<1>4. ASSUME NEW to \in ShipmentStatus, MoveParcel(p, to)
      PROVE  /\ ShippedIsHanded'
             /\ \A l \in Lines : line'[l].state = line[l].state
  <2>1. /\ parcel'[p].status = to
        /\ \A q \in Parcels \ {p} : parcel'[q] = parcel[q]
    BY <1>4 DEF MoveParcel, TypeOK, ParcelType
  <2>2. parcel[p].status \in Handed => to \in Handed
    BY <1>4 DEF MoveParcel, ShipmentTransitions, Handed
  <2>3. CASE to = "SHIPPED"
    BY <1>1, <1>4, <2>1, <2>3, HandedNow DEF MoveParcel, Handed
  <2>4. CASE to # "SHIPPED"
    BY <1>4, <2>1, <2>2, <2>4, NothingStamped DEF MoveParcel, StampsNothing
  <2>5. QED BY <2>3, <2>4
<1>5. CASE DeliverParcel(p)
  <2>1. parcel'[p].status = "DELIVERED"
    BY <1>5 DEF DeliverParcel, TypeOK, ParcelType
  <2>2. \A l \in Lines : line'[l].state = line[l].state
    BY <1>5 DEF DeliverParcel, TypeOK, LineType
  <2>3. QED BY <2>1, <2>2, HandedNow DEF Handed
<1>6. CASE ReceiveBack(p)
  BY <1>6, CancelKeeps, NothingStamped DEF ReceiveBack, ActiveLines
<1>7. QED BY <1>2, <1>3, <1>4, <1>5, <1>6 DEF Ship

LEMMA ServeKeeps ==
  ASSUME TypeOK, NEW t \in Threads, Serve(t)
  PROVE  /\ StampsNothing
         /\ \A l \in Lines : line'[l].state = "ACTIVE" => line[l].state = "ACTIVE"
<1>1. ASSUME UNCHANGED <<line, parcel>>
      PROVE  /\ StampsNothing
             /\ \A l \in Lines : line'[l].state = "ACTIVE" => line[l].state = "ACTIVE"
  BY <1>1 DEF StampsNothing
<1>2. CASE DropRequest(t) \/ \E r \in Returns : LoadReturn(t, r)
  BY <1>1, <1>2 DEF DropRequest, LoadReturn
<1>3. ASSUME NEW to \in ReturnStatus, NEW replacement \in BOOLEAN,
             ReviewReturn(t, to, replacement)
      PROVE  UNCHANGED <<line, parcel>>
  BY <1>3 DEF ReviewReturn, KeepUnits
<1>4. ASSUME NEW to \in ReturnStatus, NEW disposition \in Dispositions,
             InspectReturn(t, to, disposition)
      PROVE  /\ StampsNothing
             /\ \A l \in Lines : line'[l].state = "ACTIVE" => line[l].state = "ACTIVE"
  <2>1. parcel' = parcel /\ (line' = line \/ line' = Returned(tx[t].row))
    BY <1>4 DEF InspectReturn
  <2>2. \A l \in Lines :
          /\ Returned(tx[t].row)[l].shipped = line[l].shipped
          /\ Returned(tx[t].row)[l].state \in {line[l].state, "RETURNED"}
    BY DEF Returned, TypeOK, LineType
  <2>3. QED BY <2>1, <2>2 DEF StampsNothing
<1>5. ASSUME NEW amount \in 1..Invoice, RefundReturn(t, amount)
      PROVE  /\ StampsNothing
             /\ \A l \in Lines : line'[l].state = "ACTIVE" => line[l].state = "ACTIVE"
  <2>1. parcel' = parcel /\ OnlyRefunds
    BY <1>5, RefundBears, BearShape
  <2>2. QED BY <2>1 DEF StampsNothing, OnlyRefunds
<1>6. ASSUME NEW p \in Parcels, ReplaceReturn(t, p)
      PROVE  /\ StampsNothing
             /\ \A l \in Lines : line'[l].state = "ACTIVE" => line[l].state = "ACTIVE"
  <2>1. /\ line' = line /\ parcel[p].status = "ABSENT"
        /\ \A q \in Parcels \ {p} : parcel'[q] = parcel[q]
    BY <1>6 DEF ReplaceReturn, TypeOK
  <2>2. QED BY <2>1 DEF StampsNothing, Handed
<1>7. QED BY <1>1, <1>2, <1>3, <1>4, <1>5, <1>6 DEF Serve

\* What no step undoes: a line that is not active stays so.
LEMMA LinesStep ==
  ASSUME TypeOK, ShippedIsHanded, [Next]_vars
  PROVE  /\ ShippedIsHanded'
         /\ \A l \in Lines : line'[l].state = "ACTIVE" => line[l].state = "ACTIVE"
<1>1. CASE UNCHANGED <<line, parcel>>
  BY <1>1, NothingStamped DEF StampsNothing
<1>2. CASE CancelOrder
  BY <1>2, CancelKeeps, NothingStamped DEF CancelOrder, ActiveLines
<1>3. ASSUME NEW l \in Lines, NEW q \in 1..MaxUnits, CancelItem(l, q)
      PROVE  /\ ShippedIsHanded'
             /\ \A x \in Lines : line'[x].state = "ACTIVE" => line[x].state = "ACTIVE"
  <2>1. parcel' = parcel
        /\ \A x \in Lines : line'[x].shipped = line[x].shipped
                            /\ line'[x].state \in {line[x].state, "CANCELLED"}
    BY <1>3 DEF CancelItem, TypeOK, LineType
  <2>2. QED BY <2>1, NothingStamped DEF StampsNothing
<1>4. ASSUME NEW p \in Parcels, Ship(p)
      PROVE  /\ ShippedIsHanded'
             /\ \A x \in Lines : line'[x].state = "ACTIVE" => line[x].state = "ACTIVE"
  BY <1>4, ShipKeeps
<1>5. ASSUME NEW t \in Threads, Serve(t)
      PROVE  /\ ShippedIsHanded'
             /\ \A x \in Lines : line'[x].state = "ACTIVE" => line[x].state = "ACTIVE"
  BY <1>5, ServeKeeps, NothingStamped
<1>6. ASSUME NEW r \in Returns, SettleReturn(r)
      PROVE  /\ ShippedIsHanded'
             /\ \A x \in Lines : line'[x].state = "ACTIVE" => line[x].state = "ACTIVE"
  <2>1. parcel' = parcel
        /\ \A x \in Lines : line'[x].shipped = line[x].shipped
                            /\ line'[x].state \in {line[x].state, "REFUNDED"}
    BY <1>6, SettleShape DEF SettleReturn, OnlyRefunds
  <2>2. QED BY <2>1, NothingStamped DEF StampsNothing
<1>7. ASSUME NEW r \in Returns, NEW l \in Lines, NEW q \in 1..MaxUnits, NEW fault \in BOOLEAN,
             OpenReturn(r, l, q, fault)
      PROVE  UNCHANGED <<line, parcel>>
  BY <1>7 DEF OpenReturn
<1>8. CASE Advance \/ SettleCancellations \/ UNCHANGED vars
  BY <1>1, <1>8 DEF Advance, SettleCancellations, vars
<1>9. ASSUME NEW r \in Returns, NEW amount \in 1..Invoice, CreateRefund(r, amount)
      PROVE  /\ ShippedIsHanded'
             /\ \A x \in Lines : line'[x].state = "ACTIVE" => line[x].state = "ACTIVE"
  <2>1. parcel' = parcel /\ OnlyRefunds
    BY <1>9, CreateBears, BearShape
  <2>2. StampsNothing
    BY <2>1 DEF StampsNothing, OnlyRefunds
  <2>3. QED BY <2>1, <2>2, NothingStamped DEF OnlyRefunds
<1>10. QED BY <1>1, <1>2, <1>3, <1>4, <1>5, <1>6, <1>7, <1>8, <1>9 DEF Next

\* Deriving cancels an order only if it has no other line left, or was asked to.
LEMMA RecomputeCancels ==
  ASSUME NEW from, Recompute(from), status' = "CANCELLED"
  PROVE  from = "CANCELLED" \/ NotCancelled' = {}
<1>1. PICK current \in {from} : status' = Derived(current)'
  BY DEF Recompute
<1>2. QED BY <1>1 DEF Derived

\* An order of which something was shipped is past the steps set by hand.
LEMMA NothingShippedYet ==
  ASSUME StatusFollowsRows, ShippedIsHanded, status \in {"CONFIRMED", "PROCESSING", "PACKED"}
  PROVE  \A l \in Lines : ~line[l].shipped
<1>1. /\ ~SomeParcel({"OUT_FOR_DELIVERY"})
      /\ ~SomeParcel({"SHIPPED", "IN_TRANSIT", "DELIVERED", "RETURNED_TO_ORIGIN"})
  BY DEF StatusFollowsRows, Derived
<1>2. ~SomeParcel(Handed)
  BY <1>1 DEF SomeParcel, Handed
<1>3. QED BY <1>2 DEF ShippedIsHanded

LEMMA CancelledStep ==
  ASSUME TypeOK, StatusFollowsRows, ShippedIsHanded, CancelledIsWhole, [Next]_vars
  PROVE  CancelledIsWhole'
<1>1. \A l \in Lines : line'[l].state = "ACTIVE" => line[l].state = "ACTIVE"
  BY LinesStep
<1>2. CASE status' = "CANCELLED" /\ (status = "CANCELLED" \/ NotCancelled' = {})
  BY <1>1, <1>2 DEF CancelledIsWhole, ActiveLines, NotCancelled
<1>3. CASE status' = "CANCELLED" /\ Recompute(status)
  BY <1>2, <1>3, RecomputeCancels
<1>4. CASE CancelOrder
  <2>1. PICK ls : ls = { l \in ActiveLines : ~line[l].shipped } /\ CancelLines(ls)
    BY <1>4 DEF CancelOrder
  <2>2. ls = ActiveLines
    BY <1>4, <2>1, NothingShippedYet DEF CancelOrder, ActiveLines
  <2>3. ActiveLines' = {}
    BY <2>1, <2>2, CancelKeeps DEF ActiveLines
  <2>4. QED BY <2>3 DEF CancelledIsWhole
<1>5. ASSUME NEW l \in Lines, NEW q \in 1..MaxUnits, CancelItem(l, q), status' = "CANCELLED"
      PROVE  CancelledIsWhole'
  <2>1. CASE Recompute(status)
    BY <1>3, <1>5, <2>1
  <2>2. CASE ~Recompute(status)
    <3>1. q = line[l].quantity /\ ActiveLines = {l}
      BY <1>5, <2>2 DEF CancelItem
    <3>2. line'[l].state = "CANCELLED"
      BY <1>5, <3>1 DEF CancelItem, TypeOK, LineType
    <3>3. ActiveLines' = {}
      BY <1>1, <3>1, <3>2 DEF ActiveLines
    <3>4. QED BY <3>3 DEF CancelledIsWhole
  <2>3. QED BY <2>1, <2>2
<1>6. ASSUME NEW p \in Parcels, ReceiveBack(p), status' = "CANCELLED"
      PROVE  CancelledIsWhole'
  <2>1. CASE OtherDelivered(p)
    <3>1. Recompute("DELIVERED")
      BY <1>6, <2>1 DEF ReceiveBack
    <3>2. QED BY <1>2, <1>6, <3>1, RecomputeCancels
  <2>2. CASE ~OtherDelivered(p)
    <3>1. CancelLines(ActiveLines)
      BY <1>6, <2>2 DEF ReceiveBack, RtoLines
    <3>2. ActiveLines' = {}
      BY <3>1, CancelKeeps DEF ActiveLines
    <3>3. QED BY <3>2 DEF CancelledIsWhole
  <2>3. QED BY <2>1, <2>2
<1>7. CASE status' # "CANCELLED"
  BY <1>7 DEF CancelledIsWhole
<1>8. ASSUME NEW p \in Parcels, Ship(p), status' = "CANCELLED"
      PROVE  CancelledIsWhole'
  BY <1>3, <1>6, <1>8 DEF Ship, CreateParcel, ShipOrder, MoveParcel, DeliverParcel
<1>9. ASSUME NEW t \in Threads, Serve(t), status' = "CANCELLED"
      PROVE  CancelledIsWhole'
  BY <1>2, <1>3, <1>9 DEF Serve, LoadReturn, DropRequest, ReviewReturn, InspectReturn,
       RefundReturn, BearRefund, ReplaceReturn
<1>10. CASE Advance
  BY <1>7, <1>10 DEF Advance
<1>11. ASSUME NEW r \in Returns, SettleReturn(r), status' = "CANCELLED"
       PROVE  CancelledIsWhole'
  BY <1>3, <1>11 DEF SettleReturn
<1>12. ASSUME NEW r \in Returns, NEW l \in Lines, NEW q \in 1..MaxUnits,
              NEW fault \in BOOLEAN, OpenReturn(r, l, q, fault), status' = "CANCELLED"
       PROVE  CancelledIsWhole'
  BY <1>3, <1>12 DEF OpenReturn
<1>13. CASE SettleCancellations
  BY <1>3, <1>7, <1>13 DEF SettleCancellations
<1>14. CASE UNCHANGED vars
  BY <1>2, <1>7, <1>14 DEF vars
<1>15. ASSUME NEW r \in Returns, NEW amount \in 1..Invoice, CreateRefund(r, amount),
              status' = "CANCELLED"
       PROVE  CancelledIsWhole'
  BY <1>3, <1>15 DEF CreateRefund, BearRefund
<1>16. QED
  BY <1>4, <1>5, <1>7, <1>8, <1>9, <1>10, <1>11, <1>12, <1>13, <1>14, <1>15 DEF Next

\* A cancelled order is cancelled whole: no line of it is left to deliver, and no
\* parcel that comes back later finds units to put back again.
THEOREM CancelledAlwaysWhole == Spec => []CancelledIsWhole
<1> DEFINE IInv == ShippedIsHanded /\ CancelledIsWhole
<1>1. Init => IInv
  <2>1. Init => (\A l \in Lines : ~line[l].shipped) /\ status = "CONFIRMED"
    BY DEF Init
  <2>2. QED BY <2>1 DEF ShippedIsHanded, CancelledIsWhole
<1>2. TypeOK /\ StatusFollowsRows /\ IInv /\ [Next]_vars => IInv'
  BY LinesStep, CancelledStep
<1>3. QED BY <1>1, <1>2, TypeCorrect, StatusAlwaysFollows, PTL DEF Spec

----------------------------------------------------------------------------
(* Parcels.  A new parcel takes what no live parcel carries, and a line is     *)
(* shortened only while no live parcel carries any of it.                     *)

\* The units a set of parcels carries, as a sum of naturals.
LEMMA CarriedNat ==
  ASSUME parcel \in [Parcels -> ParcelType], NEW l \in Lines, NEW S \in SUBSET Parcels
  PROVE  /\ IsFiniteSet(S)
         /\ \A q \in S : [p \in Parcels |-> parcel[p].items[l]][q] \in Nat
         /\ OnParcels(l, S) \in Nat
<1>1. IsFiniteSet(S)
  BY SetsAssumption, FS_Subset
<1>2. \A q \in S : [p \in Parcels |-> parcel[p].items[l]][q] \in Nat
  BY DEF ParcelType, Contents
<1>3. QED BY <1>1, <1>2, SumOverNat DEF OnParcels

LEMMA FirstWithinLive ==
  ASSUME TypeOK, NEW l \in Lines
  PROVE  OnParcels(l, FirstParcels) <= OnParcels(l, Live)
<1>1. FirstParcels \in SUBSET Live /\ Live \in SUBSET Parcels
  BY DEF FirstParcels, Live
<1>2. QED BY <1>1, CarriedNat, SumOverSubset DEF TypeOK, OnParcels

\* No first parcel is filled or added, so each line's sum can only shrink.
LEMMA NoneFilled ==
  ASSUME TypeOK, parcel' \in [Parcels -> ParcelType],
         \A p \in FirstParcels' : p \in FirstParcels /\ parcel'[p].items = parcel[p].items,
         NEW l \in Lines
  PROVE  OnParcels(l, FirstParcels)' <= OnParcels(l, FirstParcels)
<1>1. PICK f : f = [p \in Parcels |-> parcel[p].items[l]]
  OBVIOUS
<1>2. PICK g : g = [p \in Parcels |-> parcel'[p].items[l]]
  OBVIOUS
<1>3. PICK S \in SUBSET Parcels, T \in SUBSET Parcels : S = FirstParcels /\ T = FirstParcels'
  BY DEF FirstParcels, Live
<1>4. T \subseteq S /\ \A p \in T : g[p] = f[p]
  BY <1>1, <1>2, <1>3
<1>5. IsFiniteSet(S) /\ IsFiniteSet(T) /\ \A p \in S : f[p] \in Nat
  BY <1>1, <1>3, CarriedNat, SetsAssumption, FS_Subset DEF TypeOK
<1>6. SumOver(f, T) <= SumOver(f, S)
  BY <1>4, <1>5, SumOverSubset
<1>7. SumOver(g, T) = SumOver(f, T)
  <2>1. \A p \in T : f[p] \in Int /\ f[p] = g[p]
    BY <1>4, <1>5
  <2>2. QED BY <1>5, <2>1, SumOverSame
<1>8. OnParcels(l, FirstParcels)' = SumOver(g, T) /\ OnParcels(l, FirstParcels) = SumOver(f, S)
  BY <1>1, <1>2, <1>3 DEF OnParcels
<1>9. QED BY <1>6, <1>7, <1>8

\* The new parcel's units fit into what was left of the line.
LEMMA ParcelFits ==
  ASSUME TypeOK, TypeOK', ParcelsWithinLine,
         NEW p \in Parcels, NEW items \in Contents, NEW handed \in BOOLEAN,
         CreateParcel(p, items, handed)
  PROVE  ParcelsWithinLine'
<1> SUFFICES ASSUME NEW l \in Lines
             PROVE  OnParcels(l, FirstParcels)' <= line'[l].quantity
  BY DEF ParcelsWithinLine
<1>1. PICK S \in SUBSET Parcels : S = FirstParcels
  BY DEF FirstParcels, Live
<1>2. p \notin S /\ FirstParcels' = S \cup {p}
  <2>1. parcel[p].status = "ABSENT"
        /\ parcel'[p].status \in {"SHIPPED", "PENDING"} /\ ~parcel'[p].replaces
        /\ \A q \in Parcels \ {p} : parcel'[q] = parcel[q]
    BY DEF CreateParcel, TypeOK
  <2>2. QED BY <1>1, <2>1 DEF FirstParcels, Live
<1>3. PICK f : f = [q \in Parcels |-> parcel[q].items[l]]
  OBVIOUS
<1>4. PICK g : g = [q \in Parcels |-> parcel'[q].items[l]]
  OBVIOUS
<1>5. g[p] = items[l] /\ items[l] \in Nat /\ \A q \in S : g[q] = f[q]
  BY <1>2, <1>3, <1>4 DEF CreateParcel, TypeOK, Contents
<1>6. IsFiniteSet(S) /\ \A q \in S : f[q] \in Nat
  BY <1>3, CarriedNat DEF TypeOK
<1>7. SumOver(g, S) = SumOver(f, S)
  <2>1. \A q \in S : f[q] \in Int /\ f[q] = g[q]
    BY <1>5, <1>6
  <2>2. QED BY <1>6, <2>1, SumOverSame
<1>8. SumOver(g, S \cup {p}) = SumOver(g, S) + items[l]
  <2>1. \A q \in S : g[q] \in Int
    BY <1>5, <1>6
  <2>2. QED BY <1>2, <1>5, <1>6, <2>1, SumOverAdd
<1>9. OnParcels(l, FirstParcels)' = OnParcels(l, FirstParcels) + items[l]
  <2>1. OnParcels(l, FirstParcels)' = SumOver(g, S \cup {p})
    BY <1>2, <1>4 DEF OnParcels
  <2>2. OnParcels(l, FirstParcels) = SumOver(f, S)
    BY <1>1, <1>3 DEF OnParcels
  <2>3. QED BY <1>7, <1>8, <2>1, <2>2
<1>10. line'[l].quantity = line[l].quantity /\ line[l].quantity \in Nat
  BY OrderAssumption DEF CreateParcel, Stamped, TypeOK, LineType
<1>11. OnParcels(l, FirstParcels) <= line[l].quantity
  BY DEF ParcelsWithinLine
<1>12. OnParcels(l, FirstParcels) \in Nat /\ OnParcels(l, Live) \in Nat
       /\ OnParcels(l, FirstParcels) <= OnParcels(l, Live)
  BY <1>1, CarriedNat, FirstWithinLive, UnshippedContents DEF TypeOK
<1>13. items[l] > 0 => items[l] <= line[l].quantity - OnParcels(l, Live)
  BY <1>5, <1>10, <1>12 DEF CreateParcel, Unshipped, Larger
<1>14. QED BY <1>5, <1>9, <1>10, <1>11, <1>12, <1>13

\* A step that neither fills a first parcel nor shortens a line.
Carries ==
  /\ \A p \in FirstParcels' : p \in FirstParcels /\ parcel'[p].items = parcel[p].items
  /\ \A l \in Lines : line'[l].quantity = line[l].quantity

LEMMA CarriesFits ==
  ASSUME TypeOK, TypeOK', ParcelsWithinLine, Carries
  PROVE  ParcelsWithinLine'
<1> SUFFICES ASSUME NEW l \in Lines
             PROVE  OnParcels(l, FirstParcels)' <= line'[l].quantity
  BY DEF ParcelsWithinLine
<1>1. OnParcels(l, FirstParcels)' <= OnParcels(l, FirstParcels)
  BY NoneFilled DEF Carries, TypeOK
<1>2. OnParcels(l, FirstParcels) <= line[l].quantity /\ line'[l].quantity = line[l].quantity
  BY DEF ParcelsWithinLine, Carries
<1>3. /\ OnParcels(l, FirstParcels) \in Int /\ OnParcels(l, FirstParcels)' \in Int
      /\ line[l].quantity \in Int
  <2>1. PICK S \in SUBSET Parcels, T \in SUBSET Parcels : S = FirstParcels /\ T = FirstParcels'
    BY DEF FirstParcels, Live
  <2>2. OnParcels(l, S) \in Nat
    BY CarriedNat DEF TypeOK
  <2>3. SumOver([p \in Parcels |-> parcel'[p].items[l]], T) \in Nat
    <3>1. PICK g : g = [p \in Parcels |-> parcel'[p].items[l]]
      OBVIOUS
    <3>2. \A p \in T : g[p] \in Nat
      BY <3>1 DEF TypeOK, ParcelType, Contents
    <3>3. IsFiniteSet(T)
      BY SetsAssumption, FS_Subset
    <3>4. QED BY <3>1, <3>2, <3>3, SumOverNat
  <2>4. QED BY <2>1, <2>2, <2>3 DEF OnParcels, TypeOK, LineType
<1>4. QED BY <1>1, <1>2, <1>3

LEMMA SameParcels ==
  ASSUME UNCHANGED parcel, \A l \in Lines : line'[l].quantity = line[l].quantity
  PROVE  Carries
BY DEF Carries, FirstParcels, Live

LEMMA CancelItemFits ==
  ASSUME TypeOK, TypeOK', ParcelsWithinLine, NEW x \in Lines, NEW q \in 1..MaxUnits,
         CancelItem(x, q)
  PROVE  ParcelsWithinLine'
<1>1. parcel' = parcel /\ OnParcels(x, Live) = 0
  BY DEF CancelItem, Cancellable
<1>2. ASSUME NEW l \in Lines
      PROVE  OnParcels(l, FirstParcels)' <= line'[l].quantity
  <2>1. OnParcels(l, FirstParcels)' = OnParcels(l, FirstParcels)
    BY <1>1 DEF OnParcels, FirstParcels, Live
  <2>2. CASE l = x
    <3>1. line'[l].quantity \in 1..MaxUnits
      BY DEF TypeOK, LineType
    <3>2. PICK S \in SUBSET Parcels : S = FirstParcels
      BY DEF FirstParcels, Live
    <3>3. OnParcels(l, S) \in Nat
      BY CarriedNat DEF TypeOK
    <3>4. OnParcels(l, FirstParcels) <= 0
      BY <1>1, <2>2, FirstWithinLive
    <3>5. QED BY <2>1, <3>1, <3>2, <3>3, <3>4, OrderAssumption
  <2>3. CASE l # x
    <3>1. line'[l].quantity = line[l].quantity
      BY <2>3 DEF CancelItem, TypeOK
    <3>2. QED BY <2>1, <3>1 DEF ParcelsWithinLine
  <2>4. QED BY <2>2, <2>3
<1>3. QED BY <1>2 DEF ParcelsWithinLine

LEMMA ShipFits ==
  ASSUME TypeOK, TypeOK', ParcelsWithinLine, NEW p \in Parcels, Ship(p)
  PROVE  ParcelsWithinLine'
<1>1. \A ls : \A l \in Lines : Stamped(ls)[l].quantity = line[l].quantity
  BY DEF Stamped, TypeOK, LineType
<1>2. ASSUME NEW items \in Contents, NEW handed \in BOOLEAN, CreateParcel(p, items, handed)
      PROVE  ParcelsWithinLine'
  BY <1>2, ParcelFits
<1>3. CASE ShipOrder(p)
  <2>1. PICK left : left = [l \in Lines |-> IF l \in ActiveLines THEN Unshipped(l) ELSE 0]
    OBVIOUS
  <2>2. left \in Contents
    BY <2>1, UnshippedContents, OrderAssumption DEF Contents
  <2>3. CASE CreateParcel(p, left, TRUE)
    BY <1>2, <2>2, <2>3
  <2>4. CASE ~CreateParcel(p, left, TRUE)
    <3>1. /\ parcel' = [q \in Parcels |->
                          IF parcel[q].status \in {"PENDING", "PACKED"}
                          THEN [parcel[q] EXCEPT !.status = "SHIPPED"] ELSE parcel[q]]
          /\ line' = Stamped(ActiveLines)
      BY <1>3, <2>1, <2>4 DEF ShipOrder
    <3>2. \A q \in Parcels : /\ parcel'[q].items = parcel[q].items
                             /\ parcel'[q].replaces = parcel[q].replaces
                             /\ parcel[q].status \in {"ABSENT", "CANCELLED"}
                                  => parcel'[q].status = parcel[q].status
      BY <3>1 DEF TypeOK, ParcelType
    <3>3. Carries
      BY <1>1, <3>1, <3>2 DEF Carries, FirstParcels, Live
    <3>4. QED BY <3>3, CarriesFits
  <2>5. QED BY <2>3, <2>4
<1>4. ASSUME NEW to \in ShipmentStatus, MoveParcel(p, to) \/ DeliverParcel(p)
      PROVE  ParcelsWithinLine'
  <2>1. PICK st \in ShipmentStatus : parcel' = [parcel EXCEPT ![p].status = st]
    BY <1>4 DEF MoveParcel, DeliverParcel, ShipmentStatus
  <2>2. parcel[p].status \notin {"ABSENT", "CANCELLED"}
    BY <1>4 DEF MoveParcel, DeliverParcel, ShipmentTransitions
  <2>3. \A q \in Parcels : /\ parcel'[q].items = parcel[q].items
                           /\ parcel'[q].replaces = parcel[q].replaces
                           /\ q # p => parcel'[q] = parcel[q]
    BY <2>1 DEF TypeOK, ParcelType
  <2>4. \A l \in Lines : line'[l].quantity = line[l].quantity
    BY <1>1, <1>4 DEF MoveParcel, DeliverParcel, TypeOK, LineType
  <2>5. Carries
    BY <2>2, <2>3, <2>4 DEF Carries, FirstParcels, Live
  <2>6. QED BY <2>5, CarriesFits
<1>5. CASE ReceiveBack(p)
  <2>1. parcel' = parcel /\ \A l \in Lines : line'[l].quantity = line[l].quantity
    BY <1>5 DEF ReceiveBack, CancelLines, TypeOK, LineType
  <2>2. QED BY <2>1, SameParcels, CarriesFits
<1>6. QED BY <1>2, <1>3, <1>4, <1>5 DEF Ship, ShipmentStatus

LEMMA ServeFits ==
  ASSUME TypeOK, TypeOK', ParcelsWithinLine, NEW t \in Threads, Serve(t)
  PROVE  ParcelsWithinLine'
<1>1. CASE UNCHANGED <<line, parcel>>
  BY <1>1, SameParcels, CarriesFits
<1>2. ASSUME NEW to \in ReturnStatus, NEW disposition \in Dispositions,
             InspectReturn(t, to, disposition)
      PROVE  ParcelsWithinLine'
  <2>1. parcel' = parcel /\ (line' = line \/ line' = Returned(tx[t].row))
    BY <1>2 DEF InspectReturn
  <2>2. \A l \in Lines : Returned(tx[t].row)[l].quantity = line[l].quantity
    BY DEF Returned, TypeOK, LineType
  <2>3. QED BY <2>1, <2>2, SameParcels, CarriesFits
<1>3. ASSUME NEW p \in Parcels, ReplaceReturn(t, p)
      PROVE  ParcelsWithinLine'
  <2>1. /\ line' = line /\ parcel'[p].replaces
        /\ \A q \in Parcels \ {p} : parcel'[q] = parcel[q]
    BY <1>3 DEF ReplaceReturn, TypeOK
  <2>2. Carries
    BY <2>1 DEF Carries, FirstParcels, Live
  <2>3. QED BY <2>2, CarriesFits
<1>4. ASSUME NEW to \in ReturnStatus, NEW replacement \in BOOLEAN,
             ReviewReturn(t, to, replacement)
      PROVE  UNCHANGED <<line, parcel>>
  BY <1>4 DEF ReviewReturn, KeepUnits
<1>5. ASSUME NEW amount \in 1..Invoice, RefundReturn(t, amount)
      PROVE  ParcelsWithinLine'
  <2>1. parcel' = parcel /\ OnlyRefunds
    BY <1>5, RefundBears, BearShape
  <2>2. QED BY <2>1, SameParcels, CarriesFits DEF OnlyRefunds
<1>6. CASE DropRequest(t) \/ \E r \in Returns : LoadReturn(t, r)
  BY <1>1, <1>6 DEF DropRequest, LoadReturn
<1>7. QED BY <1>1, <1>2, <1>3, <1>4, <1>5, <1>6 DEF Serve

LEMMA ParcelsStep ==
  ASSUME TypeOK, TypeOK', ParcelsWithinLine, [Next]_vars
  PROVE  ParcelsWithinLine'
<1>1. CASE UNCHANGED <<line, parcel>>
  BY <1>1, SameParcels, CarriesFits
<1>2. CASE CancelOrder
  <2>1. parcel' = parcel /\ \A l \in Lines : line'[l].quantity = line[l].quantity
    BY <1>2 DEF CancelOrder, CancelLines, TypeOK, LineType
  <2>2. QED BY <2>1, SameParcels, CarriesFits
<1>3. ASSUME NEW l \in Lines, NEW q \in 1..MaxUnits, CancelItem(l, q)
      PROVE  ParcelsWithinLine'
  BY <1>3, CancelItemFits
<1>4. ASSUME NEW p \in Parcels, Ship(p)
      PROVE  ParcelsWithinLine'
  BY <1>4, ShipFits
<1>5. ASSUME NEW t \in Threads, Serve(t)
      PROVE  ParcelsWithinLine'
  BY <1>5, ServeFits
<1>6. ASSUME NEW r \in Returns, SettleReturn(r)
      PROVE  ParcelsWithinLine'
  <2>1. parcel' = parcel /\ \A l \in Lines : line'[l].quantity = line[l].quantity
    BY <1>6, SettleShape DEF SettleReturn, OnlyRefunds
  <2>2. QED BY <2>1, SameParcels, CarriesFits
<1>7. ASSUME NEW r \in Returns, NEW l \in Lines, NEW q \in 1..MaxUnits, NEW fault \in BOOLEAN,
             OpenReturn(r, l, q, fault)
      PROVE  UNCHANGED <<line, parcel>>
  BY <1>7 DEF OpenReturn
<1>8. CASE Advance \/ SettleCancellations \/ UNCHANGED vars
  BY <1>1, <1>8 DEF Advance, SettleCancellations, vars
<1>9. ASSUME NEW r \in Returns, NEW amount \in 1..Invoice, CreateRefund(r, amount)
      PROVE  ParcelsWithinLine'
  <2>1. parcel' = parcel /\ OnlyRefunds
    BY <1>9, CreateBears, BearShape
  <2>2. QED BY <2>1, SameParcels, CarriesFits DEF OnlyRefunds
<1>10. QED BY <1>1, <1>2, <1>3, <1>4, <1>5, <1>6, <1>7, <1>8, <1>9 DEF Next

\* However an order is split into parcels, shortened between them and sent back,
\* its first deliveries never carry more of a line than the line has.
THEOREM ParcelsAlwaysWithin == Spec => []ParcelsWithinLine
<1>1. Init => ParcelsWithinLine
  <2> SUFFICES ASSUME Init, NEW l \in Lines
               PROVE  OnParcels(l, FirstParcels) <= line[l].quantity
    BY DEF ParcelsWithinLine
  <2>1. FirstParcels = {}
    BY DEF Init, FirstParcels, Live, NoParcel
  <2>2. OnParcels(l, {}) = 0
    BY SumOverEmpty DEF OnParcels
  <2>3. line[l].quantity \in 1..MaxUnits
    BY OrderAssumption DEF Init
  <2>4. QED BY <2>1, <2>2, <2>3, OrderAssumption
<1>2. TypeOK /\ TypeOK' /\ ParcelsWithinLine /\ [Next]_vars => ParcelsWithinLine'
  BY ParcelsStep
<1>3. QED BY <1>1, <1>2, TypeCorrect, PTL DEF Spec

----------------------------------------------------------------------------
(* Returns.  A line with a return was delivered, a delivered line is on a      *)
(* parcel, and a line on a parcel is not shortened: what returns were         *)
(* promised of it stands.                                                     *)

OnDelivered(l) == \E p \in Parcels : parcel[p].status = "DELIVERED" /\ parcel[p].items[l] > 0

DeliveredFirst ==
  /\ \A l \in Lines : line[l].delivered => OnDelivered(l)
  /\ \A r \in Returns : rma[r].status # "ABSENT" => line[rma[r].line].delivered

\* What DeliveredFirst rests on: parcels that were delivered, lines that were
\* and returns that were opened stay so.
Endures ==
  /\ \A p \in Parcels : parcel[p].status = "DELIVERED" => parcel'[p] = parcel[p]
  /\ \A l \in Lines : line[l].delivered = line'[l].delivered
  /\ \A r \in Returns :
       /\ rma'[r].line = rma[r].line
       /\ rma'[r].status # "ABSENT" => rma[r].status # "ABSENT"

LEMMA EnduresDelivered ==
  ASSUME TypeOK, DeliveredFirst, Endures
  PROVE  DeliveredFirst'
<1>1. ASSUME NEW l \in Lines, OnDelivered(l)
      PROVE  OnDelivered(l)'
  BY <1>1 DEF OnDelivered, Endures
<1>2. \A r \in Returns : rma[r].line \in Lines
  BY DEF TypeOK, ReturnType
<1>3. QED BY <1>1, <1>2 DEF DeliveredFirst, Endures

LEMMA ShipDelivers ==
  ASSUME TypeOK, DeliveredFirst, NEW p \in Parcels, Ship(p)
  PROVE  DeliveredFirst'
<1>1. \A ls : \A l \in Lines : Stamped(ls)[l].delivered = line[l].delivered
  BY DEF Stamped, TypeOK, LineType
<1>2. ASSUME NEW items, NEW handed \in BOOLEAN, CreateParcel(p, items, handed)
      PROVE  DeliveredFirst'
  <2>1. /\ rma' = rma /\ (line' = line \/ \E ls : line' = Stamped(ls))
        /\ parcel[p].status = "ABSENT" /\ \A q \in Parcels \ {p} : parcel'[q] = parcel[q]
    BY <1>2 DEF CreateParcel, TypeOK
  <2>2. Endures
    BY <1>1, <2>1 DEF Endures
  <2>3. QED BY <2>2, EnduresDelivered
<1>3. CASE ShipOrder(p)
  <2>1. PICK left : left = [l \in Lines |-> IF l \in ActiveLines THEN Unshipped(l) ELSE 0]
    OBVIOUS
  <2>2. CASE CreateParcel(p, left, TRUE)
    BY <1>2, <2>2
  <2>3. CASE ~CreateParcel(p, left, TRUE)
    <3>1. /\ parcel' = [q \in Parcels |->
                          IF parcel[q].status \in {"PENDING", "PACKED"}
                          THEN [parcel[q] EXCEPT !.status = "SHIPPED"] ELSE parcel[q]]
          /\ line' = Stamped(ActiveLines) /\ rma' = rma
      BY <1>3, <2>1, <2>3 DEF ShipOrder
    <3>2. Endures
      BY <1>1, <3>1 DEF Endures
    <3>3. QED BY <3>2, EnduresDelivered
  <2>4. QED BY <2>2, <2>3
<1>4. ASSUME NEW to \in ShipmentStatus, MoveParcel(p, to)
      PROVE  DeliveredFirst'
  <2>1. parcel[p].status # "DELIVERED" /\ \A q \in Parcels \ {p} : parcel'[q] = parcel[q]
    BY <1>4 DEF MoveParcel, ShipmentTransitions, TypeOK
  <2>2. Endures
    BY <1>1, <1>4, <2>1 DEF MoveParcel, Endures
  <2>3. QED BY <2>2, EnduresDelivered
<1>5. CASE DeliverParcel(p)
  <2>1. parcel[p].status # "DELIVERED" /\ \A q \in Parcels \ {p} : parcel'[q] = parcel[q]
    BY <1>5 DEF DeliverParcel, ShipmentTransitions, TypeOK
  <2>2. parcel'[p].status = "DELIVERED" /\ parcel'[p].items = parcel[p].items
    BY <1>5 DEF DeliverParcel, TypeOK, ParcelType
  <2>3. ASSUME NEW l \in Lines
        PROVE  /\ line[l].delivered => line'[l].delivered
               /\ line'[l].delivered => line[l].delivered \/ l \in Carried(p)
    BY <1>5 DEF DeliverParcel, TypeOK, LineType
  <2>4. ASSUME NEW l \in Lines, line'[l].delivered
        PROVE  OnDelivered(l)'
    <3>1. CASE l \in Carried(p)
      BY <2>2, <3>1 DEF OnDelivered, Carried
    <3>2. CASE line[l].delivered
      BY <2>1, <3>2 DEF OnDelivered, DeliveredFirst
    <3>3. QED BY <2>3, <2>4, <3>1, <3>2
  <2>5. \A r \in Returns : rma[r].line \in Lines /\ rma'[r] = rma[r]
    BY <1>5 DEF DeliverParcel, TypeOK, ReturnType
  <2>6. QED BY <2>3, <2>4, <2>5 DEF DeliveredFirst
<1>6. CASE ReceiveBack(p)
  <2>1. Endures
    BY <1>6 DEF ReceiveBack, CancelLines, Endures, TypeOK, LineType
  <2>2. QED BY <2>1, EnduresDelivered
<1>7. QED BY <1>2, <1>3, <1>4, <1>5, <1>6 DEF Ship


\* The claims of a return follow its stages: what is not yet RECEIVED was never
\* received, and nothing is disposed of before the inspection.
Early == {"ABSENT", "REQUESTED", "UNDER_REVIEW", "APPROVED", "PICKUP_SCHEDULED"}

Stages ==
  \A r \in Returns :
    /\ rma[r].status \in Early => ~rma[r].received
    /\ rma[r].status \in Early \cup {"RECEIVED"} => rma[r].disposition = "NONE"
    /\ rma[r].status = "RECEIVED" => rma[r].received

Came(r) ==
  rma[r].received /\ rma[r].status # "RECEIVED" /\ rma[r].disposition # "RETURN_TO_CUSTOMER"

\* A step that leaves what came back alone, and claims no more.
KeepsReturns ==
  /\ \A l \in Lines : line'[l].returned = line[l].returned /\ line'[l].quantity = line[l].quantity
  /\ \A r \in Returns :
       /\ rma'[r].line = rma[r].line /\ rma'[r].quantity = rma[r].quantity
       /\ rma'[r].status \in Claims => rma[r].status \in Claims
       /\ Came(r)' <=> Came(r)

\* A request on a return whose row is as it was read.
LEMMA Fresh ==
  ASSUME TypeOK, NEW t \in Threads, NEW to, Transition(t, to), ~stale'
  PROVE  \E r \in Returns :
           /\ r = tx[t].id /\ tx[t].row = [return |-> rma[r], line |-> line[rma[r].line]]
           /\ <<rma[r].status, to>> \in ReturnTransitions
<1>1. tx[t].id \in Returns
  BY Held DEF Transition, TxType
<1>2. tx[t].row = Row(tx[t].id)
  BY DEF Transition
<1>3. <<tx[t].row.return.status, to>> \in ReturnTransitions
  BY DEF Transition
<1>4. QED BY <1>1, <1>2, <1>3 DEF Row

LEMMA ReviewKeeps ==
  ASSUME TypeOK, Stages, NEW t \in Threads, NEW to \in ReturnStatus,
         NEW replacement \in BOOLEAN, ReviewReturn(t, to, replacement), ~stale'
  PROVE  Endures /\ Stages' /\ KeepsReturns
<1>1. PICK r \in Returns :
        /\ r = tx[t].id /\ tx[t].row = [return |-> rma[r], line |-> line[rma[r].line]]
        /\ <<rma[r].status, to>> \in ReturnTransitions
  BY Fresh DEF ReviewReturn
<1>2. UNCHANGED <<line, parcel>>
  BY DEF ReviewReturn, KeepUnits
<1>3. /\ to \in {"UNDER_REVIEW", "APPROVED", "REJECTED", "PICKUP_SCHEDULED", "RECEIVED",
                 "REFUND_COMPLETED", "CLOSED", "CANCELLED"}
      /\ \A x \in Returns \ {r} : rma'[x] = rma[x]
      /\ rma'[r].line = rma[r].line /\ rma'[r].quantity = rma[r].quantity
      /\ rma'[r].disposition = rma[r].disposition
      /\ rma'[r].status = IF to = "REJECTED" THEN "CLOSED" ELSE to
      /\ rma'[r].received <=> rma[r].received \/ to = "RECEIVED"
  BY <1>1 DEF ReviewReturn, TypeOK, ReturnType
<1>4. /\ to \in {"UNDER_REVIEW", "APPROVED", "REJECTED", "PICKUP_SCHEDULED", "CANCELLED"}
           => rma[r].status \in Early \ {"ABSENT"}
      /\ to = "RECEIVED" => rma[r].status = "PICKUP_SCHEDULED"
      /\ to \in {"REFUND_COMPLETED", "CLOSED"} =>
           rma[r].status \in {"REFUND_INITIATED", "REFUND_COMPLETED", "REPLACEMENT_SHIPPED",
                              "QC_FAILED"}
  BY <1>1 DEF ReturnTransitions, Early
<1>5. rma[r].status # "ABSENT"
  BY <1>3, <1>4 DEF Early
<1>6. Endures
  BY <1>2, <1>3, <1>5 DEF Endures
<1>7. Stages'
  BY <1>3, <1>4 DEF Stages, Early
<1>8. rma'[r].status \in Claims => rma[r].status \in Claims
  BY <1>3, <1>4 DEF Claims, Early
<1>9. Came(r)' <=> Came(r)
  BY <1>3, <1>4 DEF Came, Stages, Early
<1>10. QED BY <1>2, <1>3, <1>6, <1>7, <1>8, <1>9 DEF KeepsReturns, Came

LEMMA RefundKeeps ==
  ASSUME TypeOK, Stages, NEW t \in Threads, NEW amount \in 1..Invoice,
         RefundReturn(t, amount), ~stale'
  PROVE  Endures /\ Stages' /\ KeepsReturns
<1>1. PICK r \in Returns :
        /\ r = tx[t].id /\ tx[t].row = [return |-> rma[r], line |-> line[rma[r].line]]
        /\ <<rma[r].status, "REFUND_INITIATED">> \in ReturnTransitions
  BY Fresh DEF RefundReturn
<1>2. /\ parcel' = parcel
      /\ \A l \in Lines : /\ line'[l].returned = line[l].returned
                          /\ line'[l].quantity = line[l].quantity
                          /\ line'[l].delivered = line[l].delivered
  BY <1>1, RefundBears, BearShape DEF OnlyRefunds
<1>3. /\ \A x \in Returns \ {r} : rma'[x] = rma[x]
      /\ rma'[r].line = rma[r].line /\ rma'[r].quantity = rma[r].quantity
      /\ rma'[r].disposition = rma[r].disposition /\ rma'[r].received = rma[r].received
      /\ rma'[r].status = "REFUND_INITIATED"
  BY <1>1, RefundBears, BearShape
<1>4. rma[r].status \in {"QC_PASSED", "QC_FAILED"}
  BY <1>1 DEF ReturnTransitions
<1>5. Endures
  BY <1>2, <1>3, <1>4 DEF Endures
<1>6. Stages'
  BY <1>3 DEF Stages, Early
<1>7. QED BY <1>2, <1>3, <1>4, <1>5, <1>6 DEF KeepsReturns, Came, Claims

LEMMA CreateKeeps ==
  ASSUME TypeOK, Stages, NEW r \in Returns, NEW amount \in 1..Invoice, CreateRefund(r, amount)
  PROVE  Endures /\ Stages' /\ KeepsReturns
<1>1. /\ parcel' = parcel
      /\ \A l \in Lines : /\ line'[l].returned = line[l].returned
                          /\ line'[l].quantity = line[l].quantity
                          /\ line'[l].delivered = line[l].delivered
  BY CreateBears, BearShape DEF OnlyRefunds
<1>2. /\ \A x \in Returns \ {r} : rma'[x] = rma[x]
      /\ rma'[r].line = rma[r].line /\ rma'[r].quantity = rma[r].quantity
      /\ rma'[r].disposition = rma[r].disposition /\ rma'[r].received = rma[r].received
      /\ rma'[r].status = rma[r].status /\ rma[r].status # "ABSENT"
  BY CreateBears, BearShape
<1>3. Endures
  BY <1>1, <1>2 DEF Endures
<1>4. Stages'
  BY <1>2 DEF Stages
<1>5. QED BY <1>1, <1>2, <1>3, <1>4 DEF KeepsReturns, Came

LEMMA ReplaceKeeps ==
  ASSUME TypeOK, Stages, NEW t \in Threads, NEW p \in Parcels, ReplaceReturn(t, p), ~stale'
  PROVE  Endures /\ Stages' /\ KeepsReturns
<1>1. PICK r \in Returns :
        /\ r = tx[t].id /\ tx[t].row = [return |-> rma[r], line |-> line[rma[r].line]]
        /\ <<rma[r].status, "REPLACEMENT_SHIPPED">> \in ReturnTransitions
  BY Fresh DEF ReplaceReturn
<1>2. /\ line' = line /\ parcel[p].status = "ABSENT"
      /\ \A q \in Parcels \ {p} : parcel'[q] = parcel[q]
  BY DEF ReplaceReturn, TypeOK
<1>3. /\ \A x \in Returns \ {r} : rma'[x] = rma[x]
      /\ rma'[r].line = rma[r].line /\ rma'[r].quantity = rma[r].quantity
      /\ rma'[r].disposition = rma[r].disposition /\ rma'[r].received = rma[r].received
      /\ rma'[r].status = "REPLACEMENT_SHIPPED"
  BY <1>1 DEF ReplaceReturn, TypeOK, ReturnType
<1>4. rma[r].status = "QC_PASSED"
  BY <1>1 DEF ReturnTransitions
<1>5. Endures
  BY <1>2, <1>3, <1>4 DEF Endures
<1>6. Stages'
  BY <1>3 DEF Stages, Early
<1>7. QED BY <1>2, <1>3, <1>4, <1>5, <1>6 DEF KeepsReturns, Came, Claims

\* ReturnsWithinLine, without the condition that the rows were fresh.
UnitsAddUp ==
  \A l \in Lines :
    /\ line[l].returned = Units(CameBack(l))
    /\ line[l].returned + Units(ClaimsOn(l)) <= line[l].quantity

LEMMA UnitsNat ==
  ASSUME TypeOK, NEW S \in SUBSET Returns
  PROVE  /\ IsFiniteSet(S)
         /\ \A r \in S : [x \in Returns |-> rma[x].quantity][r] \in Nat
         /\ Units(S) \in Nat
<1>1. IsFiniteSet(S)
  BY SetsAssumption, FS_Subset
<1>2. \A r \in S : [x \in Returns |-> rma[x].quantity][r] \in Nat
  BY OrderAssumption DEF TypeOK, ReturnType
<1>3. QED BY <1>1, <1>2, SumOverNat DEF Units

LEMMA KeepsAddUp ==
  ASSUME TypeOK, UnitsAddUp, KeepsReturns
  PROVE  UnitsAddUp'
<1> SUFFICES ASSUME NEW l \in Lines
             PROVE  /\ line'[l].returned = Units(CameBack(l))'
                    /\ line'[l].returned + Units(ClaimsOn(l))' <= line'[l].quantity
  BY DEF UnitsAddUp
<1>1. PICK q : q = [r \in Returns |-> rma[r].quantity]
  OBVIOUS
<1>2. q = [r \in Returns |-> rma'[r].quantity]
  BY <1>1 DEF KeepsReturns
<1>3. CameBack(l)' = CameBack(l) /\ ClaimsOn(l)' \subseteq ClaimsOn(l)
  BY DEF KeepsReturns, CameBack, Came, ClaimsOn
<1>4. PICK S \in SUBSET Returns, T \in SUBSET Returns : S = ClaimsOn(l) /\ T = ClaimsOn(l)'
  BY DEF ClaimsOn
<1>5. Units(CameBack(l))' = Units(CameBack(l))
  BY <1>1, <1>2, <1>3 DEF Units
<1>6. Units(ClaimsOn(l)) = SumOver(q, S) /\ Units(ClaimsOn(l))' = SumOver(q, T)
  BY <1>1, <1>2, <1>4 DEF Units
<1>7. SumOver(q, T) <= SumOver(q, S) /\ SumOver(q, T) \in Nat /\ SumOver(q, S) \in Nat
  <2>1. IsFiniteSet(S) /\ (\A r \in S : q[r] \in Nat) /\ T \in SUBSET S
    BY <1>1, <1>3, <1>4, UnitsNat
  <2>2. IsFiniteSet(T) /\ \A r \in T : q[r] \in Nat
    BY <1>1, UnitsNat
  <2>3. QED BY <2>1, <2>2, SumOverSubset, SumOverNat
<1>8. /\ line[l].returned = Units(CameBack(l))
      /\ line[l].returned + Units(ClaimsOn(l)) <= line[l].quantity
      /\ line'[l].returned = line[l].returned /\ line'[l].quantity = line[l].quantity
      /\ line[l].returned \in Int /\ line[l].quantity \in Int
  BY OrderAssumption DEF UnitsAddUp, KeepsReturns, TypeOK, LineType
<1>9. QED BY <1>5, <1>6, <1>7, <1>8

\* A request is opened for units that nobody claims.
LEMMA OpenAddsUp ==
  ASSUME TypeOK, Stages, UnitsAddUp,
         NEW r \in Returns, NEW l \in Lines, NEW n \in 1..MaxUnits, NEW fault \in BOOLEAN,
         OpenReturn(r, l, n, fault)
  PROVE  Stages' /\ UnitsAddUp'
<1>1. /\ rma[r].status = "ABSENT" /\ n \in 1..Returnable(l) /\ line' = line
      /\ \A x \in Returns \ {r} : rma'[x] = rma[x]
      /\ rma'[r] = [NoReturn(l) EXCEPT !.status = "REQUESTED", !.quantity = n, !.fault = fault]
  BY DEF OpenReturn, TypeOK
<1>2. /\ rma'[r].status = "REQUESTED" /\ rma'[r].quantity = n /\ rma'[r].line = l
      /\ ~rma'[r].received /\ rma'[r].disposition = "NONE"
  BY <1>1 DEF NoReturn
<1>3. Stages'
  BY <1>1, <1>2 DEF Stages, Early
<1>4. ~rma[r].received
  BY <1>1 DEF Stages, Early
<1>5. ASSUME NEW x \in Lines
      PROVE  /\ line'[x].returned = Units(CameBack(x))'
             /\ line'[x].returned + Units(ClaimsOn(x))' <= line'[x].quantity
  <2>1. PICK f, g : /\ f = [y \in Returns |-> rma[y].quantity]
                    /\ g = [y \in Returns |-> rma'[y].quantity]
    OBVIOUS
  <2>2. PICK B \in SUBSET Returns, C \in SUBSET Returns : B = CameBack(x) /\ C = ClaimsOn(x)
    BY DEF CameBack, ClaimsOn
  <2>3. r \notin B /\ r \notin C
    BY <1>1, <1>4, <2>2 DEF CameBack, ClaimsOn, Claims
  <2>4. CameBack(x)' = B /\ ClaimsOn(x)' = (IF x = l THEN C \cup {r} ELSE C)
    <3>1. PICK D \in SUBSET Returns, E \in SUBSET Returns :
            D = CameBack(x)' /\ E = ClaimsOn(x)'
      BY DEF CameBack, ClaimsOn
    <3>2. ASSUME NEW y \in Returns, y # r
          PROVE  (y \in D <=> y \in B) /\ (y \in E <=> y \in C)
      BY <1>1, <2>2, <3>1, <3>2 DEF CameBack, ClaimsOn
    <3>3. r \notin D /\ (r \in E <=> x = l)
      BY <1>2, <3>1 DEF CameBack, ClaimsOn, Claims
    <3>4. D = B
      BY <2>3, <3>2, <3>3
    <3>5. x = l => E = C \cup {r}
      BY <2>3, <3>2, <3>3
    <3>6. x # l => E = C
      BY <2>3, <3>2, <3>3
    <3>7. QED BY <3>1, <3>4, <3>5, <3>6
  <2>5. /\ IsFiniteSet(B) /\ IsFiniteSet(C)
        /\ (\A y \in B : f[y] \in Nat) /\ (\A y \in C : f[y] \in Nat)
    BY <2>1, UnitsNat
  <2>6. (\A y \in B : f[y] = g[y]) /\ (\A y \in C : f[y] = g[y]) /\ g[r] = n
    BY <1>1, <1>2, <2>1, <2>3
  <2>7. SumOver(f, B) = SumOver(g, B) /\ SumOver(f, C) = SumOver(g, C)
    <3>1. (\A y \in B : f[y] \in Int) /\ (\A y \in C : f[y] \in Int)
      BY <2>5
    <3>2. QED BY <2>5, <2>6, <3>1, SumOverSame
  <2>8. SumOver(g, C \cup {r}) = SumOver(g, C) + n
    <3>1. (\A y \in C : g[y] \in Int) /\ n \in Int
      BY <2>5, <2>6
    <3>2. QED BY <2>3, <2>5, <2>6, <3>1, SumOverAdd
  <2>9. /\ Units(CameBack(x)) = SumOver(f, B) /\ Units(ClaimsOn(x)) = SumOver(f, C)
        /\ Units(CameBack(x))' = SumOver(g, B)
        /\ Units(ClaimsOn(x))' = IF x = l THEN SumOver(g, C \cup {r}) ELSE SumOver(g, C)
    BY <2>1, <2>2, <2>4 DEF Units
  <2>10. /\ line[x].returned = SumOver(f, B)
         /\ line[x].returned + SumOver(f, C) <= line[x].quantity
         /\ line[x].returned \in Int /\ line[x].quantity \in Int
    BY <2>9, OrderAssumption DEF UnitsAddUp, TypeOK, LineType
  <2>11. SumOver(f, C) \in Int
    BY <2>5, SumOverNat
  <2>12. x = l => n <= line[x].quantity - line[x].returned - SumOver(f, C)
    BY <1>1, <2>9, <2>10, <2>11 DEF Returnable, Larger
  <2>13. QED BY <1>1, <2>7, <2>8, <2>9, <2>10, <2>11, <2>12
<1>6. QED BY <1>3, <1>5 DEF UnitsAddUp

\* A line that was delivered is on a parcel, and is not shortened.
LEMMA CancelItemUndelivered ==
  ASSUME TypeOK, DeliveredFirst, NEW x \in Lines, NEW n \in 1..MaxUnits, CancelItem(x, n)
  PROVE  ~line[x].delivered
<1>1. SUFFICES ASSUME OnDelivered(x) PROVE FALSE
  BY DEF DeliveredFirst
<1>2. PICK p \in Parcels : parcel[p].status = "DELIVERED" /\ parcel[p].items[x] > 0
  BY <1>1 DEF OnDelivered
<1>3. PICK f : f = [q \in Parcels |-> parcel[q].items[x]]
    OBVIOUS
<1>4. PICK S \in SUBSET Parcels : S = Live
  BY DEF Live
<1>5. p \in S /\ IsFiniteSet(S) /\ \A q \in S : f[q] \in Nat
  BY <1>2, <1>3, <1>4, CarriedNat DEF TypeOK, Live
<1>6. f[p] <= SumOver(f, S)
  BY <1>5, SumOverAtLeast
<1>7. SumOver(f, S) = 0
  BY <1>3, <1>4 DEF OnParcels, CancelItem, Cancellable
<1>8. QED BY <1>2, <1>3, <1>5, <1>6, <1>7

\* A line that returns were opened on is not shortened.
LEMMA CancelItemAddsUp ==
  ASSUME TypeOK, DeliveredFirst, Stages, UnitsAddUp,
         NEW x \in Lines, NEW n \in 1..MaxUnits, CancelItem(x, n), TypeOK'
  PROVE  UnitsAddUp'
<1>1. rma' = rma /\ OnParcels(x, Live) = 0
  BY DEF CancelItem, Cancellable
<1>2. ~line[x].delivered
  BY CancelItemUndelivered
<1>3. \A r \in Returns : rma[r].line = x => rma[r].status = "ABSENT"
  BY <1>2 DEF DeliveredFirst
<1>4. CameBack(x) = {} /\ ClaimsOn(x) = {}
  BY <1>3 DEF CameBack, ClaimsOn, Claims, Stages, Early
<1>5. Units({}) = 0
  BY SumOverEmpty DEF Units
<1>6. \A l \in Lines : /\ line'[l].returned = line[l].returned
                       /\ l # x => line'[l].quantity = line[l].quantity
  BY DEF CancelItem, TypeOK, LineType
<1>7. line'[x].quantity \in 1..MaxUnits
  BY DEF TypeOK, LineType
<1>8. \A l \in Lines : /\ Units(CameBack(l))' = Units(CameBack(l))
                       /\ Units(ClaimsOn(l))' = Units(ClaimsOn(l))
  BY <1>1 DEF Units, CameBack, ClaimsOn
<1>9. line'[x].returned + Units(ClaimsOn(x))' <= line'[x].quantity
  <2>1. line[x].returned = 0
    BY <1>4, <1>5 DEF UnitsAddUp
  <2>2. line'[x].returned = 0 /\ Units(ClaimsOn(x))' = 0
    BY <1>4, <1>5, <1>6, <1>8, <2>1
  <2>3. QED BY <1>7, <2>2, OrderAssumption
<1>10. QED BY <1>6, <1>8, <1>9 DEF UnitsAddUp

\* The inspection turns a claim into units that came back, or drops it.
LEMMA InspectAddsUp ==
  ASSUME TypeOK, Stages, UnitsAddUp, NEW t \in Threads, NEW to \in ReturnStatus,
         NEW disposition \in Dispositions, InspectReturn(t, to, disposition), ~stale'
  PROVE  Endures /\ Stages' /\ UnitsAddUp'
<1>1. PICK r \in Returns :
        /\ r = tx[t].id /\ tx[t].row = [return |-> rma[r], line |-> line[rma[r].line]]
        /\ <<rma[r].status, to>> \in ReturnTransitions
  BY Fresh DEF InspectReturn
<1>2. /\ to \in {"QC_PASSED", "QC_FAILED"} /\ parcel' = parcel
      /\ \A x \in Returns \ {r} : rma'[x] = rma[x]
      /\ rma'[r].line = rma[r].line /\ rma'[r].quantity = rma[r].quantity
      /\ rma'[r].disposition = (IF to = "QC_FAILED" THEN disposition ELSE rma[r].disposition)
      /\ rma'[r].received = rma[r].received
      /\ rma'[r].status = to
      /\ to = "QC_PASSED" => disposition = "NONE"
  BY <1>1 DEF InspectReturn, TypeOK, ReturnType
<1>3. rma[r].status = "RECEIVED"
  BY <1>1, <1>2 DEF ReturnTransitions
<1>4. rma[r].received /\ rma[r].disposition = "NONE"
  BY <1>3 DEF Stages
<1>5. PICK home \in Lines, n \in 0..MaxUnits : home = rma[r].line /\ n = rma[r].quantity
  BY DEF TypeOK, ReturnType
<1>6. Stages'
  BY <1>2 DEF Stages, Early
<1>7. Came(r)' <=> disposition # "RETURN_TO_CUSTOMER"
  BY <1>2, <1>4 DEF Came
<1>8. n <= line[home].quantity - line[home].returned
  <2>1. PICK f : f = [y \in Returns |-> rma[y].quantity]
    OBVIOUS
  <2>2. PICK C \in SUBSET Returns : C = ClaimsOn(home)
    BY DEF ClaimsOn
  <2>3. r \in C
    BY <1>3, <1>5, <2>2 DEF ClaimsOn, Claims
  <2>4. f[r] <= SumOver(f, C) /\ SumOver(f, C) \in Nat
    BY <2>1, <2>2, <2>3, UnitsNat, SumOverAtLeast, SumOverNat
  <2>5. f[r] = n /\ Units(ClaimsOn(home)) = SumOver(f, C)
    BY <1>5, <2>1, <2>2 DEF Units
  <2>6. line[home].returned \in Int /\ line[home].quantity \in Int
    BY OrderAssumption DEF TypeOK, LineType
  <2>7. QED BY <2>4, <2>5, <2>6 DEF UnitsAddUp
<1>9. ASSUME NEW l \in Lines
      PROVE  /\ line'[l].quantity = line[l].quantity /\ line'[l].delivered = line[l].delivered
             /\ line'[l].returned = line[l].returned
                  + (IF l = home /\ disposition # "RETURN_TO_CUSTOMER" THEN n ELSE 0)
  <2>1. line[l].returned \in Int /\ line[l].quantity \in Int
    BY OrderAssumption DEF TypeOK, LineType
  <2>2. CASE disposition = "RETURN_TO_CUSTOMER"
    BY <2>1, <2>2 DEF InspectReturn
  <2>3. CASE disposition # "RETURN_TO_CUSTOMER"
    <3>1. PICK now : now = Smaller(line[home].quantity, line[home].returned + n)
      OBVIOUS
    <3>2. now = line[home].returned + n
      BY <1>5, <1>8, <3>1, OrderAssumption DEF Smaller, TypeOK, LineType
    <3>3. PICK full \in BOOLEAN :
            full = (now >= line[home].quantity /\ line[home].state = "ACTIVE")
      OBVIOUS
    <3>4. PICK st : st = IF full THEN "RETURNED" ELSE line[home].state
      OBVIOUS
    <3>5. line' = [line EXCEPT ![home].returned = now,
                               ![home].state = IF full THEN "RETURNED" ELSE @]
      <4>1. PICK seen : /\ seen = tx[t].row /\ seen.return.line = home
                        /\ seen.return.quantity = n /\ seen.line = line[home]
        BY <1>1, <1>5
      <4>2. line' = Returned(seen)
        BY <2>3, <4>1 DEF InspectReturn
      <4>3. QED BY <3>1, <3>3, <4>1, <4>2 DEF Returned
    <3>6. line' = [line EXCEPT ![home].returned = now, ![home].state = st]
      BY <3>4, <3>5 DEF TypeOK
    <3>7. QED BY <2>1, <2>3, <3>2, <3>6 DEF TypeOK, LineType
  <2>4. QED BY <2>2, <2>3
<1>10. Endures
  BY <1>2, <1>3, <1>9 DEF Endures
<1>11. ASSUME NEW x \in Lines
       PROVE  /\ line'[x].returned = Units(CameBack(x))'
              /\ line'[x].returned + Units(ClaimsOn(x))' <= line'[x].quantity
  <2>1. PICK f : f = [y \in Returns |-> rma[y].quantity]
    OBVIOUS
  <2>2. f = [y \in Returns |-> rma'[y].quantity]
    BY <1>2, <2>1
  <2>3. PICK B \in SUBSET Returns, C \in SUBSET Returns : B = CameBack(x) /\ C = ClaimsOn(x)
    BY DEF CameBack, ClaimsOn
  <2>4. PICK D \in SUBSET Returns, E \in SUBSET Returns : D = CameBack(x)' /\ E = ClaimsOn(x)'
    BY DEF CameBack, ClaimsOn
  <2>5. /\ Units(CameBack(x)) = SumOver(f, B) /\ Units(ClaimsOn(x)) = SumOver(f, C)
        /\ Units(CameBack(x))' = SumOver(f, D) /\ Units(ClaimsOn(x))' = SumOver(f, E)
    BY <2>1, <2>2, <2>3, <2>4 DEF Units
  <2>6. ASSUME NEW y \in Returns, y # r
        PROVE  (y \in D <=> y \in B) /\ (y \in E <=> y \in C)
    BY <1>2, <2>3, <2>4, <2>6 DEF CameBack, ClaimsOn
  <2>7. /\ r \notin B /\ r \notin E
        /\ r \in C <=> x = home
        /\ r \in D <=> x = home /\ disposition # "RETURN_TO_CUSTOMER"
    BY <1>2, <1>3, <1>5, <1>7, <2>3, <2>4 DEF CameBack, ClaimsOn, Claims, Came
  <2>8. /\ IsFiniteSet(B) /\ IsFiniteSet(C) /\ f[r] = n /\ n \in Int
        /\ (\A y \in B : f[y] \in Int) /\ (\A y \in C : f[y] \in Int)
        /\ SumOver(f, B) \in Int /\ SumOver(f, C) \in Int
    <3>1. /\ IsFiniteSet(B) /\ IsFiniteSet(C)
          /\ (\A y \in B : f[y] \in Nat) /\ (\A y \in C : f[y] \in Nat)
      BY <2>1, UnitsNat
    <3>2. SumOver(f, B) \in Nat /\ SumOver(f, C) \in Nat
      BY <3>1, SumOverNat
    <3>3. QED BY <1>5, <2>1, <3>1, <3>2
  <2>9. /\ line[x].returned = SumOver(f, B)
        /\ line[x].returned + SumOver(f, C) <= line[x].quantity
        /\ line[x].quantity \in Int /\ n >= 0
    BY <1>5, <2>5, OrderAssumption DEF UnitsAddUp, TypeOK, LineType
  <2>10. CASE x # home
    <3>1. D = B /\ E = C
      BY <2>6, <2>7, <2>10
    <3>2. QED BY <1>9, <2>5, <2>9, <2>8, <2>10, <3>1
  <2>11. CASE x = home
    <3>1. E = C \ {r} /\ r \in C
      BY <2>6, <2>7, <2>11
    <3>2. SumOver(f, C) = n + SumOver(f, C \ {r})
      BY <2>8, <3>1, SumOverRemove
    <3>3. SumOver(f, C \ {r}) \in Int
      <4>1. IsFiniteSet(C \ {r}) /\ \A y \in C \ {r} : f[y] \in Int
        BY <2>8, FS_RemoveElement
      <4>2. QED BY <4>1, SumOverInt
    <3>4. CASE disposition = "RETURN_TO_CUSTOMER"
      <4>1. D = B
        BY <2>6, <2>7, <3>4
      <4>2. QED BY <1>9, <2>5, <2>8, <2>9, <3>1, <3>2, <3>3, <3>4, <4>1
    <3>5. CASE disposition # "RETURN_TO_CUSTOMER"
      <4>1. D = B \cup {r}
        BY <2>6, <2>7, <2>11, <3>5
      <4>2. SumOver(f, B \cup {r}) = SumOver(f, B) + n
        BY <2>7, <2>8, SumOverAdd
      <4>3. QED BY <1>9, <2>5, <2>8, <2>9, <2>11, <3>1, <3>2, <3>3, <3>5, <4>1, <4>2
    <3>6. QED BY <3>4, <3>5
  <2>12. QED BY <2>10, <2>11
<1>12. QED BY <1>6, <1>10, <1>11 DEF UnitsAddUp

\* A step that changes no return, and of the lines nothing they rest on.
LEMMA RowsKept ==
  ASSUME Stages, rma' = rma,
         \A l \in Lines : /\ line'[l].returned = line[l].returned
                          /\ line'[l].quantity = line[l].quantity
  PROVE  Stages' /\ KeepsReturns
BY DEF Stages, KeepsReturns, Came

LEMMA ShipKeepsReturns ==
  ASSUME TypeOK, NEW p \in Parcels, Ship(p)
  PROVE  /\ rma' = rma /\ stale' = stale
         /\ \A l \in Lines : /\ line'[l].returned = line[l].returned
                             /\ line'[l].quantity = line[l].quantity
<1> USE DEF historyVars
<1>1. \A ls : \A l \in Lines : /\ Stamped(ls)[l].returned = line[l].returned
                               /\ Stamped(ls)[l].quantity = line[l].quantity
  BY DEF Stamped, TypeOK, LineType
<1>2. ASSUME rma' = rma /\ stale' = stale, line' = line \/ \E ls : line' = Stamped(ls)
      PROVE  /\ rma' = rma /\ stale' = stale
             /\ \A l \in Lines : /\ line'[l].returned = line[l].returned
                                 /\ line'[l].quantity = line[l].quantity
  BY <1>1, <1>2
<1>3. ASSUME NEW items, NEW handed \in BOOLEAN, CreateParcel(p, items, handed)
      PROVE  rma' = rma /\ stale' = stale /\ (line' = line \/ \E ls : line' = Stamped(ls))
  BY <1>3 DEF CreateParcel
<1>4. CASE ShipOrder(p)
  <2>1. PICK left : left = [l \in Lines |-> IF l \in ActiveLines THEN Unshipped(l) ELSE 0]
    OBVIOUS
  <2>2. CASE CreateParcel(p, left, TRUE)
    BY <1>2, <1>3, <2>2
  <2>3. CASE ~CreateParcel(p, left, TRUE)
    <3>1. rma' = rma /\ stale' = stale /\ line' = Stamped(ActiveLines)
      BY <1>4, <2>1, <2>3 DEF ShipOrder
    <3>2. QED BY <1>2, <3>1
  <2>4. QED BY <2>2, <2>3
<1>5. ASSUME NEW to \in ShipmentStatus, MoveParcel(p, to)
      PROVE  rma' = rma /\ stale' = stale /\ (line' = line \/ \E ls : line' = Stamped(ls))
  BY <1>5 DEF MoveParcel
<1>6. CASE DeliverParcel(p)
  BY <1>6 DEF DeliverParcel, TypeOK, LineType
<1>7. CASE ReceiveBack(p)
  BY <1>7 DEF ReceiveBack, CancelLines, TypeOK, LineType
<1>8. QED BY <1>2, <1>3, <1>4, <1>5, <1>6, <1>7 DEF Ship

ReturnsInv == ~stale => DeliveredFirst /\ Stages /\ UnitsAddUp

LEMMA StaleStays ==
  ASSUME TypeOK, [Next]_vars, stale
  PROVE  stale'
<1> USE DEF historyVars
<1>1. ASSUME NEW p \in Parcels, Ship(p)
      PROVE  stale'
  BY <1>1, ShipKeepsReturns
<1>2. ASSUME NEW t \in Threads, Serve(t)
      PROVE  stale'
  BY <1>2 DEF Serve, LoadReturn, DropRequest, ReviewReturn, InspectReturn, RefundReturn,
       BearRefund, ReplaceReturn, Transition
<1>3. CASE \/ CancelOrder \/ Advance \/ SettleCancellations \/ UNCHANGED vars
           \/ \E l \in Lines, q \in 1..MaxUnits : CancelItem(l, q)
           \/ \E r \in Returns, l \in Lines, q \in 1..MaxUnits, fault \in BOOLEAN :
                OpenReturn(r, l, q, fault)
           \/ \E r \in Returns, amount \in 1..Invoice : CreateRefund(r, amount)
           \/ \E r \in Returns : SettleReturn(r)
  BY <1>3 DEF CancelOrder, CancelLines, Advance, SettleCancellations, vars, CancelItem,
       OpenReturn, CreateRefund, SettleReturn
<1>4. QED BY <1>1, <1>2, <1>3 DEF Next

LEMMA ReturnsStep ==
  ASSUME TypeOK, TypeOK', ReturnsInv, [Next]_vars
  PROVE  ReturnsInv'
<1> SUFFICES ASSUME ~stale' PROVE DeliveredFirst' /\ Stages' /\ UnitsAddUp'
  BY DEF ReturnsInv
<1>1. DeliveredFirst /\ Stages /\ UnitsAddUp
  BY StaleStays DEF ReturnsInv
<1>2. CASE UNCHANGED <<line, parcel, rma>>
  <2>1. Endures
    BY <1>2 DEF Endures
  <2>2. QED BY <1>1, <1>2, <2>1, EnduresDelivered, RowsKept, KeepsAddUp
<1>3. CASE CancelOrder
  <2>1. /\ rma' = rma /\ parcel' = parcel
        /\ \A l \in Lines : /\ line'[l].returned = line[l].returned
                            /\ line'[l].quantity = line[l].quantity
                            /\ line'[l].delivered = line[l].delivered
    BY <1>3 DEF CancelOrder, CancelLines, TypeOK, LineType
  <2>2. Endures
    BY <2>1 DEF Endures
  <2>3. QED BY <1>1, <2>1, <2>2, EnduresDelivered, RowsKept, KeepsAddUp
<1>4. ASSUME NEW l \in Lines, NEW q \in 1..MaxUnits, CancelItem(l, q)
      PROVE  DeliveredFirst' /\ Stages' /\ UnitsAddUp'
  <2>1. /\ rma' = rma /\ parcel' = parcel
        /\ \A x \in Lines : line'[x].delivered = line[x].delivered
    BY <1>4 DEF CancelItem, TypeOK, LineType
  <2>2. Endures
    BY <2>1 DEF Endures
  <2>3. Stages'
    BY <1>1, <2>1 DEF Stages
  <2>4. QED BY <1>1, <1>4, <2>2, <2>3, EnduresDelivered, CancelItemAddsUp
<1>5. ASSUME NEW p \in Parcels, Ship(p)
      PROVE  DeliveredFirst' /\ Stages' /\ UnitsAddUp'
  BY <1>1, <1>5, ShipDelivers, ShipKeepsReturns, RowsKept, KeepsAddUp
<1>6. ASSUME NEW r \in Returns, NEW l \in Lines, NEW q \in 1..MaxUnits, NEW fault \in BOOLEAN,
             OpenReturn(r, l, q, fault)
      PROVE  DeliveredFirst' /\ Stages' /\ UnitsAddUp'
  <2>1. /\ line' = line /\ parcel' = parcel /\ line[l].delivered
        /\ \A x \in Returns \ {r} : rma'[x] = rma[x]
        /\ rma'[r].line = l
    BY <1>6 DEF OpenReturn, TypeOK, NoReturn
  <2>2. DeliveredFirst'
    BY <1>1, <2>1 DEF DeliveredFirst, OnDelivered
  <2>3. QED BY <1>1, <1>6, <2>2, OpenAddsUp
<1>7. ASSUME NEW t \in Threads, Serve(t)
      PROVE  DeliveredFirst' /\ Stages' /\ UnitsAddUp'
  <2>1. CASE DropRequest(t) \/ \E r \in Returns : LoadReturn(t, r)
    BY <1>2, <2>1 DEF DropRequest, LoadReturn
  <2>2. ASSUME Endures /\ Stages' /\ (KeepsReturns \/ UnitsAddUp')
        PROVE  DeliveredFirst' /\ Stages' /\ UnitsAddUp'
    BY <1>1, <2>2, EnduresDelivered, KeepsAddUp
  <2>3. ASSUME NEW to \in ReturnStatus, NEW replacement \in BOOLEAN,
               ReviewReturn(t, to, replacement)
        PROVE  Endures /\ Stages' /\ KeepsReturns
    BY <1>1, <2>3, ReviewKeeps
  <2>4. ASSUME NEW to \in ReturnStatus, NEW disposition \in Dispositions,
               InspectReturn(t, to, disposition)
        PROVE  Endures /\ Stages' /\ UnitsAddUp'
    BY <1>1, <2>4, InspectAddsUp
  <2>5. ASSUME NEW amount \in 1..Invoice, RefundReturn(t, amount)
        PROVE  Endures /\ Stages' /\ KeepsReturns
    BY <1>1, <2>5, RefundKeeps
  <2>6. ASSUME NEW p \in Parcels, ReplaceReturn(t, p)
        PROVE  Endures /\ Stages' /\ KeepsReturns
    BY <1>1, <2>6, ReplaceKeeps
  <2>7. QED BY <1>7, <2>1, <2>2, <2>3, <2>4, <2>5, <2>6 DEF Serve
<1>8. ASSUME NEW r \in Returns, SettleReturn(r)
      PROVE  DeliveredFirst' /\ Stages' /\ UnitsAddUp'
  <2>1. /\ parcel' = parcel
        /\ \A l \in Lines : /\ line'[l].returned = line[l].returned
                            /\ line'[l].quantity = line[l].quantity
                            /\ line'[l].delivered = line[l].delivered
    BY <1>8, SettleShape DEF SettleReturn, OnlyRefunds
  <2>2. /\ \A x \in Returns \ {r} : rma'[x] = rma[x]
        /\ rma'[r].line = rma[r].line /\ rma'[r].quantity = rma[r].quantity
        /\ rma'[r].disposition = rma[r].disposition /\ rma'[r].received = rma[r].received
        /\ \/ rma'[r].status = rma[r].status
           \/ rma[r].status = "REFUND_INITIATED" /\ rma'[r].status = "REFUND_COMPLETED"
    BY <1>8 DEF SettleReturn, TypeOK, ReturnType
  <2>3. Endures
    BY <2>1, <2>2 DEF Endures
  <2>4. Stages'
    BY <1>1, <2>2 DEF Stages, Early
  <2>5. KeepsReturns
    BY <2>1, <2>2 DEF KeepsReturns, Came, Claims
  <2>6. QED BY <1>1, <2>3, <2>4, <2>5, EnduresDelivered, KeepsAddUp
<1>9. CASE Advance \/ SettleCancellations \/ UNCHANGED vars
  BY <1>2, <1>9 DEF Advance, SettleCancellations, vars
<1>10. ASSUME NEW r \in Returns, NEW amount \in 1..Invoice, CreateRefund(r, amount)
       PROVE  DeliveredFirst' /\ Stages' /\ UnitsAddUp'
  BY <1>1, <1>10, CreateKeeps, EnduresDelivered, KeepsAddUp
<1>11. QED BY <1>2, <1>3, <1>4, <1>5, <1>6, <1>7, <1>8, <1>9, <1>10 DEF Next

LEMMA ReturnsInit == Init => ReturnsInv
<1> SUFFICES ASSUME Init PROVE DeliveredFirst /\ Stages /\ UnitsAddUp
  BY DEF ReturnsInv
<1>1. \A r \in Returns : /\ rma[r].status = "ABSENT" /\ ~rma[r].received
                         /\ rma[r].disposition = "NONE"
  <2>1. PICK x : rma = [r \in Returns |-> NoReturn(x)]
    BY DEF Init
  <2>2. QED BY <2>1 DEF NoReturn
<1>2. \A l \in Lines : /\ ~line[l].delivered /\ line[l].returned = 0
                       /\ line[l].quantity \in 1..MaxUnits
  BY OrderAssumption DEF Init
<1>3. DeliveredFirst /\ Stages
  BY <1>1, <1>2 DEF DeliveredFirst, Stages
<1>4. ASSUME NEW l \in Lines
      PROVE  CameBack(l) = {} /\ ClaimsOn(l) = {}
  BY <1>1 DEF CameBack, ClaimsOn, Claims
<1>5. Units({}) = 0
  BY SumOverEmpty DEF Units
<1>6. ASSUME NEW l \in Lines
      PROVE  /\ line[l].returned = Units(CameBack(l))
             /\ line[l].returned + Units(ClaimsOn(l)) <= line[l].quantity
  <2>1. Units(CameBack(l)) = 0 /\ Units(ClaimsOn(l)) = 0
    BY <1>4, <1>5
  <2>2. line[l].returned = 0 /\ line[l].quantity \in 1..MaxUnits
    BY <1>2
  <2>3. QED BY <2>1, <2>2, OrderAssumption
<1>7. QED BY <1>3, <1>6 DEF UnitsAddUp

\* What came back of a line is what its returns say came back, and with the open
\* claims it is within the line: no unit is returned twice, however many requests
\* the customer opens, while no return is moved on a row that had changed.
THEOREM ReturnsAlwaysWithin == Spec => []ReturnsWithinLine
<1>1. TypeOK /\ TypeOK' /\ ReturnsInv /\ [Next]_vars => ReturnsInv'
  BY ReturnsStep
<1>2. ReturnsInv => ReturnsWithinLine
  BY DEF ReturnsInv, UnitsAddUp, ReturnsWithinLine
<1>3. QED BY <1>1, <1>2, ReturnsInit, TypeCorrect, PTL DEF Spec

----------------------------------------------------------------------------
(* The refunds of returns.  A refund is at most its units' floored share of    *)
(* the line, and shipping, whenever it is created; the refunds that are        *)
(* summed up are those of returns that hold their units.                      *)

\* Each refund alone, without division: the line's units times the refund are at
\* most the line's total times the units refunded, and the shipping for each.
WithinShare ==
  \A r \in Returns : rma[r].amount > 0 =>
    /\ rma[r].status # "ABSENT"
    /\ line[rma[r].line].quantity * rma[r].amount
         <= line[rma[r].line].total * rma[r].quantity + line[rma[r].line].quantity * Extras

\* A step that refunds nothing, and changes nothing that was refunded.
KeepsShares ==
  \A r \in Returns : rma'[r].amount > 0 =>
    /\ rma'[r].amount = rma[r].amount /\ rma'[r].status # "ABSENT"
    /\ rma'[r].line = rma[r].line /\ rma'[r].quantity = rma[r].quantity
    /\ line'[rma[r].line].quantity = line[rma[r].line].quantity
    /\ line'[rma[r].line].total = line[rma[r].line].total

LEMMA SharesKept ==
  ASSUME WithinShare, KeepsShares
  PROVE  WithinShare'
BY DEF WithinShare, KeepsShares

LEMMA ShareBound ==
  ASSUME NEW sum \in Nat, NEW n \in Nat \ {0}, NEW q \in Nat
  PROVE  UnitShare(sum, n, q) \in Nat /\ n * UnitShare(sum, n, q) <= sum * q
<1>1. CASE q >= n
  <2>1. n * sum <= sum * q
    BY <1>1, SMT
  <2>2. UnitShare(sum, n, q) = sum
    BY <1>1 DEF UnitShare
  <2>3. QED BY <2>1, <2>2
<1>2. CASE ~(q >= n)
  <2>1. sum * q \in Nat
    BY SMT
  <2>2. UnitShare(sum, n, q) = (sum * q) \div n
    BY <1>2 DEF UnitShare
  <2>3. QED BY <2>1, <2>2, Quotient
<1>3. QED BY <1>1, <1>2

Amounts(S) == SumOver([r \in Returns |-> rma[r].amount], S)

LEMMA AmountsNat ==
  ASSUME TypeOK, NEW S \in SUBSET Returns
  PROVE  /\ IsFiniteSet(S) /\ Cardinality(S) \in Nat
         /\ \A r \in S : [x \in Returns |-> rma[x].amount][r] \in Nat
         /\ Amounts(S) \in Nat
<1>1. IsFiniteSet(S)
  BY SetsAssumption, FS_Subset
<1>2. \A r \in S : [x \in Returns |-> rma[x].amount][r] \in Nat
  BY DEF TypeOK, ReturnType
<1>3. Cardinality(S) \in Nat
  BY <1>1, FS_CardinalityType
<1>4. QED BY <1>1, <1>2, <1>3, SumOverNat DEF Amounts

\* The cap of a return's refund, whatever was refunded of its line before.
LEMMA CapWithinShare ==
  ASSUME TypeOK, NEW r \in Returns, NEW l \in Lines, l = rma[r].line,
         NEW share \in Nat, share = UnitShare(line[l].total, line[l].quantity, rma[r].quantity),
         NEW amount \in Nat, amount \in 1..RefundCap(r)
  PROVE  amount <= share + Extras
<1>1. PICK paid : paid = RepaidOn(l)
  OBVIOUS
<1>2. paid \in Nat
  <2>1. PICK S \in SUBSET Returns : S = { x \in Returns : rma[x].line = l /\ rma[x].repaid }
    OBVIOUS
  <2>2. Amounts(S) \in Nat
    BY AmountsNat
  <2>3. QED BY <1>1, <2>1, <2>2 DEF RepaidOn, Amounts
<1>3. PICK shipping \in Nat :
        /\ shipping <= Extras
        /\ RefundCap(r) = Smaller(Refundable, Larger(0, share - paid + shipping))
  <2>1. PICK whole : whole = (\A x \in NotCancelled :
           line[x].returned + (IF x = l THEN rma[r].quantity ELSE 0) >= line[x].quantity)
    OBVIOUS
  <2>2. PICK shipping \in Nat : /\ shipping = IF rma[r].fault \/ whole THEN Extras ELSE 0
                                /\ shipping <= Extras
    BY OrderAssumption
  <2>3. RefundCap(r) = Smaller(Refundable, Larger(0, share - paid + shipping))
    BY <1>1, <2>1, <2>2 DEF RefundCap
  <2>4. QED BY <2>2, <2>3
<1>4. Refundable \in Nat
  BY OrderFigures
<1>5. QED BY <1>2, <1>3, <1>4, OrderAssumption DEF Smaller, Larger

\* One refund more, whoever creates it, and however far its return has come.
LEMMA BearShares ==
  ASSUME TypeOK, WithinShare, NEW r \in Returns, NEW amount \in Nat, NEW to \in ReturnStatus,
         BearRefund(r, amount, to)
  PROVE  WithinShare'
<1>1. to # "ABSENT" /\ to \in ReturnStatus \cup {"ABSENT"}
  BY DEF ReturnStatus, Open
<1>2. /\ \A x \in Returns \ {r} : rma'[x] = rma[x]
      /\ rma'[r].line = rma[r].line /\ rma'[r].quantity = rma[r].quantity
      /\ rma'[r].status = to /\ rma'[r].amount = amount
      /\ amount \in 1..RefundCap(r) /\ OnlyRefunds
  BY <1>1, BearShape
<1>3. \A x \in Returns : /\ rma[x].line \in Lines
                         /\ line'[rma[x].line].quantity = line[rma[x].line].quantity
                         /\ line'[rma[x].line].total = line[rma[x].line].total
  BY <1>2 DEF OnlyRefunds, TypeOK, ReturnType
<1>4. PICK l \in Lines, n \in Nat \ {0}, worth \in Nat, q \in Nat :
        l = rma[r].line /\ n = line[l].quantity /\ worth = line[l].total /\ q = rma[r].quantity
  <2>1. PICK l \in Lines : l = rma[r].line
    BY <1>3
  <2>2. line[l].quantity \in Nat \ {0} /\ line[l].total \in Nat /\ rma[r].quantity \in Nat
    BY OrderAssumption DEF TypeOK, LineType, ReturnType
  <2>3. QED BY <2>1, <2>2
<1>5. PICK share \in Nat : share = UnitShare(worth, n, q) /\ n * share <= worth * q
  BY ShareBound
<1>6. amount <= share + Extras
  BY <1>2, <1>4, <1>5, CapWithinShare
<1>7. n * amount <= worth * q + n * Extras
  <2>1. n * amount <= n * (share + Extras) /\ n * (share + Extras) = n * share + n * Extras
    BY <1>6, OrderAssumption, SMT
  <2>2. /\ n * amount \in Int /\ n * share \in Int /\ n * Extras \in Int /\ worth * q \in Int
        /\ n * (share + Extras) \in Int
    BY OrderAssumption, SMT
  <2>3. QED BY <1>5, <2>1, <2>2
<1>8. ASSUME NEW x \in Returns, x # r, rma'[x].amount > 0
      PROVE  /\ rma'[x].status # "ABSENT"
             /\ line'[rma'[x].line].quantity * rma'[x].amount
                  <= line'[rma'[x].line].total * rma'[x].quantity
                       + line'[rma'[x].line].quantity * Extras
  <2>1. rma'[x] = rma[x]
    BY <1>2, <1>8
  <2>2. QED BY <1>3, <1>8, <2>1 DEF WithinShare
<1>9. /\ rma'[r].status # "ABSENT"
      /\ line'[rma'[r].line].quantity * rma'[r].amount
           <= line'[rma'[r].line].total * rma'[r].quantity
                + line'[rma'[r].line].quantity * Extras
  <2>1. /\ line'[rma'[r].line].quantity = n /\ line'[rma'[r].line].total = worth
        /\ rma'[r].amount = amount /\ rma'[r].quantity = q
    BY <1>2, <1>3, <1>4
  <2>2. QED BY <1>1, <1>2, <1>7, <2>1
<1>10. QED BY <1>8, <1>9 DEF WithinShare

LEMMA ShipKeepsTotals ==
  ASSUME TypeOK, NEW p \in Parcels, Ship(p)
  PROVE  \A l \in Lines : line'[l].total = line[l].total
<1>1. \A ls : \A l \in Lines : Stamped(ls)[l].total = line[l].total
  BY DEF Stamped, TypeOK, LineType
<1>2. ASSUME NEW items, NEW handed \in BOOLEAN, CreateParcel(p, items, handed)
      PROVE  line' = line \/ \E ls : line' = Stamped(ls)
  BY <1>2 DEF CreateParcel
<1>3. CASE ShipOrder(p)
  <2>1. PICK left : left = [l \in Lines |-> IF l \in ActiveLines THEN Unshipped(l) ELSE 0]
    OBVIOUS
  <2>2. CASE CreateParcel(p, left, TRUE)
    BY <1>1, <1>2, <2>2
  <2>3. CASE ~CreateParcel(p, left, TRUE)
    BY <1>1, <1>3, <2>1, <2>3 DEF ShipOrder
  <2>4. QED BY <2>2, <2>3
<1>4. ASSUME NEW to \in ShipmentStatus, MoveParcel(p, to)
      PROVE  line' = line \/ \E ls : line' = Stamped(ls)
  BY <1>4 DEF MoveParcel
<1>5. CASE DeliverParcel(p)
  BY <1>5 DEF DeliverParcel, TypeOK, LineType
<1>6. CASE ReceiveBack(p)
  BY <1>6 DEF ReceiveBack, CancelLines, TypeOK, LineType
<1>7. QED BY <1>1, <1>2, <1>3, <1>4, <1>5, <1>6 DEF Ship

\* The requests on returns that refund nothing.
LEMMA ServeKeepsShares ==
  ASSUME TypeOK, WithinShare, NEW t \in Threads,
         \/ \E to \in ReturnStatus, replacement \in BOOLEAN : ReviewReturn(t, to, replacement)
         \/ \E to \in ReturnStatus, disposition \in Dispositions :
              InspectReturn(t, to, disposition)
         \/ \E p \in Parcels : ReplaceReturn(t, p)
  PROVE  KeepsShares
<1>1. tx[t].id \in Returns
  BY Held DEF ReviewReturn, InspectReturn, ReplaceReturn, Transition, TxType
<1>2. PICK r \in Returns : r = tx[t].id
  BY <1>1
<1>3. \A x \in Returns : rma[x].line \in Lines
  BY DEF TypeOK, ReturnType
<1>4. ASSUME NEW to \in ReturnStatus, NEW replacement \in BOOLEAN,
             ReviewReturn(t, to, replacement)
      PROVE  KeepsShares
  <2>1. /\ line' = line
        /\ to \in {"UNDER_REVIEW", "APPROVED", "REJECTED", "PICKUP_SCHEDULED", "RECEIVED",
                   "REFUND_COMPLETED", "CLOSED", "CANCELLED"}
        /\ rma' = [rma EXCEPT ![r].status = IF to = "REJECTED" THEN "CLOSED" ELSE to,
                              ![r].replacement = IF to = "APPROVED" THEN replacement ELSE @,
                              ![r].received = @ \/ to = "RECEIVED"]
    BY <1>2, <1>4 DEF ReviewReturn, KeepUnits
  <2>2. rma \in [Returns -> ReturnType]
    BY DEF TypeOK
  <2>3. \A x \in Returns \ {r} : rma'[x] = rma[x]
    BY <2>1, <2>2
  <2>4. rma'[r] = [rma[r] EXCEPT
                     !.status = IF to = "REJECTED" THEN "CLOSED" ELSE to,
                     !.replacement = IF to = "APPROVED" THEN replacement ELSE @,
                     !.received = @ \/ to = "RECEIVED"]
    BY <2>1, <2>2
  <2>5. /\ rma'[r].line = rma[r].line /\ rma'[r].quantity = rma[r].quantity
        /\ rma'[r].amount = rma[r].amount /\ rma'[r].status # "ABSENT"
    BY <2>1, <2>2, <2>4 DEF ReturnType
  <2>6. QED BY <2>1, <2>3, <2>5 DEF KeepsShares, WithinShare
<1>5. ASSUME NEW to \in ReturnStatus, NEW disposition \in Dispositions,
             InspectReturn(t, to, disposition)
      PROVE  KeepsShares
  <2>1. /\ to \in {"QC_PASSED", "QC_FAILED"}
        /\ \A x \in Returns \ {r} : rma'[x] = rma[x]
        /\ rma'[r].line = rma[r].line /\ rma'[r].quantity = rma[r].quantity
        /\ rma'[r].amount = rma[r].amount /\ rma'[r].status = to
    BY <1>2, <1>5 DEF InspectReturn, TypeOK, ReturnType
  <2>2. \A l \in Lines : line'[l].total = line[l].total /\ line'[l].quantity = line[l].quantity
    BY <1>5 DEF InspectReturn, Returned, TypeOK, LineType
  <2>3. QED BY <1>3, <2>1, <2>2 DEF KeepsShares, WithinShare
<1>6. ASSUME NEW p \in Parcels, ReplaceReturn(t, p)
      PROVE  KeepsShares
  <2>1. /\ line' = line
        /\ \A x \in Returns \ {r} : rma'[x] = rma[x]
        /\ rma'[r].line = rma[r].line /\ rma'[r].quantity = rma[r].quantity
        /\ rma'[r].amount = rma[r].amount /\ rma'[r].status = "REPLACEMENT_SHIPPED"
    BY <1>2, <1>6 DEF ReplaceReturn, TypeOK, ReturnType
  <2>2. QED BY <2>1 DEF KeepsShares, WithinShare
<1>7. QED BY <1>4, <1>5, <1>6

LEMMA SharesStep ==
  ASSUME TypeOK, DeliveredFirst, WithinShare, [Next]_vars, ~stale'
  PROVE  WithinShare'
<1>1. \A r \in Returns : rma[r].line \in Lines /\ rma[r].amount \in Nat
  BY DEF TypeOK, ReturnType
<1>2. ASSUME rma' = rma,
             \A l \in Lines : line'[l].total = line[l].total /\ line'[l].quantity = line[l].quantity
      PROVE  KeepsShares
  BY <1>1, <1>2 DEF KeepsShares, WithinShare
<1>3. CASE UNCHANGED <<line, rma>>
  BY <1>2, <1>3, SharesKept
<1>4. CASE CancelOrder
  <2>1. rma' = rma /\ \A l \in Lines : /\ line'[l].total = line[l].total
                                       /\ line'[l].quantity = line[l].quantity
    BY <1>4 DEF CancelOrder, CancelLines, TypeOK, LineType
  <2>2. QED BY <1>2, <2>1, SharesKept
<1>5. ASSUME NEW x \in Lines, NEW q \in 1..MaxUnits, CancelItem(x, q)
      PROVE  WithinShare'
  <2>1. \A r \in Returns : rma[r].line = x => rma[r].status = "ABSENT"
    BY <1>5, CancelItemUndelivered DEF DeliveredFirst
  <2>2. rma' = rma /\ \A l \in Lines : l # x => /\ line'[l].total = line[l].total
                                                /\ line'[l].quantity = line[l].quantity
    BY <1>5 DEF CancelItem, TypeOK, LineType
  <2>3. KeepsShares
    BY <1>1, <2>1, <2>2 DEF KeepsShares, WithinShare
  <2>4. QED BY <2>3, SharesKept
<1>6. ASSUME NEW p \in Parcels, Ship(p)
      PROVE  WithinShare'
  <2>1. rma' = rma /\ \A l \in Lines : /\ line'[l].total = line[l].total
                                       /\ line'[l].quantity = line[l].quantity
    BY <1>6, ShipKeepsReturns, ShipKeepsTotals
  <2>2. QED BY <1>2, <2>1, SharesKept
<1>7. ASSUME NEW r \in Returns, NEW l \in Lines, NEW q \in 1..MaxUnits, NEW fault \in BOOLEAN,
             OpenReturn(r, l, q, fault)
      PROVE  WithinShare'
  <2>1. /\ line' = line /\ \A x \in Returns \ {r} : rma'[x] = rma[x]
        /\ rma'[r].amount = 0
    BY <1>7 DEF OpenReturn, NoReturn, TypeOK
  <2>2. KeepsShares
    BY <2>1 DEF KeepsShares, WithinShare
  <2>3. QED BY <2>2, SharesKept
<1>8. ASSUME NEW t \in Threads, Serve(t)
      PROVE  WithinShare'
  <2>1. CASE DropRequest(t) \/ \E r \in Returns : LoadReturn(t, r)
    BY <1>3, <2>1 DEF DropRequest, LoadReturn
  <2>2. ASSUME NEW amount \in 1..Invoice, RefundReturn(t, amount)
        PROVE  WithinShare'
    <3>1. "REFUND_INITIATED" \in ReturnStatus
      BY DEF ReturnStatus, Open
    <3>2. QED BY <2>2, <3>1, RefundBears, BearShares
  <2>3. QED BY <1>8, <2>1, <2>2, ServeKeepsShares, SharesKept DEF Serve
<1>9. ASSUME NEW r \in Returns, NEW amount \in 1..Invoice, CreateRefund(r, amount)
      PROVE  WithinShare'
  <2>1. rma[r].status \in ReturnStatus
    BY <1>9, CreateBears
  <2>2. QED BY <1>9, <2>1, CreateBears, BearShares
<1>10. ASSUME NEW r \in Returns, SettleReturn(r)
       PROVE  WithinShare'
  <2>1. \A l \in Lines : line'[l].total = line[l].total /\ line'[l].quantity = line[l].quantity
    BY <1>10, SettleShape DEF OnlyRefunds
  <2>2. /\ \A x \in Returns \ {r} : rma'[x] = rma[x]
        /\ rma'[r].line = rma[r].line /\ rma'[r].quantity = rma[r].quantity
        /\ rma'[r].amount = rma[r].amount
        /\ rma'[r].status \in {rma[r].status, "REFUND_COMPLETED"}
    BY <1>10 DEF SettleReturn, TypeOK, ReturnType
  <2>3. KeepsShares
    BY <1>1, <2>1, <2>2 DEF KeepsShares, WithinShare
  <2>4. QED BY <2>3, SharesKept
<1>11. CASE Advance \/ SettleCancellations \/ UNCHANGED vars
  BY <1>3, <1>11 DEF Advance, SettleCancellations, vars
<1>12. QED BY <1>4, <1>5, <1>6, <1>7, <1>8, <1>9, <1>10, <1>11 DEF Next

SharesInv == ~stale => WithinShare

LEMMA SharesInit == Init => SharesInv
<1> SUFFICES ASSUME Init PROVE WithinShare
  BY DEF SharesInv
<1>1. PICK x : rma = [r \in Returns |-> NoReturn(x)]
  BY DEF Init
<1>2. \A r \in Returns : rma[r].amount = 0
  BY <1>1 DEF NoReturn
<1>3. QED BY <1>2 DEF WithinShare

\* Shares of at most n units of n are at most the whole.
LEMMA SharesWithinWhole ==
  ASSUME NEW n \in Nat \ {0}, NEW worth \in Nat, NEW u \in Nat, u <= n,
         NEW a \in Nat, NEW e \in Nat, n * a <= worth * u + n * e
  PROVE  a <= worth + e
<1>1. worth * u <= worth * n
  BY SMT
<1>2. n * (worth + e) = worth * n + n * e
  BY SMT
<1>3. n * a <= n * (worth + e)
  BY <1>1, <1>2, SMT
<1>4. ASSUME a > worth + e PROVE FALSE
  <2>1. PICK d \in Nat \ {0} : a = worth + e + d
    <3>1. a - (worth + e) \in Nat \ {0}
      BY <1>4
    <3>2. QED BY <3>1
  <2>2. n * a = n * (worth + e) + n * d
    BY <2>1, SMT
  <2>3. n * d > 0
    BY SMT
  <2>4. n * (worth + e) \in Int /\ n * d \in Int /\ n * a \in Int
    BY SMT
  <2>5. QED BY <1>3, <2>2, <2>3, <2>4
<1>5. QED BY <1>4

\* What holds of each refund, summed up.
LEMMA SharesSummed ==
  ASSUME TypeOK, WithinShare, NEW l \in Lines, NEW S \in SUBSET Returns,
         \A r \in S : rma[r].line = l /\ rma[r].amount > 0
  PROVE  line[l].quantity * Amounts(S)
           <= line[l].total * Units(S) + line[l].quantity * (Extras * Cardinality(S))
<1>1. PICK n \in Nat, worth \in Nat, extras \in Nat :
        n = line[l].quantity /\ worth = line[l].total /\ extras = Extras
  <2>1. line[l].quantity \in Nat /\ line[l].total \in Nat /\ Extras \in Nat
    BY OrderAssumption DEF TypeOK, LineType
  <2>2. QED BY <2>1
<1>2. n * extras \in Int /\ n \in Int /\ worth \in Int
  BY SMT
<1>3. PICK f, g : /\ f = [r \in Returns |-> rma[r].amount]
                  /\ g = [r \in Returns |-> rma[r].quantity]
  OBVIOUS
<1>4. PICK one : one = [r \in Returns |-> 1]
  OBVIOUS
<1>5. IsFiniteSet(S)
  BY SetsAssumption, FS_Subset
<1>6. \A r \in S : f[r] \in Int /\ g[r] \in Int /\ one[r] \in Int
  <2>1. \A r \in Returns : rma[r].amount \in Nat /\ rma[r].quantity \in Nat
    BY OrderAssumption DEF TypeOK, ReturnType
  <2>2. QED BY <1>3, <1>4, <2>1
<1>7. PICK nf, wg, ne : /\ nf = [r \in Returns |-> n * f[r]]
                        /\ wg = [r \in Returns |-> worth * g[r]]
                        /\ ne = [r \in Returns |-> (n * extras) * one[r]]
  OBVIOUS
<1>8. PICK h : h = [r \in Returns |-> wg[r] + ne[r]]
  OBVIOUS
<1>9. \A r \in S : nf[r] \in Int /\ wg[r] \in Int /\ ne[r] \in Int
  <2>1. ASSUME NEW r \in S
        PROVE  nf[r] \in Int /\ wg[r] \in Int /\ ne[r] \in Int
    <3>1. PICK a \in Int, b \in Int, c \in Int : a = f[r] /\ b = g[r] /\ c = one[r]
      BY <1>6
    <3>2. n * a \in Int /\ worth * b \in Int /\ (n * extras) * c \in Int
      BY <1>2, SMT
    <3>3. QED BY <1>7, <3>1, <3>2
  <2>2. QED BY <2>1
<1>10. \A r \in S : h[r] \in Int /\ nf[r] <= h[r]
  <2>1. ASSUME NEW r \in S
        PROVE  h[r] \in Int /\ nf[r] <= h[r]
    <3>1. n * rma[r].amount <= worth * rma[r].quantity + n * extras
      BY <1>1 DEF WithinShare
    <3>2. nf[r] = n * rma[r].amount /\ wg[r] = worth * rma[r].quantity
      BY <1>3, <1>7
    <3>3. ne[r] = n * extras
      BY <1>2, <1>4, <1>7
    <3>4. h[r] = wg[r] + ne[r]
      BY <1>8
    <3>5. QED BY <1>9, <3>1, <3>2, <3>3, <3>4
  <2>2. QED BY <2>1
<1>11. SumOver(nf, S) = n * SumOver(f, S)
  <2>1. (\A r \in S : f[r] \in Int) /\ \A r \in S : nf[r] = n * f[r]
    BY <1>6, <1>7
  <2>2. QED BY <1>2, <1>5, <2>1, SumOverTimes
<1>12. SumOver(wg, S) = worth * SumOver(g, S)
  <2>1. (\A r \in S : g[r] \in Int) /\ \A r \in S : wg[r] = worth * g[r]
    BY <1>6, <1>7
  <2>2. QED BY <1>2, <1>5, <2>1, SumOverTimes
<1>13. SumOver(ne, S) = (n * extras) * Cardinality(S)
  <2>1. (\A r \in S : one[r] = 1) /\ (\A r \in S \ S : one[r] = 0) /\ S \in SUBSET S
    BY <1>4
  <2>2. SumOver(one, S) = Cardinality(S)
    BY <1>5, <2>1, SumOverMarks
  <2>3. (\A r \in S : one[r] \in Int) /\ \A r \in S : ne[r] = (n * extras) * one[r]
    BY <1>6, <1>7
  <2>4. PICK k \in Int : k = n * extras
    BY <1>2
  <2>5. \A r \in S : ne[r] = k * one[r]
    BY <2>3, <2>4
  <2>6. SumOver(ne, S) = k * SumOver(one, S)
    BY <1>5, <2>3, <2>5, SumOverTimes
  <2>7. QED BY <2>2, <2>4, <2>6
<1>14. SumOver(h, S) = SumOver(wg, S) + SumOver(ne, S)
  <2>1. /\ \A r \in S : wg[r] \in Int
        /\ \A r \in S : ne[r] \in Int
        /\ \A r \in S : h[r] = wg[r] + ne[r]
    BY <1>8, <1>9
  <2>2. QED BY <1>5, <2>1, SumOverPlus
<1>15. SumOver(nf, S) <= SumOver(h, S)
  <2>1. /\ \A r \in S : nf[r] \in Int
        /\ \A r \in S : h[r] \in Int
        /\ \A r \in S : nf[r] <= h[r]
    BY <1>9, <1>10
  <2>2. QED BY <1>5, <2>1, SumOverAtMost
<1>16. PICK c \in Nat : c = Cardinality(S)
  BY <1>5, FS_CardinalityType
<1>17. (n * extras) * c = n * (extras * c)
  BY SMT
<1>18. Amounts(S) = SumOver(f, S) /\ Units(S) = SumOver(g, S)
  BY <1>3 DEF Amounts, Units
<1>19. QED BY <1>1, <1>11, <1>12, <1>13, <1>14, <1>15, <1>16, <1>17, <1>18

LEMMA RefundsBounded ==
  ASSUME TypeOK, ReturnsInv, SharesInv
  PROVE  RefundsWithinLine
<1> SUFFICES ASSUME ~stale, NEW l \in Lines
             PROVE  SumOver([r \in Returns |-> rma[r].amount], RefundsOn(l))
                      <= line[l].total + Extras * Cardinality(RefundsOn(l))
  BY DEF RefundsWithinLine
<1>1. PICK S \in SUBSET Returns, T \in SUBSET Returns, C \in SUBSET Returns :
        S = RefundsOn(l) /\ T = CameBack(l) /\ C = ClaimsOn(l)
  BY DEF RefundsOn, CameBack, ClaimsOn
<1>2. T \cap C = {} /\ S \subseteq T \cup C
  <2>1. ASSUME NEW r \in Returns, r \in T, r \in C PROVE FALSE
    <3>1. /\ rma[r].received /\ rma[r].status # "RECEIVED" /\ rma[r].status \in Claims
      BY <1>1, <2>1 DEF CameBack, ClaimsOn
    <3>2. QED BY <3>1 DEF ReturnsInv, Stages, Claims, Early
  <2>2. QED BY <1>1, <2>1 DEF RefundsOn
<1>3. PICK g : g = [r \in Returns |-> rma[r].quantity]
  OBVIOUS
<1>4. \A R \in SUBSET Returns : /\ IsFiniteSet(R) /\ (\A r \in R : g[r] \in Nat)
                               /\ Units(R) = SumOver(g, R) /\ Units(R) \in Nat
  BY <1>3, UnitsNat DEF Units
<1>5. Units(S) <= Units(T \cup C)
  <2>1. T \cup C \in SUBSET Returns
    OBVIOUS
  <2>2. QED BY <1>2, <1>4, <2>1, SumOverSubset
<1>6. Units(T \cup C) = Units(T) + Units(C)
  <2>1. (\A r \in T : g[r] \in Int) /\ (\A r \in C : g[r] \in Int)
    BY <1>4
  <2>2. T \cup C \in SUBSET Returns
    OBVIOUS
  <2>3. QED BY <1>2, <1>4, <2>1, <2>2, SumOverDisjoint
<1>7. line[l].quantity \in Nat \ {0} /\ line[l].total \in Nat
  BY OrderAssumption DEF TypeOK, LineType
<1>8. Units(S) \in Nat /\ Units(S) <= line[l].quantity
  <2>1. line[l].returned = Units(T) /\ line[l].returned + Units(C) <= line[l].quantity
    BY <1>1 DEF ReturnsInv, UnitsAddUp
  <2>2. Units(S) \in Nat /\ Units(T) \in Nat /\ Units(C) \in Nat
    BY <1>4
  <2>3. QED BY <1>5, <1>6, <1>7, <2>1, <2>2
<1>9. Amounts(S) \in Nat /\ Cardinality(S) \in Nat
  BY AmountsNat
<1>10. Extras * Cardinality(S) \in Nat
  BY <1>9, OrderAssumption, SMT
<1>11. line[l].quantity * Amounts(S)
         <= line[l].total * Units(S) + line[l].quantity * (Extras * Cardinality(S))
  <2>1. \A r \in S : rma[r].line = l /\ rma[r].amount > 0
    BY <1>1 DEF RefundsOn, CameBack, ClaimsOn
  <2>2. QED BY <2>1, SharesSummed DEF SharesInv
<1>12. Amounts(S) <= line[l].total + Extras * Cardinality(S)
  BY <1>7, <1>8, <1>9, <1>10, <1>11, SharesWithinWhole
<1>13. QED BY <1>1, <1>12 DEF Amounts

\* Whoever creates a line's refunds and whenever, those of returns that hold
\* their units never add up to more than the line, and the shipping once for
\* each, in whatever portions the units are claimed and come back: each refund is
\* at most a floored share of its units, and no unit is held twice.
THEOREM RefundsAlwaysWithin == Spec => []RefundsWithinLine
<1>1. TypeOK /\ ReturnsInv /\ ReturnsInv' /\ SharesInv /\ [Next]_vars => SharesInv'
  BY StaleStays, SharesStep DEF ReturnsInv, SharesInv
<1>2. TypeOK /\ TypeOK' /\ ReturnsInv /\ [Next]_vars => ReturnsInv'
  BY ReturnsStep
<1>3. TypeOK /\ ReturnsInv /\ SharesInv => RefundsWithinLine
  BY RefundsBounded
<1>4. QED BY <1>1, <1>2, <1>3, ReturnsInit, SharesInit, TypeCorrect, PTL DEF Spec

----------------------------------------------------------------------------
(* Units go back once.  A cancelled line that a return was opened on before   *)
(* has two parcels that reached their end, one at the customer and one back   *)
(* at the seller; no other cancelled line has units that could come back.     *)

HasReturn(l) == \E r \in Returns : rma[r].line = l /\ rma[r].status # "ABSENT"
Ended == {"DELIVERED", "RETURNED_TO_ORIGIN"}
TwoEnded(l) ==
  \E p, q \in Parcels :
    /\ p # q
    /\ parcel[p].status \in Ended /\ parcel[p].items[l] > 0
    /\ parcel[q].status \in Ended /\ parcel[q].items[l] > 0

\* What cancellations put back is what the line is short of.
PutBackOnce ==
  \A l \in Lines :
    putBack[l] = Bought[l] - (IF line[l].state = "CANCELLED" THEN 0 ELSE line[l].quantity)

CancelledTwice == \A l \in Lines : line[l].state = "CANCELLED" /\ HasReturn(l) => TwoEnded(l)

RestocksCame == \A r \in Returns : restocks[r] = 0 \/ (restocks[r] = 1 /\ Came(r))

RestockInv == ~stale => PutBackOnce /\ CancelledTwice /\ RestocksCame

\* A parcel that reached its end stays there.
EndedStay == \A p \in Parcels : parcel[p].status \in Ended => parcel'[p] = parcel[p]

LEMMA TwoEndedStay ==
  ASSUME EndedStay, NEW l \in Lines, TwoEnded(l)
  PROVE  TwoEnded(l)'
BY DEF EndedStay, TwoEnded

\* A step that cancels nothing and puts nothing back.
KeepsStock ==
  /\ putBack' = putBack
  /\ \A l \in Lines : /\ line'[l].quantity = line[l].quantity
                      /\ line'[l].state = "CANCELLED" <=> line[l].state = "CANCELLED"
  /\ \A l \in Lines : line[l].state = "CANCELLED" /\ HasReturn(l)' => HasReturn(l)
  /\ EndedStay

LEMMA StockKept ==
  ASSUME TypeOK, PutBackOnce, CancelledTwice, KeepsStock
  PROVE  PutBackOnce' /\ CancelledTwice'
<1>1. PutBackOnce'
  BY DEF PutBackOnce, KeepsStock
<1>2. CancelledTwice'
  BY TwoEndedStay DEF CancelledTwice, KeepsStock
<1>3. QED BY <1>1, <1>2

\* Lines are cancelled: none of them has a return, unless two parcels of it ended.
LEMMA CancelPutsBack ==
  ASSUME TypeOK, PutBackOnce, CancelledTwice, RestocksCame,
         NEW ls \in SUBSET ActiveLines, CancelLines(ls),
         \A l \in ls : HasReturn(l) => TwoEnded(l)
  PROVE  PutBackOnce' /\ CancelledTwice' /\ RestocksCame'
<1>1. /\ parcel' = parcel /\ rma' = rma /\ restocks' = restocks
      /\ putBack' = [l \in Lines |-> putBack[l] + (IF l \in ls THEN line[l].quantity ELSE 0)]
      /\ line' = [l \in Lines |-> IF l \in ls THEN [line[l] EXCEPT !.state = "CANCELLED"]
                                  ELSE line[l]]
  BY DEF CancelLines
<1>2. ASSUME NEW l \in Lines
      PROVE  putBack'[l]
               = Bought[l] - (IF line'[l].state = "CANCELLED" THEN 0 ELSE line'[l].quantity)
  <2>1. /\ putBack[l]
             = Bought[l] - (IF line[l].state = "CANCELLED" THEN 0 ELSE line[l].quantity)
        /\ line[l].quantity \in Int /\ Bought[l] \in Int /\ putBack[l] \in Int
    BY OrderAssumption DEF PutBackOnce, TypeOK, LineType
  <2>2. CASE l \in ls
    <3>1. line[l].state = "ACTIVE" /\ line'[l].state = "CANCELLED"
          /\ putBack'[l] = putBack[l] + line[l].quantity
      BY <1>1, <2>2 DEF ActiveLines, TypeOK, LineType
    <3>2. QED BY <2>1, <3>1
  <2>3. CASE l \notin ls
    <3>1. line'[l] = line[l] /\ putBack'[l] = putBack[l] + 0
      BY <1>1, <2>3
    <3>2. QED BY <2>1, <3>1
  <2>4. QED BY <2>2, <2>3
<1>3. ASSUME NEW l \in Lines, line'[l].state = "CANCELLED", HasReturn(l)'
      PROVE  TwoEnded(l)'
  <2>1. HasReturn(l) /\ (l \in ls \/ line[l].state = "CANCELLED")
    BY <1>1, <1>3 DEF HasReturn
  <2>2. TwoEnded(l)
    BY <2>1 DEF CancelledTwice
  <2>3. QED BY <1>1, <2>2 DEF TwoEnded
<1>4. RestocksCame'
  BY <1>1 DEF RestocksCame, Came
<1>5. QED BY <1>2, <1>3, <1>4 DEF PutBackOnce, CancelledTwice

\* Before anything was shipped nothing was delivered, and nothing is returned.
LEMMA CancelOrderPutsBack ==
  ASSUME TypeOK, StatusFollowsRows, DeliveredFirst,
         PutBackOnce, CancelledTwice, RestocksCame, CancelOrder
  PROVE  PutBackOnce' /\ CancelledTwice' /\ RestocksCame'
<1>1. PICK ls \in SUBSET ActiveLines : CancelLines(ls)
  BY DEF CancelOrder, ActiveLines
<1>2. ~SomeParcel({"SHIPPED", "IN_TRANSIT", "DELIVERED", "RETURNED_TO_ORIGIN"})
  BY DEF CancelOrder, StatusFollowsRows, Derived
<1>3. \A l \in Lines : ~HasReturn(l)
  BY <1>2 DEF SomeParcel, HasReturn, DeliveredFirst, OnDelivered
<1>4. QED BY <1>1, <1>3, CancelPutsBack DEF ActiveLines

\* What a parcel brings back and a return was opened on is on two parcels: this
\* one and the one that was delivered.
LEMMA ReceiveBackPutsBack ==
  ASSUME TypeOK, DeliveredFirst, PutBackOnce, CancelledTwice, RestocksCame,
         NEW p \in Parcels, ReceiveBack(p)
  PROVE  PutBackOnce' /\ CancelledTwice' /\ RestocksCame'
<1>1. PICK ls \in SUBSET ActiveLines : ls = RtoLines(p) /\ CancelLines(ls)
  BY DEF ReceiveBack, RtoLines
<1>2. ASSUME NEW l \in ls, HasReturn(l)
      PROVE  TwoEnded(l)
  <2>1. l \in Lines /\ l \in ActiveLines /\ line[l].delivered
    BY <1>2 DEF HasReturn, DeliveredFirst, ActiveLines
  <2>2. PICK q \in Parcels : parcel[q].status = "DELIVERED" /\ parcel[q].items[l] > 0
    BY <2>1 DEF DeliveredFirst, OnDelivered
  <2>3. l \in Carried(p)
    <3>1. CASE OtherDelivered(p)
      BY <1>1, <3>1 DEF RtoLines
    <3>2. CASE ~OtherDelivered(p)
      BY <2>1, <3>2 DEF OtherDelivered
    <3>3. QED BY <3>1, <3>2
  <2>4. parcel[p].status = "RETURNED_TO_ORIGIN" /\ parcel[p].items[l] > 0
    BY <2>3 DEF ReceiveBack, Carried
  <2>5. p # q
    BY <2>2, <2>4
  <2>6. QED BY <2>2, <2>4, <2>5 DEF TwoEnded, Ended
<1>3. QED BY <1>1, <1>2, CancelPutsBack

LEMMA CancelItemPutsBack ==
  ASSUME TypeOK, DeliveredFirst, PutBackOnce, CancelledTwice, RestocksCame,
         NEW x \in Lines, NEW n \in 1..MaxUnits, CancelItem(x, n)
  PROVE  PutBackOnce' /\ CancelledTwice' /\ RestocksCame'
<1>1. /\ parcel' = parcel /\ rma' = rma /\ restocks' = restocks
      /\ putBack' = [putBack EXCEPT ![x] = @ + n]
      /\ line[x].state = "ACTIVE"
  BY DEF CancelItem, Cancellable
<1>2. ~line[x].delivered
  BY CancelItemUndelivered
<1>3. ~HasReturn(x)
  BY <1>2 DEF HasReturn, DeliveredFirst
<1>4. /\ \A l \in Lines : l # x => line'[l] = line[l]
      /\ n = line[x].quantity => line'[x].state = "CANCELLED"
      /\ n # line[x].quantity => /\ line'[x].state = "ACTIVE"
                                 /\ line'[x].quantity = line[x].quantity - n
  BY <1>1 DEF CancelItem, TypeOK, LineType
<1>5. ASSUME NEW l \in Lines
      PROVE  putBack'[l]
               = Bought[l] - (IF line'[l].state = "CANCELLED" THEN 0 ELSE line'[l].quantity)
  <2>1. /\ putBack[l]
             = Bought[l] - (IF line[l].state = "CANCELLED" THEN 0 ELSE line[l].quantity)
        /\ line[l].quantity \in Int /\ Bought[l] \in Int /\ putBack[l] \in Int /\ n \in Int
    BY OrderAssumption DEF PutBackOnce, TypeOK, LineType
  <2>2. CASE l = x
    <3>1. putBack'[l] = putBack[l] + n
      BY <1>1, <2>2 DEF TypeOK
    <3>2. putBack[l] = Bought[l] - line[l].quantity
      BY <1>1, <2>1, <2>2
    <3>3. QED BY <1>4, <2>1, <2>2, <3>1, <3>2
  <2>3. CASE l # x
    <3>1. putBack'[l] = putBack[l] /\ line'[l] = line[l]
      BY <1>1, <1>4, <2>3 DEF TypeOK
    <3>2. QED BY <2>1, <3>1
  <2>4. QED BY <2>2, <2>3
<1>6. ASSUME NEW l \in Lines, line'[l].state = "CANCELLED", HasReturn(l)'
      PROVE  TwoEnded(l)'
  <2>1. HasReturn(l)
    BY <1>1, <1>6 DEF HasReturn
  <2>2. l # x /\ line'[l] = line[l]
    BY <1>3, <1>4, <2>1
  <2>3. TwoEnded(l)
    BY <1>6, <2>1, <2>2 DEF CancelledTwice
  <2>4. QED BY <1>1, <2>3 DEF TwoEnded
<1>7. RestocksCame'
  BY <1>1 DEF RestocksCame, Came
<1>8. QED BY <1>5, <1>6, <1>7 DEF PutBackOnce, CancelledTwice

\* Parcels that go out, move or arrive.
LEMMA ShipKeepsStock ==
  ASSUME TypeOK, NEW p \in Parcels, Ship(p), ~ReceiveBack(p)
  PROVE  KeepsStock /\ rma' = rma /\ restocks' = restocks
<1> USE DEF historyVars
<1>1. \A ls : \A l \in Lines : /\ Stamped(ls)[l].state = line[l].state
                               /\ Stamped(ls)[l].quantity = line[l].quantity
  BY DEF Stamped, TypeOK, LineType
<1>2. ASSUME rma' = rma /\ UNCHANGED historyVars, line' = line \/ \E ls : line' = Stamped(ls),
             EndedStay
      PROVE  KeepsStock /\ rma' = rma /\ restocks' = restocks
  BY <1>1, <1>2 DEF KeepsStock, HasReturn
<1>3. ASSUME NEW items, NEW handed \in BOOLEAN, CreateParcel(p, items, handed)
      PROVE  /\ rma' = rma /\ UNCHANGED historyVars
             /\ line' = line \/ \E ls : line' = Stamped(ls)
             /\ EndedStay
  <2>1. parcel[p].status = "ABSENT" /\ \A q \in Parcels \ {p} : parcel'[q] = parcel[q]
    BY <1>3 DEF CreateParcel, TypeOK
  <2>2. EndedStay
    BY <2>1 DEF EndedStay, Ended
  <2>3. QED BY <1>3, <2>2 DEF CreateParcel
<1>4. CASE ShipOrder(p)
  <2>1. PICK left : left = [l \in Lines |-> IF l \in ActiveLines THEN Unshipped(l) ELSE 0]
    OBVIOUS
  <2>2. CASE CreateParcel(p, left, TRUE)
    BY <1>2, <1>3, <2>2
  <2>3. CASE ~CreateParcel(p, left, TRUE)
    <3>1. /\ parcel' = [q \in Parcels |->
                          IF parcel[q].status \in {"PENDING", "PACKED"}
                          THEN [parcel[q] EXCEPT !.status = "SHIPPED"] ELSE parcel[q]]
          /\ line' = Stamped(ActiveLines) /\ rma' = rma /\ UNCHANGED historyVars
      BY <1>4, <2>1, <2>3 DEF ShipOrder
    <3>2. EndedStay
      BY <3>1 DEF EndedStay, Ended
    <3>3. QED BY <1>2, <3>1, <3>2
  <2>4. QED BY <2>2, <2>3
<1>5. ASSUME NEW to \in ShipmentStatus, MoveParcel(p, to)
      PROVE  KeepsStock /\ rma' = rma /\ restocks' = restocks
  <2>1. parcel[p].status \notin Ended /\ \A q \in Parcels \ {p} : parcel'[q] = parcel[q]
    BY <1>5 DEF MoveParcel, ShipmentTransitions, Ended, TypeOK
  <2>2. EndedStay
    BY <2>1 DEF EndedStay
  <2>3. QED BY <1>2, <1>5, <2>2 DEF MoveParcel
<1>6. CASE DeliverParcel(p)
  <2>1. parcel[p].status \notin Ended /\ \A q \in Parcels \ {p} : parcel'[q] = parcel[q]
    BY <1>6 DEF DeliverParcel, ShipmentTransitions, Ended, TypeOK
  <2>2. EndedStay
    BY <2>1 DEF EndedStay
  <2>3. \A l \in Lines : /\ line'[l].state = line[l].state
                         /\ line'[l].quantity = line[l].quantity
    BY <1>6 DEF DeliverParcel, TypeOK, LineType
  <2>4. rma' = rma /\ UNCHANGED historyVars
    BY <1>6 DEF DeliverParcel
  <2>5. QED BY <2>2, <2>3, <2>4 DEF KeepsStock, HasReturn
<1>7. QED BY <1>2, <1>3, <1>4, <1>5, <1>6 DEF Ship

\* A return that was opened stays open; steps that move it cancel no line.
LEMMA ServeKeepsStock ==
  ASSUME TypeOK, Stages, RestocksCame, NEW t \in Threads, Serve(t), ~stale'
  PROVE  KeepsStock /\ RestocksCame'
<1> USE DEF historyVars
<1>1. ASSUME UNCHANGED <<line, parcel, putBack>>,
             \A r \in Returns : /\ rma'[r].line = rma[r].line
                                /\ rma'[r].status # "ABSENT" => rma[r].status # "ABSENT"
      PROVE  KeepsStock
  <2>1. \A l \in Lines : HasReturn(l)' => HasReturn(l)
    BY <1>1 DEF HasReturn
  <2>2. QED BY <1>1, <2>1 DEF KeepsStock, EndedStay
<1>2. ASSUME restocks' = restocks, \A r \in Returns : Came(r)' <=> Came(r)
      PROVE  RestocksCame'
  BY <1>2 DEF RestocksCame
<1>3. CASE DropRequest(t) \/ \E r \in Returns : LoadReturn(t, r)
  <2>1. UNCHANGED <<line, parcel, rma, putBack, restocks>>
    BY <1>3 DEF DropRequest, LoadReturn
  <2>2. QED BY <1>1, <1>2, <2>1 DEF Came
<1>4. ASSUME UNCHANGED <<putBack, restocks>>, EndedStay, Endures, KeepsReturns,
             line' = line \/ OnlyRefunds
      PROVE  KeepsStock /\ RestocksCame'
  <2>1. \A l \in Lines : HasReturn(l)' => HasReturn(l)
    BY <1>4 DEF HasReturn, Endures
  <2>2. RestocksCame'
    BY <1>2, <1>4 DEF KeepsReturns
  <2>3. \A l \in Lines : /\ line'[l].quantity = line[l].quantity
                         /\ line'[l].state = "CANCELLED" <=> line[l].state = "CANCELLED"
    BY <1>4 DEF OnlyRefunds
  <2>4. QED BY <1>4, <2>1, <2>2, <2>3 DEF KeepsStock
<1>5. ASSUME NEW to \in ReturnStatus, NEW replacement \in BOOLEAN,
             ReviewReturn(t, to, replacement)
      PROVE  KeepsStock /\ RestocksCame'
  <2>1. UNCHANGED <<line, parcel, putBack, restocks>>
    BY <1>5 DEF ReviewReturn, KeepUnits
  <2>2. Endures /\ KeepsReturns
    BY <1>5, ReviewKeeps
  <2>3. QED BY <1>4, <2>1, <2>2 DEF EndedStay
<1>6. ASSUME NEW amount \in 1..Invoice, RefundReturn(t, amount)
      PROVE  KeepsStock /\ RestocksCame'
  <2>1. UNCHANGED <<parcel, putBack, restocks>> /\ OnlyRefunds
    BY <1>6, RefundBears, BearShape
  <2>2. Endures /\ KeepsReturns
    BY <1>6, RefundKeeps
  <2>3. QED BY <1>4, <2>1, <2>2 DEF EndedStay
<1>7. ASSUME NEW p \in Parcels, ReplaceReturn(t, p)
      PROVE  KeepsStock /\ RestocksCame'
  <2>1. UNCHANGED <<line, putBack, restocks>> /\ parcel[p].status = "ABSENT"
        /\ \A q \in Parcels \ {p} : parcel'[q] = parcel[q]
    BY <1>7 DEF ReplaceReturn, TypeOK
  <2>2. EndedStay
    BY <2>1 DEF EndedStay, Ended
  <2>3. Endures /\ KeepsReturns
    BY <1>7, ReplaceKeeps
  <2>4. QED BY <1>4, <2>1, <2>2, <2>3
<1>8. ASSUME NEW to \in ReturnStatus, NEW disposition \in Dispositions,
             InspectReturn(t, to, disposition)
      PROVE  KeepsStock /\ RestocksCame'
  <2>1. PICK r \in Returns :
          /\ r = tx[t].id /\ tx[t].row = [return |-> rma[r], line |-> line[rma[r].line]]
          /\ <<rma[r].status, to>> \in ReturnTransitions
    BY <1>8, Fresh DEF InspectReturn
  <2>2. /\ to \in {"QC_PASSED", "QC_FAILED"} /\ parcel' = parcel /\ putBack' = putBack
        /\ \A x \in Returns \ {r} : rma'[x] = rma[x]
        /\ rma'[r].line = rma[r].line
        /\ rma'[r].disposition = (IF to = "QC_FAILED" THEN disposition ELSE rma[r].disposition)
        /\ rma'[r].received = rma[r].received
        /\ rma'[r].status = to
        /\ to = "QC_PASSED" => disposition = "NONE"
    BY <1>8, <2>1 DEF InspectReturn, TypeOK, ReturnType
  <2>3. rma[r].status = "RECEIVED"
    BY <2>1, <2>2 DEF ReturnTransitions
  <2>4. rma[r].received /\ rma[r].disposition = "NONE" /\ ~Came(r)
    BY <2>3 DEF Stages, Came
  <2>5. disposition # "RETURN_TO_CUSTOMER" => Came(r)'
    BY <2>2, <2>4 DEF Came
  <2>6. restocks[r] = 0
    BY <2>4 DEF RestocksCame
  <2>7. restocks' = (IF disposition \in {"NONE", "RESTOCK"}
                     THEN [restocks EXCEPT ![r] = @ + 1] ELSE restocks)
    BY <1>8, <2>1 DEF InspectReturn
  <2>8. /\ \A x \in Returns \ {r} : restocks'[x] = restocks[x]
        /\ disposition \in {"NONE", "RESTOCK"} => restocks'[r] = 1
        /\ disposition \notin {"NONE", "RESTOCK"} => restocks'[r] = 0
    BY <2>6, <2>7 DEF TypeOK
  <2>9. RestocksCame'
    BY <2>2, <2>5, <2>8 DEF RestocksCame, Came
  <2>10. \A l \in Lines : /\ line'[l].quantity = line[l].quantity
                          /\ line'[l].state = "CANCELLED" <=> line[l].state = "CANCELLED"
    <3>1. CASE line' = line
      BY <3>1
    <3>2. CASE line' = Returned(tx[t].row)
      <4>1. PICK home \in Lines : home = rma[r].line
        BY DEF TypeOK, ReturnType
      <4>2. PICK seen : seen = tx[t].row /\ seen.return.line = home /\ seen.line = line[home]
        BY <2>1, <4>1
      <4>3. PICK now : now = Smaller(seen.line.quantity, seen.line.returned + seen.return.quantity)
        OBVIOUS
      <4>4. PICK full \in BOOLEAN :
              full = (now >= seen.line.quantity /\ seen.line.state = "ACTIVE")
        OBVIOUS
      <4>5. full => line[home].state = "ACTIVE"
        BY <4>2, <4>4
      <4>6. line' = [line EXCEPT ![home].returned = now,
                                 ![home].state = IF full THEN "RETURNED" ELSE @]
        BY <3>2, <4>2, <4>3, <4>4 DEF Returned
      <4>7. QED BY <4>5, <4>6 DEF TypeOK, LineType
    <3>3. QED BY <1>8, <3>1, <3>2 DEF InspectReturn
  <2>11. \A l \in Lines : HasReturn(l)' => HasReturn(l)
    BY <2>2, <2>3 DEF HasReturn
  <2>12. QED BY <2>2, <2>9, <2>10, <2>11 DEF KeepsStock, EndedStay
<1>9. QED BY <1>3, <1>5, <1>6, <1>7, <1>8 DEF Serve

LEMMA RestockStep ==
  ASSUME TypeOK, StatusFollowsRows, ReturnsInv, RestockInv, [Next]_vars
  PROVE  RestockInv'
<1> USE DEF historyVars
<1> SUFFICES ASSUME ~stale' PROVE PutBackOnce' /\ CancelledTwice' /\ RestocksCame'
  BY DEF RestockInv
<1>1. DeliveredFirst /\ Stages /\ PutBackOnce /\ CancelledTwice /\ RestocksCame
  BY StaleStays DEF ReturnsInv, RestockInv
<1>2. CASE KeepsStock /\ rma' = rma /\ restocks' = restocks
  <2>1. RestocksCame'
    BY <1>1, <1>2 DEF RestocksCame, Came
  <2>2. QED BY <1>1, <1>2, <2>1, StockKept
<1>3. CASE UNCHANGED <<line, parcel, rma, putBack, restocks>>
  <2>1. KeepsStock
    BY <1>3 DEF KeepsStock, HasReturn, EndedStay
  <2>2. QED BY <1>2, <1>3, <2>1
<1>4. CASE CancelOrder
  BY <1>1, <1>4, CancelOrderPutsBack
<1>5. ASSUME NEW l \in Lines, NEW q \in 1..MaxUnits, CancelItem(l, q)
      PROVE  PutBackOnce' /\ CancelledTwice' /\ RestocksCame'
  BY <1>1, <1>5, CancelItemPutsBack
<1>6. ASSUME NEW p \in Parcels, Ship(p)
      PROVE  PutBackOnce' /\ CancelledTwice' /\ RestocksCame'
  BY <1>1, <1>2, <1>6, ReceiveBackPutsBack, ShipKeepsStock
<1>7. ASSUME NEW r \in Returns, NEW l \in Lines, NEW q \in 1..MaxUnits, NEW fault \in BOOLEAN,
             OpenReturn(r, l, q, fault)
      PROVE  PutBackOnce' /\ CancelledTwice' /\ RestocksCame'
  <2>1. /\ line' = line /\ parcel' = parcel /\ putBack' = putBack /\ restocks' = restocks
        /\ line[l].state # "CANCELLED" /\ rma[r].status = "ABSENT"
        /\ \A x \in Returns \ {r} : rma'[x] = rma[x]
        /\ rma'[r].line = l
    BY <1>7 DEF OpenReturn, TypeOK, NoReturn
  <2>2. \A x \in Lines : line[x].state = "CANCELLED" /\ HasReturn(x)' => HasReturn(x)
    BY <2>1 DEF HasReturn
  <2>3. KeepsStock
    BY <2>1, <2>2 DEF KeepsStock, EndedStay
  <2>4. ~Came(r)
    BY <1>1, <2>1 DEF Came, Stages, Early
  <2>5. RestocksCame'
    BY <1>1, <2>1, <2>4 DEF RestocksCame, Came
  <2>6. QED BY <1>1, <2>3, <2>5, StockKept
<1>8. ASSUME NEW t \in Threads, Serve(t)
      PROVE  PutBackOnce' /\ CancelledTwice' /\ RestocksCame'
  BY <1>1, <1>8, ServeKeepsStock, StockKept
<1>9. ASSUME NEW r \in Returns, SettleReturn(r)
      PROVE  PutBackOnce' /\ CancelledTwice' /\ RestocksCame'
  <2>1. /\ parcel' = parcel /\ putBack' = putBack /\ restocks' = restocks
        /\ \A l \in Lines : /\ line'[l].quantity = line[l].quantity
                            /\ line'[l].state = "CANCELLED" <=> line[l].state = "CANCELLED"
    BY <1>9, SettleShape DEF SettleReturn, OnlyRefunds
  <2>2. /\ \A x \in Returns \ {r} : rma'[x] = rma[x]
        /\ rma'[r].line = rma[r].line
        /\ rma'[r].disposition = rma[r].disposition /\ rma'[r].received = rma[r].received
        /\ \/ rma'[r].status = rma[r].status
           \/ rma[r].status = "REFUND_INITIATED" /\ rma'[r].status = "REFUND_COMPLETED"
    BY <1>9 DEF SettleReturn, TypeOK, ReturnType
  <2>3. \A l \in Lines : HasReturn(l)' => HasReturn(l)
    BY <2>2 DEF HasReturn
  <2>4. KeepsStock
    BY <2>1, <2>3 DEF KeepsStock, EndedStay
  <2>5. \A x \in Returns : Came(x)' <=> Came(x)
    BY <2>2 DEF Came
  <2>6. RestocksCame'
    BY <1>1, <2>1, <2>5 DEF RestocksCame
  <2>7. QED BY <1>1, <2>4, <2>6, StockKept
<1>10. CASE Advance \/ SettleCancellations \/ UNCHANGED vars
  BY <1>3, <1>10 DEF Advance, SettleCancellations, vars
<1>11. ASSUME NEW r \in Returns, NEW amount \in 1..Invoice, CreateRefund(r, amount)
       PROVE  PutBackOnce' /\ CancelledTwice' /\ RestocksCame'
  <2>1. UNCHANGED <<parcel, putBack, restocks>> /\ OnlyRefunds
    BY <1>11, CreateBears, BearShape
  <2>2. Endures /\ KeepsReturns
    BY <1>1, <1>11, CreateKeeps
  <2>3. \A l \in Lines : HasReturn(l)' => HasReturn(l)
    BY <2>2 DEF HasReturn, Endures
  <2>4. KeepsStock
    BY <2>1, <2>3 DEF KeepsStock, EndedStay, OnlyRefunds
  <2>5. RestocksCame'
    BY <1>1, <2>1, <2>2 DEF RestocksCame, KeepsReturns
  <2>6. QED BY <1>1, <2>4, <2>5, StockKept
<1>12. QED BY <1>4, <1>5, <1>6, <1>7, <1>8, <1>9, <1>10, <1>11 DEF Next

LEMMA RestockInit == Init => RestockInv
<1> SUFFICES ASSUME Init PROVE PutBackOnce /\ CancelledTwice /\ RestocksCame
  BY DEF RestockInv
<1>1. \A l \in Lines : /\ putBack[l] = 0 /\ line[l].state = "ACTIVE"
                       /\ line[l].quantity = Bought[l] /\ Bought[l] \in Int
  BY OrderAssumption DEF Init, Nothing
<1>2. \A r \in Returns : restocks[r] = 0
  BY DEF Init
<1>3. QED BY <1>1, <1>2 DEF PutBackOnce, CancelledTwice, RestocksCame

\* A set of two has no room in one.
LEMMA TwoAreMore ==
  ASSUME NEW S, IsFiniteSet(S), NEW x \in S, NEW y \in S, x # y
  PROVE  ~(Cardinality(S) <= 1)
<1>1. IsFiniteSet(S \ {x}) /\ Cardinality(S \ {x}) = Cardinality(S) - 1
  BY FS_RemoveElement
<1>2. S \ {x} # {} /\ Cardinality(S) \in Nat /\ Cardinality(S \ {x}) \in Nat
  BY <1>1, FS_CardinalityType
<1>3. Cardinality(S \ {x}) # 0
  BY <1>1, <1>2, FS_EmptySet
<1>4. QED BY <1>1, <1>2, <1>3

\* What returns restocked of a line is among what came back of it.
LEMMA RestockedCame ==
  ASSUME TypeOK, UnitsAddUp, RestocksCame, NEW l \in Lines
  PROVE  RestockedBy(l) \in Nat /\ RestockedBy(l) <= line[l].returned
<1>1. PICK S \in SUBSET Returns, C \in SUBSET Returns :
        S = { r \in Returns : rma[r].line = l } /\ C = CameBack(l)
  BY DEF CameBack
<1>2. PICK f : f = [r \in Returns |-> restocks[r] * rma[r].quantity]
  OBVIOUS
<1>3. PICK g : g = [r \in Returns |-> rma[r].quantity]
  OBVIOUS
<1>4. ASSUME NEW r \in Returns
      PROVE  /\ f[r] \in Nat /\ g[r] \in Nat
             /\ f[r] <= g[r] /\ (~Came(r) => f[r] = 0)
  <2>1. PICK n \in Nat : n = rma[r].quantity
    BY OrderAssumption DEF TypeOK, ReturnType
  <2>2. restocks[r] = 0 \/ (restocks[r] = 1 /\ Came(r))
    BY DEF RestocksCame
  <2>3. f[r] = restocks[r] * n /\ g[r] = n
    BY <1>2, <1>3, <2>1
  <2>4. 0 * n = 0 /\ 1 * n = n
    OBVIOUS
  <2>5. QED BY <2>2, <2>3, <2>4
<1>5. C \subseteq S /\ \A r \in S \ C : ~Came(r)
  BY <1>1 DEF CameBack, Came
<1>6. IsFiniteSet(S) /\ IsFiniteSet(C)
  BY UnitsNat
<1>7. SumOver(f, S) <= SumOver(g, C)
  <2>1. /\ \A r \in S : f[r] \in Int
        /\ \A r \in C : g[r] \in Int
        /\ \A r \in C : f[r] <= g[r]
        /\ \A r \in S \ C : f[r] <= 0
    BY <1>4, <1>5
  <2>2. C \in SUBSET S
    BY <1>5
  <2>3. QED BY <1>6, <2>1, <2>2, SumOverWithin
<1>8. SumOver(f, S) \in Nat
  BY <1>4, <1>6, SumOverNat
<1>9. RestockedBy(l) = SumOver(f, S) /\ line[l].returned = SumOver(g, C)
  BY <1>1, <1>2, <1>3 DEF RestockedBy, UnitsAddUp, Units
<1>10. QED BY <1>7, <1>8, <1>9

LEMMA RestockBounded ==
  ASSUME TypeOK, ReturnsInv, RestockInv
  PROVE  RestockedOnce
<1> SUFFICES ASSUME ~stale, NEW l \in Lines, Cardinality(Carriers(l)) <= 1
             PROVE  putBack[l] + RestockedBy(l) <= Bought[l]
  BY DEF RestockedOnce
<1>1. Stages /\ UnitsAddUp /\ PutBackOnce /\ CancelledTwice /\ RestocksCame
  BY DEF ReturnsInv, RestockInv
<1>2. /\ putBack[l] = Bought[l] - (IF line[l].state = "CANCELLED" THEN 0 ELSE line[l].quantity)
      /\ Bought[l] \in Int /\ line[l].quantity \in Int /\ line[l].returned \in Int
  BY <1>1, OrderAssumption DEF PutBackOnce, TypeOK, LineType
<1>3. RestockedBy(l) \in Nat /\ RestockedBy(l) <= line[l].returned
  BY <1>1, RestockedCame
<1>4. CASE line[l].state = "CANCELLED"
  <2>1. ~TwoEnded(l)
    <3>1. SUFFICES ASSUME TwoEnded(l) PROVE FALSE
      OBVIOUS
    <3>2. PICK p \in Parcels, q \in Parcels :
            /\ p # q
            /\ parcel[p].status \in Ended /\ parcel[p].items[l] > 0
            /\ parcel[q].status \in Ended /\ parcel[q].items[l] > 0
      BY <3>1 DEF TwoEnded
    <3>3. PICK S \in SUBSET Parcels : S = Carriers(l)
      BY DEF Carriers, Live
    <3>4. p \in S /\ q \in S
      BY <3>2, <3>3 DEF Carriers, Live, Ended
    <3>5. IsFiniteSet(S)
      BY SetsAssumption, FS_Subset
    <3>6. QED BY <3>2, <3>3, <3>4, <3>5, TwoAreMore
  <2>2. ~HasReturn(l)
    BY <1>1, <1>4, <2>1 DEF CancelledTwice
  <2>3. CameBack(l) = {}
    BY <1>1, <2>2 DEF HasReturn, CameBack, Stages, Early
  <2>4. line[l].returned = 0
    BY <1>1, <2>3, SumOverEmpty DEF UnitsAddUp, Units
  <2>5. QED BY <1>2, <1>3, <1>4, <2>4
<1>5. CASE line[l].state # "CANCELLED"
  <2>1. line[l].returned <= line[l].quantity
    <3>1. PICK C \in SUBSET Returns : C = ClaimsOn(l)
      BY DEF ClaimsOn
    <3>2. Units(C) \in Nat
      BY UnitsNat
    <3>3. line[l].returned + Units(C) <= line[l].quantity
      BY <1>1, <3>1 DEF UnitsAddUp
    <3>4. QED BY <1>2, <3>2, <3>3
  <2>2. QED BY <1>2, <1>3, <1>5, <2>1
<1>6. QED BY <1>4, <1>5

\* Units go back on the shelf once, by cancellation, by the courier or by a
\* return, while a line travels in one parcel and no return is moved on a row
\* that had changed: whatever is cancelled after it was returned came back in a
\* second parcel, and a return is restocked by its inspection alone.
THEOREM AlwaysRestockedOnce == Spec => []RestockedOnce
<1>1. TypeOK /\ StatusFollowsRows /\ ReturnsInv /\ RestockInv /\ [Next]_vars => RestockInv'
  BY RestockStep
<1>2. TypeOK /\ TypeOK' /\ ReturnsInv /\ [Next]_vars => ReturnsInv'
  BY ReturnsStep
<1>3. TypeOK /\ ReturnsInv /\ RestockInv => RestockedOnce
  BY RestockBounded
<1>4. QED BY <1>1, <1>2, <1>3, ReturnsInit, RestockInit, TypeCorrect, StatusAlwaysFollows, PTL
          DEF Spec

----------------------------------------------------------------------------
(* The cash collected.  Each parcel collects the rounded shares of its units,  *)
(* and the first that collects anything the rest of the order's total; what   *)
(* a cancelled line does not leave in the total is not in its parcels either. *)

\* A rounded share is at most half a unit above the share, and nothing for nothing.
LEMMA RoundedShare ==
  ASSUME NEW worth \in Nat, NEW n \in Nat \ {0}, NEW q \in Nat, NEW w \in Nat,
         q > 0 => w = 1
  PROVE  /\ Rounded(worth, q, n) \in Nat
         /\ q = 0 => Rounded(worth, q, n) = 0
         /\ 2 * n * Rounded(worth, q, n) <= 2 * worth * q + n * w
         /\ Rounded(worth, q, n) = 0 => 2 * worth * q < n
<1>1. PICK a \in Nat, b \in Nat \ {0} : a = 2 * worth * q + n /\ b = 2 * n
  <2>1. 2 * worth * q + n \in Nat /\ 2 * n \in Nat \ {0}
    BY SMT
  <2>2. QED BY <2>1
<1>2. PICK r \in Nat : r = Rounded(worth, q, n)
  BY RoundedNat
<1>3. r = a \div b
  BY <1>1, <1>2 DEF Rounded
<1>4. b * r <= a /\ a < b * r + b
  <2>1. b * (a \div b) <= a /\ a < b * (a \div b) + b
    BY SMT
  <2>2. QED BY <1>3, <2>1
<1>5. q = 0 => r = 0
  <2>1. SUFFICES ASSUME q = 0, r >= 1 PROVE FALSE
    OBVIOUS
  <2>2. 2 * worth * 0 = 0
    BY SMT
  <2>3. a = n
    BY <1>1, <2>1, <2>2
  <2>4. b * r >= b
    BY <2>1, SMT
  <2>5. b * r \in Int
    BY SMT
  <2>6. QED BY <1>1, <1>4, <2>3, <2>4, <2>5
<1>6. 2 * n * r <= 2 * worth * q + n * w
  <2>1. CASE q = 0
    <3>1. 2 * n * 0 = 0 /\ 2 * worth * 0 = 0 /\ n * w \in Nat
      BY SMT
    <3>2. QED BY <1>5, <2>1, <3>1
  <2>2. CASE q # 0
    <3>1. w = 1 /\ n * 1 = n
      BY <2>2
    <3>2. QED BY <1>1, <1>4, <3>1
  <2>3. QED BY <2>1, <2>2
<1>7. r = 0 => 2 * worth * q < n
  <2>1. ASSUME r = 0 PROVE 2 * worth * q < n
    <3>1. b * 0 = 0 /\ 2 * worth * q \in Int
      BY SMT
    <3>2. QED BY <1>1, <1>4, <2>1, <3>1
  <2>2. QED BY <2>1
<1>8. QED BY <1>2, <1>5, <1>6, <1>7

\* A common factor is taken out of a comparison.
LEMMA FactorOut ==
  ASSUME NEW n \in Nat \ {0}, NEW a \in Int, NEW b \in Int
  PROVE  (n * a <= n * b => a <= b) /\ (n * a < n * b => a < b)
<1>1. ASSUME a > b PROVE n * a > n * b
  <2>1. PICK d \in Nat \ {0} : a = b + d
    <3>1. a - b \in Nat \ {0}
      BY <1>1
    <3>2. QED BY <3>1
  <2>2. n * (b + d) = n * b + n * d
    BY SMT
  <2>3. n * d > 0 /\ n * b \in Int /\ n * d \in Int
    BY SMT
  <2>4. QED BY <2>1, <2>2, <2>3
<1>2. n * a \in Int /\ n * b \in Int
  BY SMT
<1>3. a = b => n * a = n * b
  OBVIOUS
<1>4. QED BY <1>1, <1>2, <1>3

\* What a line's parcels collect, while they carry no more than the line.
LEMMA CappedShare ==
  ASSUME NEW n \in Nat \ {0}, NEW worth \in Nat, NEW c \in Nat, NEW d \in Nat, NEW v \in Nat,
         d <= n, 2 * n * c <= 2 * worth * d + n * v
  PROVE  2 * c <= 2 * worth + v
<1>1. worth * d <= worth * n
  BY SMT
<1>2. 2 * worth * d = 2 * (worth * d) /\ 2 * n * c = n * (2 * c)
  BY SMT
<1>3. n * (2 * worth + v) = 2 * (worth * n) + n * v
  BY SMT
<1>4. worth * d \in Int /\ worth * n \in Int /\ n * v \in Int /\ n * (2 * c) \in Int
  BY SMT
<1>5. n * (2 * c) <= n * (2 * worth + v)
  BY <1>1, <1>2, <1>3, <1>4
<1>6. 2 * c \in Int /\ 2 * worth + v \in Int
  OBVIOUS
<1>7. QED BY <1>5, <1>6, FactorOut

\* A line of which the deliveries left out less than half a unit of money.
IsSmall(n, worth, c, d, v) == 2 * n * c + 2 * worth * (n - d) < n + n * v

LEMMA SmallShare ==
  ASSUME NEW n \in Nat \ {0}, NEW worth \in Nat, NEW c \in Nat, NEW d \in Nat, NEW v \in Nat,
         d <= n, IsSmall(n, worth, c, d, v)
  PROVE  2 * c <= v
<1>1. PICK e \in Nat : e = n - d
  OBVIOUS
<1>2. 2 * worth * e \in Nat
  BY SMT
<1>3. 2 * n * c + 2 * worth * e < n + n * v
  BY <1>1 DEF IsSmall
<1>4. 2 * n * c = n * (2 * c) /\ n + n * v = n * (1 + v)
  BY SMT
<1>5. n * (2 * c) \in Int /\ n * (1 + v) \in Int
  BY SMT
<1>6. n * (2 * c) < n * (1 + v)
  BY <1>2, <1>3, <1>4, <1>5
<1>7. 2 * c \in Int /\ 1 + v \in Int
  OBVIOUS
<1>8. 2 * c < 1 + v
  BY <1>6, <1>7, FactorOut
<1>9. QED BY <1>8

\* One delivery more.
LEMMA SmallGrows ==
  ASSUME NEW n \in Nat \ {0}, NEW worth \in Nat, NEW c \in Nat, NEW d \in Nat, NEW v \in Nat,
         NEW r \in Nat, NEW q \in Nat, NEW w \in Nat,
         IsSmall(n, worth, c, d, v), 2 * n * r <= 2 * worth * q + n * w
  PROVE  IsSmall(n, worth, c + r, d + q, v + w)
<1>1. 2 * n * (c + r) = 2 * n * c + 2 * n * r
  BY SMT
<1>2. 2 * worth * (n - (d + q)) = 2 * worth * (n - d) - 2 * worth * q
  BY SMT
<1>3. n * (v + w) = n * v + n * w
  BY SMT
<1>4. PICK x1 \in Int, x2 \in Int, x3 \in Int, x4 \in Int, x5 \in Int, x6 \in Int :
        /\ x1 = 2 * n * c /\ x2 = 2 * n * r /\ x3 = 2 * worth * (n - d) /\ x4 = 2 * worth * q
        /\ x5 = n * v /\ x6 = n * w
  <2>1. /\ 2 * n * c \in Int /\ 2 * n * r \in Int /\ 2 * worth * (n - d) \in Int
        /\ 2 * worth * q \in Int /\ n * v \in Int /\ n * w \in Int
    BY SMT
  <2>2. QED BY <2>1
<1>5. x1 + x3 < n + x5 /\ x2 <= x4 + x6
  BY <1>4 DEF IsSmall
<1>6. (x1 + x2) + (x3 - x4) < n + (x5 + x6)
  BY <1>5
<1>7. QED BY <1>1, <1>2, <1>3, <1>4, <1>6 DEF IsSmall

\* A line whose deliveries, one of them twice, make it up and collect nothing.
LEMMA FreeIsSmall ==
  ASSUME NEW n \in Nat \ {0}, NEW worth \in Nat, NEW d \in Nat, NEW v \in Nat, NEW q \in Nat,
         d + q >= n, 2 * worth * q < n
  PROVE  IsSmall(n, worth, 0, d, v)
<1>1. worth * (n - d) <= worth * q
  <2>1. PICK e \in Int : e = n - d /\ e <= q
    OBVIOUS
  <2>2. worth * e <= worth * q
    BY <2>1, SMT
  <2>3. QED BY <2>1, <2>2
<1>2. 2 * worth * (n - d) = 2 * (worth * (n - d)) /\ 2 * worth * q = 2 * (worth * q)
  BY SMT
<1>3. worth * (n - d) \in Int /\ worth * q \in Int /\ n * v \in Nat /\ 2 * n * 0 = 0
  BY SMT
<1>4. QED BY <1>1, <1>2, <1>3 DEF IsSmall

\* What a parcel collects for a line, and whether it carries it at all.
ShareOf(l) ==
  [p \in Parcels |-> Rounded(line[l].total, parcel[p].items[l], line[l].quantity)]
VisitOf(l) == [p \in Parcels |-> IF parcel[p].items[l] > 0 THEN 1 ELSE 0]

CollectedOn(l) == SumOver(ShareOf(l), Delivered)
UnitsOn(l) == OnParcels(l, Delivered)
VisitsOn(l) == SumOver(VisitOf(l), Delivered)

Shares == SumOver([l \in Lines |-> CollectedOn(l)], Lines)
TotalsOf(S) == SumOver([l \in Lines |-> line[l].total], S)

Small(l) == IsSmall(line[l].quantity, line[l].total, CollectedOn(l), UnitsOn(l), VisitsOn(l))

LEMMA ShareNat ==
  ASSUME TypeOK, NEW l \in Lines, NEW p \in Parcels
  PROVE  /\ ShareOf(l)[p] \in Nat /\ VisitOf(l)[p] \in Nat
         /\ parcel[p].items[l] \in Nat
         /\ line[l].quantity \in Nat \ {0} /\ line[l].total \in Nat
         /\ parcel[p].items[l] = 0 => ShareOf(l)[p] = 0
         /\ 2 * line[l].quantity * ShareOf(l)[p]
              <= 2 * line[l].total * parcel[p].items[l] + line[l].quantity * VisitOf(l)[p]
         /\ ShareOf(l)[p] = 0 => 2 * line[l].total * parcel[p].items[l] < line[l].quantity
<1>1. PICK worth \in Nat, n \in Nat \ {0}, q \in Nat :
        worth = line[l].total /\ n = line[l].quantity /\ q = parcel[p].items[l]
  <2>1. line[l].quantity \in Nat \ {0} /\ line[l].total \in Nat
    BY OrderAssumption DEF TypeOK, LineType
  <2>2. parcel[p].items[l] \in Nat
    BY OrderAssumption DEF TypeOK, ParcelType, Contents
  <2>3. QED BY <2>1, <2>2
<1>2. PICK w \in Nat : w = VisitOf(l)[p] /\ (q > 0 => w = 1)
  BY <1>1 DEF VisitOf
<1>3. ShareOf(l)[p] = Rounded(worth, q, n)
  BY <1>1 DEF ShareOf
<1>4. PICK r : r = Rounded(worth, q, n)
  OBVIOUS
<1>5. /\ r \in Nat /\ (q = 0 => r = 0) /\ (r = 0 => 2 * worth * q < n)
      /\ 2 * n * r <= 2 * worth * q + n * w
  BY <1>2, <1>4, RoundedShare
<1>6. ShareOf(l)[p] = r
  BY <1>3, <1>4
<1>7. QED BY <1>1, <1>2, <1>5, <1>6

LEMMA DeliveredSums ==
  ASSUME TypeOK, NEW l \in Lines
  PROVE  /\ Delivered \in SUBSET Parcels /\ IsFiniteSet(Delivered)
         /\ CollectedOn(l) \in Nat /\ UnitsOn(l) \in Nat /\ VisitsOn(l) \in Nat
<1>1. PICK S \in SUBSET Parcels : S = Delivered
  BY DEF Delivered
<1>2. IsFiniteSet(S)
  BY SetsAssumption, FS_Subset
<1>3. PICK f, g : f = ShareOf(l) /\ g = VisitOf(l)
  OBVIOUS
<1>4. (\A p \in S : f[p] \in Nat) /\ (\A p \in S : g[p] \in Nat)
  BY <1>3, ShareNat
<1>5. SumOver(f, S) \in Nat /\ SumOver(g, S) \in Nat
  BY <1>2, <1>4, SumOverNat
<1>6. OnParcels(l, S) \in Nat
  BY CarriedNat DEF TypeOK
<1>7. QED BY <1>1, <1>2, <1>3, <1>5, <1>6 DEF CollectedOn, VisitsOn, UnitsOn

\* The shares of a line, without division.
LEMMA SharesOfLine ==
  ASSUME TypeOK, NEW l \in Lines
  PROVE  2 * line[l].quantity * CollectedOn(l)
           <= 2 * line[l].total * UnitsOn(l) + line[l].quantity * VisitsOn(l)
<1>1. PICK S \in SUBSET Parcels : S = Delivered /\ IsFiniteSet(S)
  BY DeliveredSums
<1>2. PICK worth \in Nat, n \in Nat \ {0} : worth = line[l].total /\ n = line[l].quantity
  BY OrderAssumption DEF TypeOK, LineType
<1>3. PICK f, g, q : f = ShareOf(l) /\ g = VisitOf(l) /\ q = [p \in Parcels |-> parcel[p].items[l]]
  OBVIOUS
<1>4. ASSUME NEW p \in Parcels
      PROVE  /\ f[p] \in Int /\ g[p] \in Int /\ q[p] \in Int
             /\ 2 * n * f[p] <= 2 * worth * q[p] + n * g[p]
  BY <1>2, <1>3, ShareNat
<1>5. PICK k \in Int, m \in Int : k = 2 * n /\ m = 2 * worth
  OBVIOUS
<1>6. PICK a, b, c, d : /\ a = [p \in Parcels |-> k * f[p]]
                        /\ b = [p \in Parcels |-> m * q[p]]
                        /\ c = [p \in Parcels |-> n * g[p]]
                        /\ d = [p \in Parcels |-> b[p] + c[p]]
  OBVIOUS
<1>7. ASSUME NEW p \in Parcels
      PROVE  /\ a[p] \in Int /\ b[p] \in Int /\ c[p] \in Int /\ d[p] \in Int
             /\ a[p] <= d[p]
  <2>1. PICK x \in Int, y \in Int, z \in Int : x = f[p] /\ y = q[p] /\ z = g[p]
    BY <1>4
  <2>2. k * x \in Int /\ m * y \in Int /\ n * z \in Int
    BY SMT
  <2>3. a[p] = k * x /\ b[p] = m * y /\ c[p] = n * z /\ d[p] = b[p] + c[p]
    BY <1>6, <2>1
  <2>4. k * x <= m * y + n * z
    BY <1>4, <1>5, <2>1
  <2>5. QED BY <2>2, <2>3, <2>4
<1>8. SumOver(a, S) = k * SumOver(f, S)
  BY <1>1, <1>4, <1>6, SumOverTimes
<1>9. SumOver(b, S) = m * SumOver(q, S)
  BY <1>1, <1>4, <1>6, SumOverTimes
<1>10. SumOver(c, S) = n * SumOver(g, S)
  <2>1. n \in Int
    OBVIOUS
  <2>2. QED BY <1>1, <1>4, <1>6, <2>1, SumOverTimes
<1>11. SumOver(d, S) = SumOver(b, S) + SumOver(c, S)
  <2>1. \A p \in S : b[p] \in Int /\ c[p] \in Int /\ d[p] = b[p] + c[p]
    BY <1>6, <1>7
  <2>2. QED BY <1>1, <2>1, SumOverPlus
<1>12. SumOver(a, S) <= SumOver(d, S)
  BY <1>1, <1>7, SumOverAtMost
<1>13. CollectedOn(l) = SumOver(f, S) /\ UnitsOn(l) = SumOver(q, S) /\ VisitsOn(l) = SumOver(g, S)
  BY <1>1, <1>3 DEF CollectedOn, UnitsOn, VisitsOn, OnParcels
<1>14. QED BY <1>2, <1>5, <1>8, <1>9, <1>10, <1>11, <1>12, <1>13

\* The visits of the parcels, counted by parcel and by line.
LEMMA VisitsAreRoundings ==
  ASSUME TypeOK
  PROVE  SumOver([l \in Lines |-> VisitsOn(l)], Lines) = Roundings
<1>1. PICK S \in SUBSET Parcels : S = Delivered /\ IsFiniteSet(S)
  <2>1. Delivered \in SUBSET Parcels
    BY DEF Delivered
  <2>2. QED BY <2>1, SetsAssumption, FS_Subset
<1>2. PICK f : f = [l \in Lines |-> VisitOf(l)]
  OBVIOUS
<1>3. PICK g : g = [p \in Parcels |-> [l \in Lines |-> f[l][p]]]
  OBVIOUS
<1>4. PICK rows : rows = [l \in Lines |-> VisitsOn(l)]
  OBVIOUS
<1>5. PICK u : u = [p \in S |-> SumOver(g[p], Lines)]
  OBVIOUS
<1>6. SumOver(rows, Lines) = SumOver(u, S)
  <2>1. \A l \in Lines : \A p \in Parcels : VisitOf(l)[p] \in Int
    BY DEF VisitOf
  <2>2. \A l \in Lines : \A p \in S : f[l][p] \in Int
    BY <1>2, <2>1
  <2>3. \A p \in S : \A l \in Lines : g[p][l] = f[l][p]
    BY <1>3
  <2>4. \A l \in Lines : rows[l] = SumOver(f[l], S)
    BY <1>1, <1>2, <1>4 DEF VisitsOn
  <2>5. \A p \in S : u[p] = SumOver(g[p], Lines)
    BY <1>5
  <2>6. QED BY <1>1, <2>2, <2>3, <2>4, <2>5, SetsAssumption, SumOverSwap
<1>7. PICK v : v = [p \in Parcels |-> Cardinality(Carried(p))]
  OBVIOUS
<1>8. ASSUME NEW p \in S
      PROVE  u[p] = v[p] /\ u[p] \in Int
  <2>1. PICK h : h = g[p]
    OBVIOUS
  <2>2. PICK R \in SUBSET Lines : R = Carried(p)
    BY DEF Carried
  <2>3. (\A l \in R : h[l] = 1) /\ (\A l \in Lines \ R : h[l] = 0)
    BY <1>2, <1>3, <2>1, <2>2 DEF VisitOf, Carried
  <2>4. SumOver(h, Lines) = Cardinality(R)
    BY <2>3, SetsAssumption, SumOverMarks
  <2>5. Cardinality(R) \in Int
    BY SetsAssumption, FS_Subset, FS_CardinalityType
  <2>6. QED BY <1>5, <1>7, <2>1, <2>2, <2>4, <2>5
<1>9. SumOver(u, S) = SumOver(v, S)
  BY <1>1, <1>8, SumOverSame
<1>10. QED BY <1>1, <1>4, <1>6, <1>7, <1>9 DEF Roundings

\* A line with a return was delivered, also when requests work on rows that had
\* changed: they hold a return that was there, and its line.
Opened ==
  /\ \A r \in Returns : rma[r].status # "ABSENT" => line[rma[r].line].delivered
  /\ \A r \in Returns : rma[r].amount > 0 => rma[r].status # "ABSENT"
  /\ \A t \in Threads : tx[t].pc = "loaded" =>
       /\ rma[tx[t].id].status # "ABSENT"
       /\ tx[t].row.return.line = rma[tx[t].id].line
  /\ \A l \in Lines : line[l].state \in {"RETURNED", "REFUNDED"} => line[l].delivered

\* A step that opens no return and loads none.
KeepsOpened ==
  /\ \A l \in Lines : line[l].delivered => line'[l].delivered
  /\ \A l \in Lines : line'[l].state \in {"RETURNED", "REFUNDED"} => line'[l].delivered
  /\ \A r \in Returns :
       /\ rma[r].status # "ABSENT" => rma'[r].status # "ABSENT" /\ rma'[r].line = rma[r].line
       /\ rma[r].status = "ABSENT" => rma'[r].status = "ABSENT" /\ rma'[r].amount = rma[r].amount
  /\ \A t \in Threads : tx'[t] = tx[t] \/ tx'[t] = Idle

LEMMA OpenedKept ==
  ASSUME TypeOK, Opened, KeepsOpened
  PROVE  Opened'
<1>1. \A r \in Returns : rma[r].line \in Lines
  BY DEF TypeOK, ReturnType
<1>2. \A t \in Threads : tx[t].pc = "loaded" => tx[t].id \in Returns
  BY Held DEF TxType
<1>3. ASSUME NEW r \in Returns, rma'[r].status # "ABSENT"
      PROVE  line'[rma'[r].line].delivered
  <2>1. rma[r].status # "ABSENT" /\ rma'[r].line = rma[r].line
    BY <1>3 DEF KeepsOpened
  <2>2. QED BY <1>1, <2>1 DEF Opened, KeepsOpened
<1>4. ASSUME NEW r \in Returns, rma'[r].amount > 0
      PROVE  rma'[r].status # "ABSENT"
  BY <1>4 DEF Opened, KeepsOpened
<1>5. ASSUME NEW t \in Threads, tx'[t].pc = "loaded"
      PROVE  /\ rma'[tx'[t].id].status # "ABSENT"
             /\ tx'[t].row.return.line = rma'[tx'[t].id].line
  <2>1. tx'[t] = tx[t]
    BY <1>5 DEF KeepsOpened, Idle
  <2>2. PICK r \in Returns : r = tx[t].id
    BY <1>2, <1>5, <2>1
  <2>3. rma[r].status # "ABSENT" /\ tx[t].row.return.line = rma[r].line
    BY <1>5, <2>1, <2>2 DEF Opened
  <2>4. rma'[r].status # "ABSENT" /\ rma'[r].line = rma[r].line
    BY <2>3 DEF KeepsOpened
  <2>5. QED BY <2>1, <2>2, <2>3, <2>4
<1>6. \A l \in Lines : line'[l].state \in {"RETURNED", "REFUNDED"} => line'[l].delivered
  BY DEF KeepsOpened
<1>7. QED BY <1>3, <1>4, <1>5, <1>6 DEF Opened

LEMMA ShipKeepsOpened ==
  ASSUME TypeOK, Opened, NEW p \in Parcels, Ship(p)
  PROVE  KeepsOpened
<1>1. \A ls : \A l \in Lines : /\ Stamped(ls)[l].delivered = line[l].delivered
                               /\ Stamped(ls)[l].state = line[l].state
  BY DEF Stamped, TypeOK, LineType
<1>2. ASSUME rma' = rma, tx' = tx,
             \A l \in Lines : /\ line[l].delivered => line'[l].delivered
                              /\ line'[l].state \in {line[l].state, "CANCELLED"}
      PROVE  KeepsOpened
  BY <1>2 DEF KeepsOpened, Opened
<1>3. ASSUME NEW items, NEW handed \in BOOLEAN, CreateParcel(p, items, handed)
      PROVE  KeepsOpened
  <2>1. rma' = rma /\ tx' = tx /\ (line' = line \/ \E ls : line' = Stamped(ls))
    BY <1>3 DEF CreateParcel
  <2>2. QED BY <1>1, <1>2, <2>1
<1>4. CASE ShipOrder(p)
  <2>1. PICK left : left = [l \in Lines |-> IF l \in ActiveLines THEN Unshipped(l) ELSE 0]
    OBVIOUS
  <2>2. CASE CreateParcel(p, left, TRUE)
    BY <1>3, <2>2
  <2>3. CASE ~CreateParcel(p, left, TRUE)
    <3>1. rma' = rma /\ tx' = tx /\ line' = Stamped(ActiveLines)
      BY <1>4, <2>1, <2>3 DEF ShipOrder
    <3>2. QED BY <1>1, <1>2, <3>1
  <2>4. QED BY <2>2, <2>3
<1>5. ASSUME NEW to \in ShipmentStatus, MoveParcel(p, to)
      PROVE  KeepsOpened
  <2>1. rma' = rma /\ tx' = tx /\ (line' = line \/ \E ls : line' = Stamped(ls))
    BY <1>5 DEF MoveParcel
  <2>2. QED BY <1>1, <1>2, <2>1
<1>6. CASE DeliverParcel(p)
  <2>1. /\ rma' = rma /\ tx' = tx
        /\ \A l \in Lines : /\ line[l].delivered => line'[l].delivered
                            /\ line'[l].state = line[l].state
    BY <1>6 DEF DeliverParcel, TypeOK, LineType
  <2>2. QED BY <1>2, <2>1
<1>7. CASE ReceiveBack(p)
  <2>1. /\ rma' = rma /\ tx' = tx
        /\ \A l \in Lines : /\ line[l].delivered => line'[l].delivered
                            /\ line'[l].state \in {line[l].state, "CANCELLED"}
    BY <1>7 DEF ReceiveBack, CancelLines, TypeOK, LineType
  <2>2. QED BY <1>2, <2>1
<1>8. QED BY <1>3, <1>4, <1>5, <1>6, <1>7 DEF Ship

\* The lines that a refund marks were delivered.
LEMMA MarkedDelivered ==
  ASSUME TypeOK, Opened, NEW r \in Returns, rma[r].status # "ABSENT", OnlyRefunds,
         \A l \in Lines : l # rma[r].line => line'[l] = line[l]
  PROVE  /\ \A l \in Lines : line[l].delivered => line'[l].delivered
         /\ \A l \in Lines : line'[l].state \in {"RETURNED", "REFUNDED"} => line'[l].delivered
BY DEF OnlyRefunds, Opened

LEMMA BearKeepsOpened ==
  ASSUME TypeOK, Opened, NEW r \in Returns, rma[r].status # "ABSENT", NEW amount \in Nat,
         NEW to \in ReturnStatus, BearRefund(r, amount, to),
         \A u \in Threads : tx'[u] = tx[u] \/ tx'[u] = Idle
  PROVE  KeepsOpened
<1>1. to # "ABSENT" /\ to \in ReturnStatus \cup {"ABSENT"}
  BY DEF ReturnStatus, Open
<1>2. /\ OnlyRefunds /\ \A l \in Lines : l # rma[r].line => line'[l] = line[l]
      /\ \A x \in Returns \ {r} : rma'[x] = rma[x]
      /\ rma'[r].line = rma[r].line /\ rma'[r].status = to
  BY <1>1, BearShape
<1>3. QED BY <1>1, <1>2, MarkedDelivered DEF KeepsOpened

\* What a request on a return writes is the return that it read once.
LEMMA ServeKeepsOpened ==
  ASSUME TypeOK, Opened, NEW t \in Threads, Serve(t), ~ \E r \in Returns : LoadReturn(t, r)
  PROVE  KeepsOpened
<1>1. ASSUME NEW to, Transition(t, to)
      PROVE  \E r \in Returns : /\ r = tx[t].id /\ rma[r].status # "ABSENT"
                                /\ tx[t].row.return.line = rma[r].line
                                /\ \A u \in Threads : tx'[u] = tx[u] \/ tx'[u] = Idle
  <2>1. tx[t].pc = "loaded" /\ tx' = [tx EXCEPT ![t] = Idle]
    BY <1>1 DEF Transition
  <2>2. PICK r \in Returns : r = tx[t].id
    BY <2>1, Held DEF TxType
  <2>3. rma[r].status # "ABSENT" /\ tx[t].row.return.line = rma[r].line
    BY <2>1, <2>2 DEF Opened
  <2>4. \A u \in Threads : tx'[u] = tx[u] \/ tx'[u] = Idle
    BY <2>1 DEF TypeOK
  <2>5. QED BY <2>2, <2>3, <2>4
<1>2. ASSUME NEW r \in Returns, rma[r].status # "ABSENT", line' = line,
             \A x \in Returns \ {r} : rma'[x] = rma[x],
             rma'[r].status # "ABSENT" /\ rma'[r].line = rma[r].line,
             \A u \in Threads : tx'[u] = tx[u] \/ tx'[u] = Idle
      PROVE  KeepsOpened
  BY <1>2 DEF KeepsOpened, Opened
<1>3. CASE DropRequest(t)
  BY <1>3 DEF DropRequest, KeepsOpened, Opened, TypeOK
<1>4. ASSUME NEW to \in ReturnStatus, NEW replacement \in BOOLEAN,
             ReviewReturn(t, to, replacement)
      PROVE  KeepsOpened
  <2>1. Transition(t, to)
    BY <1>4 DEF ReviewReturn
  <2>2. PICK r \in Returns : /\ r = tx[t].id /\ rma[r].status # "ABSENT"
                             /\ \A u \in Threads : tx'[u] = tx[u] \/ tx'[u] = Idle
    BY <1>1, <2>1
  <2>3. /\ line' = line
        /\ to \in {"UNDER_REVIEW", "APPROVED", "REJECTED", "PICKUP_SCHEDULED", "RECEIVED",
                   "REFUND_COMPLETED", "CLOSED", "CANCELLED"}
        /\ rma' = [rma EXCEPT ![r].status = IF to = "REJECTED" THEN "CLOSED" ELSE to,
                              ![r].replacement = IF to = "APPROVED" THEN replacement ELSE @,
                              ![r].received = @ \/ to = "RECEIVED"]
    BY <1>4, <2>2 DEF ReviewReturn, KeepUnits
  <2>4. rma \in [Returns -> ReturnType]
    BY DEF TypeOK
  <2>5. rma'[r] = [rma[r] EXCEPT
                     !.status = IF to = "REJECTED" THEN "CLOSED" ELSE to,
                     !.replacement = IF to = "APPROVED" THEN replacement ELSE @,
                     !.received = @ \/ to = "RECEIVED"]
    BY <2>3, <2>4
  <2>6. /\ \A x \in Returns \ {r} : rma'[x] = rma[x]
        /\ rma'[r].line = rma[r].line /\ rma'[r].status # "ABSENT"
    BY <2>3, <2>4, <2>5 DEF ReturnType
  <2>7. QED BY <1>2, <2>2, <2>3, <2>6
<1>5. ASSUME NEW amount \in 1..Invoice, RefundReturn(t, amount)
      PROVE  KeepsOpened
  <2>1. Transition(t, "REFUND_INITIATED")
    BY <1>5 DEF RefundReturn
  <2>2. PICK r \in Returns : /\ r = tx[t].id /\ rma[r].status # "ABSENT"
                             /\ \A u \in Threads : tx'[u] = tx[u] \/ tx'[u] = Idle
    BY <1>1, <2>1
  <2>3. "REFUND_INITIATED" \in ReturnStatus
    BY DEF ReturnStatus, Open
  <2>4. amount \in Nat /\ BearRefund(r, amount, "REFUND_INITIATED")
    BY <1>5, <2>2, RefundBears
  <2>5. QED BY <2>2, <2>3, <2>4, BearKeepsOpened
<1>6. ASSUME NEW p \in Parcels, ReplaceReturn(t, p)
      PROVE  KeepsOpened
  <2>1. Transition(t, "REPLACEMENT_SHIPPED")
    BY <1>6 DEF ReplaceReturn
  <2>2. PICK r \in Returns : /\ r = tx[t].id /\ rma[r].status # "ABSENT"
                             /\ \A u \in Threads : tx'[u] = tx[u] \/ tx'[u] = Idle
    BY <1>1, <2>1
  <2>3. /\ line' = line
        /\ \A x \in Returns \ {r} : rma'[x] = rma[x]
        /\ rma'[r].line = rma[r].line /\ rma'[r].status # "ABSENT"
    BY <1>6, <2>2 DEF ReplaceReturn, TypeOK, ReturnType
  <2>4. QED BY <1>2, <2>2, <2>3
<1>7. ASSUME NEW to \in ReturnStatus, NEW disposition \in Dispositions,
             InspectReturn(t, to, disposition)
      PROVE  KeepsOpened
  <2>1. Transition(t, to)
    BY <1>7 DEF InspectReturn
  <2>2. PICK r \in Returns : /\ r = tx[t].id /\ rma[r].status # "ABSENT"
                             /\ tx[t].row.return.line = rma[r].line
                             /\ \A u \in Threads : tx'[u] = tx[u] \/ tx'[u] = Idle
    BY <1>1, <2>1
  <2>3. /\ \A x \in Returns \ {r} : rma'[x] = rma[x]
        /\ rma'[r].line = rma[r].line /\ rma'[r].status # "ABSENT"
    BY <1>7, <2>2 DEF InspectReturn, TypeOK, ReturnType
  <2>4. PICK home \in Lines : home = rma[r].line /\ line[home].delivered
    BY <2>2 DEF Opened, TypeOK, ReturnType
  <2>5. \A l \in Lines : /\ line'[l].delivered = line[l].delivered
                         /\ l # home => line'[l].state = line[l].state
    <3>1. CASE line' = line
      BY <3>1
    <3>2. CASE line' = Returned(tx[t].row)
      BY <2>2, <2>4, <3>2 DEF Returned, TypeOK, LineType
    <3>3. QED BY <1>7, <3>1, <3>2 DEF InspectReturn
  <2>6. QED BY <2>2, <2>3, <2>4, <2>5 DEF KeepsOpened, Opened
<1>8. QED BY <1>3, <1>4, <1>5, <1>6, <1>7 DEF Serve

LEMMA OpenedStep ==
  ASSUME TypeOK, Opened, [Next]_vars
  PROVE  Opened'
<1>1. CASE UNCHANGED <<line, rma, tx>>
  <2>1. KeepsOpened
    BY <1>1 DEF KeepsOpened, Opened
  <2>2. QED BY <2>1, OpenedKept
<1>2. CASE CancelOrder
  <2>1. /\ rma' = rma /\ tx' = tx
        /\ \A l \in Lines : /\ line'[l].delivered = line[l].delivered
                            /\ line'[l].state \in {line[l].state, "CANCELLED"}
    BY <1>2 DEF CancelOrder, CancelLines, TypeOK, LineType
  <2>2. KeepsOpened
    BY <2>1 DEF KeepsOpened, Opened
  <2>3. QED BY <2>2, OpenedKept
<1>3. ASSUME NEW x \in Lines, NEW q \in 1..MaxUnits, CancelItem(x, q)
      PROVE  Opened'
  <2>1. /\ rma' = rma /\ tx' = tx
        /\ \A l \in Lines : /\ line'[l].delivered = line[l].delivered
                            /\ line'[l].state \in {line[l].state, "CANCELLED"}
    BY <1>3 DEF CancelItem, TypeOK, LineType
  <2>2. KeepsOpened
    BY <2>1 DEF KeepsOpened, Opened
  <2>3. QED BY <2>2, OpenedKept
<1>4. ASSUME NEW p \in Parcels, Ship(p)
      PROVE  Opened'
  BY <1>4, ShipKeepsOpened, OpenedKept
<1>5. ASSUME NEW r \in Returns, NEW l \in Lines, NEW q \in 1..MaxUnits, NEW fault \in BOOLEAN,
             OpenReturn(r, l, q, fault)
      PROVE  Opened'
  <2>1. /\ line' = line /\ tx' = tx /\ line[l].delivered /\ rma[r].status = "ABSENT"
        /\ \A x \in Returns \ {r} : rma'[x] = rma[x]
        /\ rma'[r].line = l /\ rma'[r].status = "REQUESTED" /\ rma'[r].amount = 0
    BY <1>5 DEF OpenReturn, TypeOK, NoReturn
  <2>2. ASSUME NEW t \in Threads, tx[t].pc = "loaded"
        PROVE  /\ rma'[tx[t].id].status # "ABSENT"
               /\ tx[t].row.return.line = rma'[tx[t].id].line
    <3>1. PICK x \in Returns : x = tx[t].id
      BY <2>2, Held DEF TxType
    <3>2. rma[x].status # "ABSENT" /\ tx[t].row.return.line = rma[x].line
      BY <2>2, <3>1 DEF Opened
    <3>3. rma'[x] = rma[x]
      BY <2>1, <3>2
    <3>4. QED BY <3>1, <3>2, <3>3
  <2>3. QED BY <2>1, <2>2 DEF Opened
<1>6. ASSUME NEW t \in Threads, NEW r \in Returns, LoadReturn(t, r)
      PROVE  Opened'
  <2>1. /\ line' = line /\ rma' = rma /\ rma[r].status # "ABSENT"
        /\ tx' = [tx EXCEPT ![t] = [pc |-> "loaded", id |-> r, row |-> Row(r)]]
    BY <1>6 DEF LoadReturn
  <2>2. /\ tx'[t].id = r /\ tx'[t].row.return.line = rma[r].line
        /\ \A u \in Threads \ {t} : tx'[u] = tx[u]
    BY <2>1 DEF TypeOK, Row
  <2>3. ASSUME NEW u \in Threads, tx'[u].pc = "loaded"
        PROVE  /\ rma[tx'[u].id].status # "ABSENT"
               /\ tx'[u].row.return.line = rma[tx'[u].id].line
    <3>1. CASE u = t
      BY <2>1, <2>2, <3>1
    <3>2. CASE u # t
      BY <2>2, <2>3, <3>2 DEF Opened
    <3>3. QED BY <3>1, <3>2
  <2>4. QED BY <2>1, <2>3 DEF Opened
<1>7. ASSUME NEW t \in Threads, Serve(t)
      PROVE  Opened'
  BY <1>6, <1>7, ServeKeepsOpened, OpenedKept
<1>8. ASSUME NEW r \in Returns, SettleReturn(r)
      PROVE  Opened'
  <2>1. PICK home \in Lines : home = rma[r].line
    BY DEF TypeOK, ReturnType
  <2>2. rma[r].status # "ABSENT" /\ line[home].delivered
    BY <1>8, <2>1 DEF SettleReturn, Opened
  <2>3. /\ tx' = tx
        /\ \A l \in Lines : /\ line'[l].delivered = line[l].delivered
                            /\ l # home => line'[l].state = line[l].state
    BY <1>8, <2>1, SettleShape DEF SettleReturn, OnlyRefunds
  <2>4. /\ \A x \in Returns \ {r} : rma'[x] = rma[x]
        /\ rma'[r].line = rma[r].line
        /\ rma'[r].status \in {rma[r].status, "REFUND_COMPLETED"}
    BY <1>8 DEF SettleReturn, TypeOK, ReturnType
  <2>5. KeepsOpened
    BY <2>2, <2>3, <2>4 DEF KeepsOpened, Opened
  <2>6. QED BY <2>5, OpenedKept
<1>9. CASE Advance \/ SettleCancellations \/ UNCHANGED vars
  BY <1>1, <1>9 DEF Advance, SettleCancellations, vars
<1>10. ASSUME NEW r \in Returns, NEW amount \in 1..Invoice, CreateRefund(r, amount)
       PROVE  Opened'
  <2>1. rma[r].status \in ReturnStatus /\ amount \in Nat /\ tx' = tx
    BY <1>10, CreateBears
  <2>2. QED BY <1>10, <2>1, CreateBears, BearKeepsOpened, OpenedKept
<1>11. QED BY <1>2, <1>3, <1>4, <1>5, <1>7, <1>8, <1>9, <1>10 DEF Next

LEMMA OpenedInit == Init => Opened
<1> SUFFICES ASSUME Init PROVE Opened
  OBVIOUS
<1>1. \A r \in Returns : rma[r].status = "ABSENT" /\ rma[r].amount = 0
  <2>1. PICK x : rma = [r \in Returns |-> NoReturn(x)]
    BY DEF Init
  <2>2. QED BY <2>1 DEF NoReturn
<1>2. \A t \in Threads : tx[t].pc = "idle"
  BY DEF Init, Idle
<1>3. \A l \in Lines : line[l].state = "ACTIVE"
  BY DEF Init
<1>4. QED BY <1>1, <1>2, <1>3 DEF Opened

\* Lines that were cancelled before anything of them was returned stay so.
Gone == { l \in Lines : line[l].state = "CANCELLED" /\ ~HasReturn(l) }

LEMMA GoneStays ==
  ASSUME TypeOK, Opened, [Next]_vars, NEW x \in Gone
  PROVE  x \in Gone'
<1>1. x \in Lines /\ line[x].state = "CANCELLED" /\ ~HasReturn(x)
  BY DEF Gone
<1>2. ASSUME line'[x].state = "CANCELLED",
             \A r \in Returns : /\ rma'[r].line = rma[r].line
                                /\ rma'[r].status # "ABSENT" => rma[r].status # "ABSENT"
      PROVE  x \in Gone'
  BY <1>1, <1>2 DEF Gone, HasReturn
<1>3. CASE UNCHANGED <<line, rma>>
  BY <1>1, <1>2, <1>3
<1>4. CASE CancelOrder
  <2>1. rma' = rma /\ line'[x].state = "CANCELLED"
    BY <1>1, <1>4 DEF CancelOrder, CancelLines, TypeOK, LineType
  <2>2. QED BY <1>2, <2>1
<1>5. ASSUME NEW l \in Lines, NEW q \in 1..MaxUnits, CancelItem(l, q)
      PROVE  x \in Gone'
  <2>1. rma' = rma /\ line'[x].state = "CANCELLED"
    BY <1>1, <1>5 DEF CancelItem, TypeOK, LineType
  <2>2. QED BY <1>2, <2>1
<1>6. ASSUME NEW p \in Parcels, Ship(p)
      PROVE  x \in Gone'
  <2>1. CASE ReceiveBack(p)
    <3>1. rma' = rma /\ line'[x].state = "CANCELLED"
      BY <1>1, <2>1 DEF ReceiveBack, CancelLines, TypeOK, LineType
    <3>2. QED BY <1>2, <3>1
  <2>2. CASE ~ReceiveBack(p)
    <3>1. rma' = rma /\ line'[x].state = "CANCELLED"
      BY <1>1, <1>6, <2>2, ShipKeepsStock DEF KeepsStock
    <3>2. QED BY <1>2, <3>1
  <2>3. QED BY <2>1, <2>2
<1>7. ASSUME NEW r \in Returns, NEW l \in Lines, NEW q \in 1..MaxUnits, NEW fault \in BOOLEAN,
             OpenReturn(r, l, q, fault)
      PROVE  x \in Gone'
  <2>1. /\ line' = line /\ line[l].state # "CANCELLED"
        /\ \A y \in Returns \ {r} : rma'[y] = rma[y]
        /\ rma'[r].line = l
    BY <1>7 DEF OpenReturn, TypeOK, NoReturn
  <2>2. l # x
    BY <1>1, <2>1
  <2>3. ~HasReturn(x)'
    BY <1>1, <2>1, <2>2 DEF HasReturn
  <2>4. QED BY <1>1, <2>1, <2>3 DEF Gone
<1>8. ASSUME NEW t \in Threads, Serve(t), ~ \E r \in Returns : LoadReturn(t, r)
      PROVE  x \in Gone'
  <2>1. KeepsOpened
    BY <1>8, ServeKeepsOpened
  <2>2. ~HasReturn(x)'
    <3>1. ASSUME NEW r \in Returns, rma'[r].line = x, rma'[r].status # "ABSENT"
          PROVE  FALSE
      <4>1. rma[r].status # "ABSENT" /\ rma[r].line = x
        BY <2>1, <3>1 DEF KeepsOpened
      <4>2. QED BY <1>1, <4>1 DEF HasReturn
    <3>2. QED BY <3>1 DEF HasReturn
  <2>3. line'[x].state = "CANCELLED"
    <3>1. CASE line' = line
      BY <1>1, <3>1
    <3>2. CASE line' # line /\ ~ \E amount \in 1..Invoice : RefundReturn(t, amount)
      <4>1. PICK to \in ReturnStatus, disposition \in Dispositions :
              InspectReturn(t, to, disposition)
        BY <1>8, <3>2 DEF Serve, ReviewReturn, KeepUnits, ReplaceReturn, DropRequest
      <4>2. tx[t].pc = "loaded" /\ line' = Returned(tx[t].row)
        BY <3>2, <4>1 DEF InspectReturn, Transition
      <4>3. PICK r \in Returns : r = tx[t].id
        BY <4>2, Held DEF TxType
      <4>4. rma[r].status # "ABSENT" /\ tx[t].row.return.line = rma[r].line
        BY <4>2, <4>3 DEF Opened
      <4>5. tx[t].row.return.line # x
        BY <1>1, <4>4 DEF HasReturn
      <4>6. line'[x] = line[x]
        BY <1>1, <4>2, <4>5 DEF Returned, TypeOK
      <4>7. QED BY <1>1, <4>6
    <3>3. ASSUME NEW amount \in 1..Invoice, RefundReturn(t, amount)
          PROVE  line'[x].state = "CANCELLED"
      BY <1>1, <3>3, RefundBears, BearShape DEF OnlyRefunds
    <3>4. QED BY <3>1, <3>2, <3>3
  <2>4. QED BY <1>1, <2>2, <2>3 DEF Gone
<1>9. ASSUME NEW t \in Threads, NEW r \in Returns, LoadReturn(t, r)
      PROVE  x \in Gone'
  BY <1>3, <1>9 DEF LoadReturn
<1>10. ASSUME NEW r \in Returns, SettleReturn(r)
       PROVE  x \in Gone'
  <2>1. line'[x].state = "CANCELLED"
    BY <1>1, <1>10, SettleShape DEF OnlyRefunds
  <2>2. /\ rma[r].amount > 0
        /\ \A y \in Returns \ {r} : rma'[y] = rma[y]
        /\ rma'[r].line = rma[r].line
    BY <1>10 DEF SettleReturn, TypeOK, ReturnType
  <2>3. rma[r].status # "ABSENT"
    BY <2>2 DEF Opened
  <2>4. QED BY <1>2, <2>1, <2>2, <2>3
<1>11. CASE Advance \/ SettleCancellations \/ UNCHANGED vars
  BY <1>3, <1>11 DEF Advance, SettleCancellations, vars
<1>12. ASSUME NEW r \in Returns, NEW amount \in 1..Invoice, CreateRefund(r, amount)
       PROVE  x \in Gone'
  <2>1. line'[x].state = "CANCELLED"
    BY <1>1, <1>12, CreateBears, BearShape DEF OnlyRefunds
  <2>2. /\ rma[r].status # "ABSENT"
        /\ \A y \in Returns \ {r} : rma'[y] = rma[y]
        /\ rma'[r].line = rma[r].line
    BY <1>12, CreateBears, BearShape
  <2>3. QED BY <1>2, <2>1, <2>2
<1>13. QED BY <1>4, <1>5, <1>6, <1>7, <1>8, <1>9, <1>10, <1>11, <1>12 DEF Next

\* A step that delivers nothing and leaves the order's sums alone.
KeepsCash ==
  /\ UNCHANGED <<cod, total, cash>>
  /\ \A l \in Lines : /\ line'[l].quantity = line[l].quantity /\ line'[l].total = line[l].total
                      /\ line'[l].delivered = line[l].delivered
  /\ \A p \in Parcels : /\ parcel'[p].status = "DELIVERED" <=> parcel[p].status = "DELIVERED"
                        /\ parcel[p].status = "DELIVERED" => parcel'[p].items = parcel[p].items

LEMMA ShipKeepsCash ==
  ASSUME TypeOK, NEW p \in Parcels, Ship(p), ~DeliverParcel(p)
  PROVE  KeepsCash
<1> USE DEF moneyVars
<1>1. \A ls : \A l \in Lines : /\ Stamped(ls)[l].delivered = line[l].delivered
                               /\ Stamped(ls)[l].quantity = line[l].quantity
                               /\ Stamped(ls)[l].total = line[l].total
  BY DEF Stamped, TypeOK, LineType
<1>2. ASSUME NEW items, NEW handed \in BOOLEAN, CreateParcel(p, items, handed)
      PROVE  KeepsCash
  <2>1. /\ UNCHANGED <<cod, total, cash>> /\ parcel[p].status = "ABSENT"
        /\ line' = line \/ \E ls : line' = Stamped(ls)
        /\ parcel'[p].status \in {"SHIPPED", "PENDING"}
        /\ \A q \in Parcels \ {p} : parcel'[q] = parcel[q]
    BY <1>2 DEF CreateParcel, TypeOK
  <2>2. \A l \in Lines : /\ line'[l].quantity = line[l].quantity
                         /\ line'[l].total = line[l].total
                         /\ line'[l].delivered = line[l].delivered
    BY <1>1, <2>1
  <2>3. QED BY <2>1, <2>2 DEF KeepsCash
<1>3. CASE ShipOrder(p)
  <2>1. PICK left : left = [l \in Lines |-> IF l \in ActiveLines THEN Unshipped(l) ELSE 0]
    OBVIOUS
  <2>2. CASE CreateParcel(p, left, TRUE)
    BY <1>2, <2>2
  <2>3. CASE ~CreateParcel(p, left, TRUE)
    <3>1. /\ UNCHANGED <<cod, total, cash>>
          /\ parcel' = [q \in Parcels |->
                          IF parcel[q].status \in {"PENDING", "PACKED"}
                          THEN [parcel[q] EXCEPT !.status = "SHIPPED"] ELSE parcel[q]]
          /\ line' = Stamped(ActiveLines)
      BY <1>3, <2>1, <2>3 DEF ShipOrder
    <3>2. \A q \in Parcels :
            /\ parcel'[q].status = "DELIVERED" <=> parcel[q].status = "DELIVERED"
            /\ parcel[q].status = "DELIVERED" => parcel'[q].items = parcel[q].items
      BY <3>1 DEF TypeOK, ParcelType
    <3>3. QED BY <1>1, <3>1, <3>2 DEF KeepsCash
  <2>4. QED BY <2>2, <2>3
<1>4. ASSUME NEW to \in ShipmentStatus, MoveParcel(p, to)
      PROVE  KeepsCash
  <2>1. /\ UNCHANGED <<cod, total, cash>> /\ parcel[p].status # "DELIVERED"
        /\ line' = line \/ \E ls : line' = Stamped(ls)
        /\ parcel'[p].status # "DELIVERED"
        /\ \A q \in Parcels \ {p} : parcel'[q] = parcel[q]
    BY <1>4 DEF MoveParcel, TypeOK, ParcelType, ShipmentTransitions
  <2>2. \A l \in Lines : /\ line'[l].quantity = line[l].quantity
                         /\ line'[l].total = line[l].total
                         /\ line'[l].delivered = line[l].delivered
    BY <1>1, <2>1
  <2>3. QED BY <2>1, <2>2 DEF KeepsCash
<1>5. CASE ReceiveBack(p)
  BY <1>5 DEF ReceiveBack, CancelLines, KeepsCash, TypeOK, LineType
<1>6. QED BY <1>2, <1>3, <1>4, <1>5 DEF Ship

LEMMA CashShape ==
  ASSUME TypeOK, [Next]_vars
  PROVE  \/ KeepsCash
         \/ \E x \in Lines, q \in 1..MaxUnits : CancelItem(x, q)
         \/ \E p \in Parcels : DeliverParcel(p)
<1> USE DEF moneyVars
<1>1. ASSUME UNCHANGED <<cod, total, cash, line, parcel>>
      PROVE  KeepsCash
  BY <1>1 DEF KeepsCash
<1>2. CASE CancelOrder
  BY <1>2 DEF CancelOrder, CancelLines, KeepsCash, TypeOK, LineType
<1>3. ASSUME NEW p \in Parcels, Ship(p)
      PROVE  KeepsCash \/ DeliverParcel(p)
  BY <1>3, ShipKeepsCash
<1>4. ASSUME NEW t \in Threads, Serve(t)
      PROVE  KeepsCash
  <2>1. CASE UNCHANGED <<cod, total, cash, line, parcel>>
    BY <1>1, <2>1
  <2>2. ASSUME NEW to \in ReturnStatus, NEW disposition \in Dispositions,
               InspectReturn(t, to, disposition)
        PROVE  KeepsCash
    <3>1. /\ UNCHANGED <<cod, total, cash, parcel>>
          /\ line' = line \/ line' = Returned(tx[t].row)
      BY <2>2 DEF InspectReturn
    <3>2. \A l \in Lines : /\ Returned(tx[t].row)[l].quantity = line[l].quantity
                           /\ Returned(tx[t].row)[l].total = line[l].total
                           /\ Returned(tx[t].row)[l].delivered = line[l].delivered
      BY DEF Returned, TypeOK, LineType
    <3>3. QED BY <3>1, <3>2 DEF KeepsCash
  <2>3. ASSUME NEW p \in Parcels, ReplaceReturn(t, p)
        PROVE  KeepsCash
    <3>1. /\ UNCHANGED <<cod, total, cash, line>> /\ parcel[p].status = "ABSENT"
          /\ parcel'[p].status = "SHIPPED"
          /\ \A q \in Parcels \ {p} : parcel'[q] = parcel[q]
      BY <2>3 DEF ReplaceReturn, TypeOK
    <3>2. QED BY <3>1 DEF KeepsCash
  <2>4. ASSUME ~ \E to \in ReturnStatus, disposition \in Dispositions :
                   InspectReturn(t, to, disposition),
               ~ \E p \in Parcels : ReplaceReturn(t, p),
               ~ \E amount \in 1..Invoice : RefundReturn(t, amount)
        PROVE  UNCHANGED <<cod, total, cash, line, parcel>>
    BY <1>4, <2>4 DEF Serve, LoadReturn, DropRequest, ReviewReturn, KeepUnits
  <2>5. ASSUME NEW amount \in 1..Invoice, RefundReturn(t, amount)
        PROVE  KeepsCash
    BY <2>5, RefundBears, BearShape DEF KeepsCash, OnlyRefunds
  <2>6. QED BY <2>1, <2>2, <2>3, <2>4, <2>5
<1>5. ASSUME NEW r \in Returns, SettleReturn(r)
      PROVE  KeepsCash
  BY <1>5, SettleShape DEF SettleReturn, KeepsCash, OnlyRefunds
<1>6. CASE \/ Advance \/ SettleCancellations \/ UNCHANGED vars
           \/ \E r \in Returns, l \in Lines, q \in 1..MaxUnits, fault \in BOOLEAN :
                OpenReturn(r, l, q, fault)
  BY <1>1, <1>6 DEF Advance, SettleCancellations, vars, OpenReturn
<1>7. ASSUME NEW r \in Returns, NEW amount \in 1..Invoice, CreateRefund(r, amount)
      PROVE  KeepsCash
  BY <1>7, CreateBears, BearShape DEF KeepsCash, OnlyRefunds
<1>8. QED BY <1>2, <1>3, <1>4, <1>5, <1>6, <1>7 DEF Next

\* A first delivery that collects is given what the order's total holds beyond
\* its lines.  Between then and now the total has covered the lines outside X;
\* those in X were cancelled, or so nearly delivered that they do not count.
Covered(X) ==
  /\ TotalsOf(Lines \ X) <= total
  /\ cash <= Shares + (total - TotalsOf(Lines \ X))
  /\ \A l \in X : l \in Gone \/ Small(l)

CashInv ==
  /\ ~cod => cash = 0
  /\ Delivered = {} => cash = 0
  /\ cod => Shares <= cash
  /\ TotalsOf(Lines \ Gone) <= total
  /\ \A l \in Lines : line[l].delivered =>
       \E p \in Delivered : UnitsOn(l) + parcel[p].items[l] >= line[l].quantity
  /\ cod /\ cash > 0 => \E X \in SUBSET Lines : Covered(X)

LEMMA TotalsNat ==
  ASSUME TypeOK, NEW S \in SUBSET Lines
  PROVE  /\ IsFiniteSet(S)
         /\ \A l \in S : [x \in Lines |-> line[x].total][l] \in Nat
         /\ TotalsOf(S) \in Nat
<1>1. IsFiniteSet(S)
  BY SetsAssumption, FS_Subset
<1>2. PICK f : f = [x \in Lines |-> line[x].total]
  OBVIOUS
<1>3. \A l \in S : f[l] \in Nat
  BY <1>2 DEF TypeOK, LineType
<1>4. SumOver(f, S) \in Nat
  BY <1>1, <1>3, SumOverNat
<1>5. QED BY <1>1, <1>2, <1>3, <1>4 DEF TotalsOf

LEMMA TotalsShrink ==
  ASSUME TypeOK, NEW S \in SUBSET Lines, NEW T \in SUBSET S
  PROVE  TotalsOf(T) <= TotalsOf(S)
<1>1. PICK f : f = [x \in Lines |-> line[x].total]
  OBVIOUS
<1>2. IsFiniteSet(S) /\ \A l \in S : f[l] \in Nat
  BY <1>1, TotalsNat
<1>3. QED BY <1>1, <1>2, SumOverSubset DEF TotalsOf

LEMMA SharesNat ==
  ASSUME TypeOK
  PROVE  /\ \A l \in Lines : [x \in Lines |-> CollectedOn(x)][l] \in Nat
         /\ Shares \in Nat
<1>1. PICK f : f = [x \in Lines |-> CollectedOn(x)]
  OBVIOUS
<1>2. \A l \in Lines : f[l] \in Nat
  BY <1>1, DeliveredSums
<1>3. SumOver(f, Lines) \in Nat
  BY <1>2, SetsAssumption, SumOverNat
<1>4. QED BY <1>1, <1>2, <1>3 DEF Shares

LEMMA CashKept ==
  ASSUME TypeOK, TypeOK', CashInv, KeepsCash, Gone \subseteq Gone'
  PROVE  CashInv'
<1>1. PICK S \in SUBSET Parcels : S = Delivered /\ S = Delivered' /\ IsFiniteSet(S)
  <2>1. Delivered = Delivered'
    BY DEF KeepsCash, Delivered
  <2>2. QED BY <2>1, DeliveredSums, SetsAssumption, FS_Subset DEF Delivered
<1>2. ASSUME NEW p \in S, NEW l \in Lines
      PROVE  /\ parcel'[p].items[l] = parcel[p].items[l]
             /\ line'[l].quantity = line[l].quantity /\ line'[l].total = line[l].total
  BY <1>1 DEF KeepsCash, Delivered
<1>3. ASSUME NEW l \in Lines
      PROVE  /\ CollectedOn(l)' = CollectedOn(l) /\ UnitsOn(l)' = UnitsOn(l)
             /\ VisitsOn(l)' = VisitsOn(l)
  <2>1. CollectedOn(l)' = CollectedOn(l)
    <3>1. PICK f, g : f = ShareOf(l) /\ g = ShareOf(l)'
      OBVIOUS
    <3>2. \A p \in S : f[p] \in Int
      BY <3>1, ShareNat
    <3>3. \A p \in S : f[p] = g[p]
      BY <1>2, <3>1 DEF ShareOf
    <3>4. SumOver(f, S) = SumOver(g, S)
      BY <1>1, <3>2, <3>3, SumOverSame
    <3>5. QED BY <1>1, <3>1, <3>4 DEF CollectedOn
  <2>2. VisitsOn(l)' = VisitsOn(l)
    <3>1. PICK f, g : f = VisitOf(l) /\ g = VisitOf(l)'
      OBVIOUS
    <3>2. \A p \in S : f[p] \in Int
      BY <3>1, ShareNat
    <3>3. \A p \in S : f[p] = g[p]
      BY <1>2, <3>1 DEF VisitOf
    <3>4. SumOver(f, S) = SumOver(g, S)
      BY <1>1, <3>2, <3>3, SumOverSame
    <3>5. QED BY <1>1, <3>1, <3>4 DEF VisitsOn
  <2>3. UnitsOn(l)' = UnitsOn(l)
    <3>1. PICK f, g : /\ f = [p \in Parcels |-> parcel[p].items[l]]
                      /\ g = [p \in Parcels |-> parcel'[p].items[l]]
      OBVIOUS
    <3>2. \A p \in S : f[p] \in Int
      BY <3>1, ShareNat
    <3>3. \A p \in S : f[p] = g[p]
      BY <1>2, <3>1
    <3>4. SumOver(f, S) = SumOver(g, S)
      BY <1>1, <3>2, <3>3, SumOverSame
    <3>5. QED BY <1>1, <3>1, <3>4 DEF UnitsOn, OnParcels
  <2>4. QED BY <2>1, <2>2, <2>3
<1>4. Shares' = Shares
  <2>1. PICK f, g : /\ f = [l \in Lines |-> CollectedOn(l)]
                    /\ g = [l \in Lines |-> CollectedOn(l)']
    OBVIOUS
  <2>2. f = g
    BY <1>3, <2>1
  <2>3. QED BY <2>1, <2>2 DEF Shares
<1>5. ASSUME NEW T \in SUBSET Lines
      PROVE  TotalsOf(T)' = TotalsOf(T)
  <2>1. PICK f, g : /\ f = [l \in Lines |-> line[l].total]
                    /\ g = [l \in Lines |-> line'[l].total]
    OBVIOUS
  <2>2. f = g
    BY <2>1 DEF KeepsCash
  <2>3. QED BY <2>1, <2>2 DEF TotalsOf
<1>6. ASSUME NEW l \in Lines
      PROVE  Small(l)' <=> Small(l)
  BY <1>3 DEF KeepsCash, Small, IsSmall
<1>7. TotalsOf(Lines \ Gone)' <= total'
  <2>1. PICK S1 \in SUBSET Lines : S1 = Lines \ Gone
    OBVIOUS
  <2>2. PICK T1 \in SUBSET Lines : T1 = Lines \ Gone'
    OBVIOUS
  <2>3. T1 \in SUBSET S1
    BY <2>1, <2>2
  <2>4. TotalsOf(T1) <= TotalsOf(S1)
    BY <2>3, TotalsShrink
  <2>5. TotalsOf(T1) \in Nat /\ TotalsOf(S1) \in Nat
    BY TotalsNat
  <2>6. TotalsOf(Lines \ Gone)' = TotalsOf(T1)'
    BY <2>2 DEF TotalsOf
  <2>7. TotalsOf(T1)' = TotalsOf(T1)
    BY <1>5
  <2>8. TotalsOf(S1) <= total /\ total' = total /\ total \in Nat
    BY <2>1 DEF CashInv, KeepsCash, TypeOK
  <2>9. QED BY <2>4, <2>5, <2>6, <2>7, <2>8
<1>8. ASSUME NEW l \in Lines, line'[l].delivered
      PROVE  \E p \in Delivered' : UnitsOn(l)' + parcel'[p].items[l] >= line'[l].quantity
  <2>1. line[l].delivered
    BY <1>8 DEF KeepsCash
  <2>2. PICK p \in S : UnitsOn(l) + parcel[p].items[l] >= line[l].quantity
    BY <1>1, <2>1 DEF CashInv
  <2>3. QED BY <1>1, <1>2, <1>3, <2>2
<1>9. ASSUME cod', cash' > 0
      PROVE  \E X \in SUBSET Lines : Covered(X)'
  <2>1. PICK X \in SUBSET Lines : Covered(X)
    BY <1>9 DEF CashInv, KeepsCash
  <2>2. TotalsOf(Lines \ X)' = TotalsOf(Lines \ X)
    BY <1>5
  <2>3. \A l \in X : l \in Gone' \/ Small(l)'
    BY <1>6, <2>1 DEF Covered
  <2>4. /\ TotalsOf(Lines \ X)' <= total'
        /\ cash' <= Shares' + (total' - TotalsOf(Lines \ X)')
    BY <1>4, <2>1, <2>2 DEF Covered, KeepsCash
  <2>5. QED BY <2>3, <2>4 DEF Covered
<1>10. /\ ~cod' => cash' = 0
       /\ Delivered' = {} => cash' = 0
       /\ cod' => Shares' <= cash'
  BY <1>1, <1>4 DEF CashInv, KeepsCash
<1>11. QED BY <1>7, <1>8, <1>9, <1>10 DEF CashInv

\* As long as the order is not on its way nothing was delivered.
LEMMA Undelivered ==
  ASSUME TypeOK, StatusFollowsRows, status \in {"CONFIRMED", "PROCESSING", "PACKED"}
  PROVE  Delivered = {}
<1>1. ~SomeParcel({"SHIPPED", "IN_TRANSIT", "DELIVERED", "RETURNED_TO_ORIGIN"})
  BY DEF StatusFollowsRows, Derived
<1>2. QED BY <1>1 DEF SomeParcel, Delivered

\* The total follows the active lines.
LEMMA CancelItemTotals ==
  ASSUME TypeOK, NEW x \in Lines, NEW q \in 1..MaxUnits, CancelItem(x, q)
  PROVE  TotalsOf(ActiveLines)' <= total'
<1>1. /\ line[x] \in LineType /\ line[x].total \in Nat /\ line[x].quantity \in 1..MaxUnits
      /\ q \in 1..line[x].quantity /\ x \in ActiveLines
  BY DEF TypeOK, LineType, CancelItem, Cancellable, ActiveLines
<1>2. PICK whole \in BOOLEAN : whole = (q = line[x].quantity)
  OBVIOUS
<1>3. PICK value : value = IF whole THEN line[x].total
                           ELSE Rounded(line[x].total, q, line[x].quantity)
  OBVIOUS
<1>4. value \in Nat /\ value <= line[x].total
  <2>1. line[x].quantity \in Nat \ {0} /\ q \in 0..line[x].quantity /\ q \in Nat
    BY <1>1, OrderAssumption
  <2>2. PICK rounded : rounded = Rounded(line[x].total, q, line[x].quantity)
    OBVIOUS
  <2>3. rounded \in Nat /\ rounded <= line[x].total
    BY <1>1, <2>1, <2>2, RoundedNat, RoundedWithin
  <2>4. QED BY <1>1, <1>3, <2>2, <2>3
<1>5. PICK A \in SUBSET Lines : A = ActiveLines
  BY DEF ActiveLines
<1>6. PICK f, g : /\ f = [y \in Lines |-> line[y].total]
                  /\ g = [y \in Lines |-> line'[y].total]
  OBVIOUS
<1>7. IsFiniteSet(A) /\ (\A y \in A : f[y] \in Nat) /\ SumOver(f, A) \in Nat
  BY <1>6, TotalsNat DEF TotalsOf
<1>8. PICK rest : rest = SumOver(f, A) - value + Larger(0, total - SumOver(f, A))
  OBVIOUS
<1>9. rest >= SumOver(f, A) - value
  BY <1>4, <1>7, <1>8 DEF Larger, TypeOK
<1>10. PICK last \in BOOLEAN : last = (whole /\ A = {x})
  OBVIOUS
<1>11. /\ line' = IF whole THEN [line EXCEPT ![x].state = "CANCELLED"]
                  ELSE [line EXCEPT ![x].quantity = @ - q, ![x].total = @ - value]
       /\ total' = IF last THEN 0 ELSE rest
  BY <1>2, <1>3, <1>5, <1>6, <1>8, <1>10 DEF CancelItem
<1>12. PICK B \in SUBSET Lines : B = ActiveLines'
  BY DEF ActiveLines
<1>13. TotalsOf(ActiveLines)' = SumOver(g, B)
  BY <1>6, <1>12 DEF TotalsOf
<1>14. CASE whole
  <2>1. B = A \ {x}
    BY <1>5, <1>11, <1>12, <1>14 DEF ActiveLines, TypeOK, LineType
  <2>2. \A y \in Lines : g[y] = f[y]
    BY <1>6, <1>11, <1>14 DEF TypeOK, LineType
  <2>3. SumOver(f, A) = f[x] + SumOver(f, A \ {x})
    <3>1. \A y \in A : f[y] \in Int
      BY <1>7
    <3>2. QED BY <1>1, <1>5, <1>7, <3>1, SumOverRemove
  <2>4. IsFiniteSet(B) /\ (\A y \in B : f[y] \in Int) /\ SumOver(f, B) \in Nat
    <3>1. IsFiniteSet(B) /\ \A y \in B : f[y] \in Nat
      BY <1>7, <2>1, FS_Subset
    <3>2. QED BY <3>1, SumOverNat
  <2>5. SumOver(f, B) = SumOver(g, B)
    <3>1. \A y \in B : f[y] = g[y]
      BY <2>2
    <3>2. QED BY <2>4, <3>1, SumOverSame
  <2>6. f[x] = line[x].total /\ value = line[x].total
    BY <1>3, <1>6, <1>14
  <2>7. CASE last
    <3>1. B = {} /\ total' = 0
      BY <1>10, <1>11, <2>1, <2>7
    <3>2. QED BY <1>13, <3>1, SumOverEmpty
  <2>8. CASE ~last
    <3>1. total' >= SumOver(f, A) - value
      BY <1>9, <1>11, <2>8
    <3>2. SumOver(f, B) = SumOver(f, A) - value
      BY <1>1, <2>1, <2>3, <2>4, <2>6
    <3>3. QED BY <1>13, <2>5, <3>1, <3>2
  <2>9. QED BY <2>7, <2>8
<1>15. CASE ~whole
  <2>1. B = A
    BY <1>5, <1>11, <1>12, <1>15 DEF ActiveLines, TypeOK, LineType
  <2>2. PICK worth \in Nat : worth = line[x].total - value
    BY <1>1, <1>4
  <2>3. line' = [line EXCEPT ![x].quantity = @ - q, ![x].total = worth]
    BY <1>11, <1>15, <2>2 DEF TypeOK
  <2>4. line'[x].total = worth /\ \A y \in Lines \ {x} : line'[y] = line[y]
    BY <2>3 DEF TypeOK, LineType
  <2>5. /\ g[x] = worth /\ f[x] = line[x].total
        /\ \A y \in Lines \ {x} : g[y] = f[y]
    BY <1>6, <2>4
  <2>6. SumOver(g, A) = SumOver(f, A) + (g[x] - f[x])
    <3>1. (\A y \in A : f[y] \in Int) /\ (\A y \in A : g[y] \in Int)
      BY <1>1, <1>7, <2>2, <2>5
    <3>2. \A y \in A \ {x} : f[y] = g[y]
      BY <2>5
    <3>3. QED BY <1>1, <1>5, <1>7, <3>1, <3>2, SumOverUpdate
  <2>7. total' >= SumOver(f, A) - value
    BY <1>9, <1>10, <1>11, <1>15
  <2>8. SumOver(g, A) = SumOver(f, A) - value
    BY <1>1, <1>4, <1>7, <2>2, <2>5, <2>6
  <2>9. QED BY <1>13, <2>1, <2>7, <2>8
<1>16. QED BY <1>14, <1>15

LEMMA CashCancelled ==
  ASSUME TypeOK, TypeOK', StatusFollowsRows, Opened, CashInv,
         NEW x \in Lines, NEW q \in 1..MaxUnits, CancelItem(x, q)
  PROVE  CashInv'
<1>1. Delivered = {} /\ parcel' = parcel /\ rma' = rma /\ cash' = cash
  BY Undelivered DEF CancelItem
<1>2. Delivered' = {} /\ cash' = 0
  BY <1>1 DEF Delivered, CashInv
<1>3. Shares' = 0
  <2>1. PICK f : f = [l \in Lines |-> CollectedOn(l)']
    OBVIOUS
  <2>2. \A l \in Lines : CollectedOn(l)' = 0
    BY <1>2, SumOverEmpty DEF CollectedOn
  <2>3. SumOver(f, Lines) = Cardinality({})
    <3>1. /\ {} \in SUBSET Lines
          /\ \A l \in {} : f[l] = 1
          /\ \A l \in Lines \ {} : f[l] = 0
      BY <2>1, <2>2
    <3>2. QED BY <3>1, SetsAssumption, SumOverMarks
  <2>4. Shares' = SumOver(f, Lines)
    BY <2>1 DEF Shares
  <2>5. QED BY <2>3, <2>4, FS_EmptySet
<1>4. \A l \in Lines : /\ ~line[l].delivered /\ ~line'[l].delivered
                       /\ line'[l].state \in {line[l].state, "CANCELLED"}
  <2>1. \A l \in Lines : ~line[l].delivered
    BY <1>1 DEF CashInv
  <2>2. \A l \in Lines : /\ line'[l].delivered = line[l].delivered
                         /\ line'[l].state \in {line[l].state, "CANCELLED"}
    BY DEF CancelItem, TypeOK, LineType
  <2>3. QED BY <2>1, <2>2
<1>5. (Lines \ Gone)' \subseteq ActiveLines'
  <2>1. ASSUME NEW l \in Lines, line'[l].state # "ACTIVE"
        PROVE  l \in Gone'
    <3>1. line'[l].state = "CANCELLED"
      BY <1>4, <2>1 DEF Opened, TypeOK, LineType
    <3>2. ~HasReturn(l)
      BY <1>4 DEF HasReturn, Opened
    <3>3. ~HasReturn(l)'
      BY <1>1, <3>2 DEF HasReturn
    <3>4. QED BY <3>1, <3>3 DEF Gone
  <2>2. QED BY <2>1 DEF ActiveLines
<1>6. TotalsOf(Lines \ Gone)' <= total'
  <2>1. PICK f : f = [y \in Lines |-> line'[y].total]
    OBVIOUS
  <2>2. PICK B \in SUBSET Lines : B = ActiveLines'
    BY DEF ActiveLines
  <2>3. PICK C \in SUBSET B : C = (Lines \ Gone)'
    BY <1>5, <2>2
  <2>4. IsFiniteSet(B) /\ (\A y \in B : f[y] \in Nat)
    BY <2>1, SetsAssumption, FS_Subset DEF TypeOK, LineType
  <2>5. SumOver(f, C) <= SumOver(f, B)
    BY <2>4, SumOverSubset
  <2>6. SumOver(f, C) \in Nat /\ SumOver(f, B) \in Nat
    <3>1. IsFiniteSet(C) /\ \A y \in C : f[y] \in Nat
      BY <2>4, FS_Subset
    <3>2. QED BY <2>4, <3>1, SumOverNat
  <2>7. SumOver(f, B) <= total' /\ total' \in Nat
    BY <2>1, <2>2, CancelItemTotals DEF TotalsOf, TypeOK
  <2>8. TotalsOf(Lines \ Gone)' = SumOver(f, C)
    BY <2>1, <2>3 DEF TotalsOf
  <2>9. QED BY <2>5, <2>6, <2>7, <2>8
<1>7. QED BY <1>2, <1>3, <1>4, <1>6 DEF CashInv

\* What the delivery of a parcel adds to the sums of a line.
LEMMA DeliveryOnLine ==
  ASSUME TypeOK, NEW p \in Parcels, DeliverParcel(p), NEW l \in Lines
  PROVE  /\ CollectedOn(l)' = CollectedOn(l) + ShareOf(l)[p]
         /\ UnitsOn(l)' = UnitsOn(l) + parcel[p].items[l]
         /\ VisitsOn(l)' = VisitsOn(l) + VisitOf(l)[p]
<1>1. PICK S \in SUBSET Parcels : S = Delivered /\ IsFiniteSet(S)
  BY DeliveredSums
<1>2. p \notin S /\ Delivered' = S \cup {p}
  BY <1>1 DEF Delivered, DeliverParcel, TypeOK, ShipmentTransitions
<1>3. \A q \in Parcels : parcel'[q].items = parcel[q].items
  BY DEF DeliverParcel, TypeOK
<1>4. line'[l].quantity = line[l].quantity /\ line'[l].total = line[l].total
  BY DEF DeliverParcel, TypeOK, LineType
<1>5. CollectedOn(l)' = CollectedOn(l) + ShareOf(l)[p]
  <2>1. PICK f : f = ShareOf(l)
    OBVIOUS
  <2>2. ShareOf(l)' = f
    BY <1>3, <1>4, <2>1 DEF ShareOf
  <2>3. \A q \in Parcels : f[q] \in Int
    BY <2>1, ShareNat
  <2>4. SumOver(f, S \cup {p}) = SumOver(f, S) + f[p]
    BY <1>1, <1>2, <2>3, SumOverAdd
  <2>5. QED BY <1>1, <1>2, <2>1, <2>2, <2>4 DEF CollectedOn
<1>6. VisitsOn(l)' = VisitsOn(l) + VisitOf(l)[p]
  <2>1. PICK f : f = VisitOf(l)
    OBVIOUS
  <2>2. VisitOf(l)' = f
    BY <1>3, <2>1 DEF VisitOf
  <2>3. \A q \in Parcels : f[q] \in Int
    BY <2>1, ShareNat
  <2>4. SumOver(f, S \cup {p}) = SumOver(f, S) + f[p]
    BY <1>1, <1>2, <2>3, SumOverAdd
  <2>5. QED BY <1>1, <1>2, <2>1, <2>2, <2>4 DEF VisitsOn
<1>7. UnitsOn(l)' = UnitsOn(l) + parcel[p].items[l]
  <2>1. PICK f : /\ f = [q \in Parcels |-> parcel[q].items[l]]
                 /\ f = [q \in Parcels |-> parcel'[q].items[l]]
    <3>1. [q \in Parcels |-> parcel'[q].items[l]] = [q \in Parcels |-> parcel[q].items[l]]
      BY <1>3
    <3>2. QED BY <3>1
  <2>2. (\A q \in S : f[q] \in Int) /\ f[p] \in Int
    BY <2>1, ShareNat
  <2>3. SumOver(f, S \cup {p}) = SumOver(f, S) + f[p]
    BY <1>1, <1>2, <2>2, SumOverAdd
  <2>4. f[p] = parcel[p].items[l]
    BY <2>1
  <2>5. QED BY <1>1, <1>2, <2>1, <2>3, <2>4 DEF UnitsOn, OnParcels
<1>8. QED BY <1>5, <1>6, <1>7

LEMMA DeliveryKeepsSmall ==
  ASSUME TypeOK, NEW p \in Parcels, DeliverParcel(p), NEW l \in Lines, Small(l)
  PROVE  Small(l)'
<1>1. PICK n \in Nat \ {0}, worth \in Nat, c \in Nat, d \in Nat, v \in Nat :
        /\ n = line[l].quantity /\ worth = line[l].total
        /\ c = CollectedOn(l) /\ d = UnitsOn(l) /\ v = VisitsOn(l)
  BY DeliveredSums, ShareNat
<1>2. PICK r \in Nat, q \in Nat, w \in Nat :
        r = ShareOf(l)[p] /\ q = parcel[p].items[l] /\ w = VisitOf(l)[p]
  BY ShareNat
<1>3. 2 * n * r <= 2 * worth * q + n * w
  BY <1>1, <1>2, ShareNat
<1>4. IsSmall(n, worth, c, d, v)
  BY <1>1 DEF Small
<1>5. IsSmall(n, worth, c + r, d + q, v + w)
  BY <1>3, <1>4, SmallGrows
<1>6. CollectedOn(l)' = c + r /\ UnitsOn(l)' = d + q /\ VisitsOn(l)' = v + w
  BY <1>1, <1>2, DeliveryOnLine
<1>7. line'[l].quantity = n /\ line'[l].total = worth
  BY <1>1 DEF DeliverParcel, TypeOK, LineType
<1>8. QED BY <1>5, <1>6, <1>7 DEF Small

LEMMA DeliverySums ==
  ASSUME TypeOK, NEW p \in Parcels, DeliverParcel(p)
  PROVE  \E sum \in Nat :
           /\ Shares' = Shares + sum
           /\ Collected(p) =
                sum + (IF cash = 0 THEN Larger(0, total - TotalsOf(NotCancelled)) ELSE 0)
<1>1. PICK f, g, h : /\ f = [l \in Lines |-> CollectedOn(l)]
                     /\ g = [l \in Lines |-> ShareOf(l)[p]]
                     /\ h = [l \in Lines |-> CollectedOn(l)']
  OBVIOUS
<1>2. (\A l \in Lines : f[l] \in Int) /\ (\A l \in Lines : g[l] \in Nat)
  BY <1>1, DeliveredSums, ShareNat
<1>3. \A l \in Lines : h[l] = f[l] + g[l]
  BY <1>1, DeliveryOnLine
<1>4. SumOver(g, Lines) \in Nat
  BY <1>2, SetsAssumption, SumOverNat
<1>5. SumOver(h, Lines) = SumOver(f, Lines) + SumOver(g, Lines)
  <2>1. \A l \in Lines : g[l] \in Int
    BY <1>2
  <2>2. QED BY <1>2, <1>3, <2>1, SetsAssumption, SumOverPlus
<1>6. Shares' = Shares + SumOver(g, Lines)
  BY <1>1, <1>5 DEF Shares
<1>7. PICK k : k = [l \in Lines |-> Rounded(line[l].total, parcel[p].items[l],
                                            Larger(1, line[l].quantity))]
  OBVIOUS
<1>8. \A l \in Lines : Larger(1, line[l].quantity) = line[l].quantity
  BY ShareNat DEF Larger
<1>9. k = g
  BY <1>1, <1>7, <1>8 DEF ShareOf
<1>10. Collected(p) = SumOver(g, Lines)
                        + (IF cash = 0 THEN Larger(0, total - TotalsOf(NotCancelled)) ELSE 0)
  BY <1>7, <1>9 DEF Collected, TotalsOf
<1>11. QED BY <1>4, <1>6, <1>10

\* A line that was delivered and collected nothing.
LEMMA FreeDelivery ==
  ASSUME TypeOK, CashInv, Shares = 0, NEW l \in Lines, line[l].delivered
  PROVE  Small(l)
<1>1. PICK S \in SUBSET Parcels : S = Delivered /\ IsFiniteSet(S)
  BY DeliveredSums
<1>2. PICK p \in S : UnitsOn(l) + parcel[p].items[l] >= line[l].quantity
  BY <1>1 DEF CashInv
<1>3. CollectedOn(l) = 0
  <2>1. PICK f : f = [x \in Lines |-> CollectedOn(x)]
    OBVIOUS
  <2>2. \A x \in Lines : f[x] \in Nat
    BY <2>1, DeliveredSums
  <2>3. f[l] <= SumOver(f, Lines)
    BY <2>2, SetsAssumption, SumOverAtLeast
  <2>4. QED BY <2>1, <2>2, <2>3 DEF Shares
<1>4. ShareOf(l)[p] = 0
  <2>1. PICK f : f = ShareOf(l)
    OBVIOUS
  <2>2. \A q \in S : f[q] \in Nat
    BY <2>1, ShareNat
  <2>3. f[p] <= SumOver(f, S)
    BY <1>1, <2>2, SumOverAtLeast
  <2>4. SumOver(f, S) = 0
    BY <1>1, <1>3, <2>1 DEF CollectedOn
  <2>5. QED BY <2>1, <2>2, <2>3, <2>4
<1>5. PICK n \in Nat \ {0}, worth \in Nat, d \in Nat, v \in Nat, q \in Nat :
        /\ n = line[l].quantity /\ worth = line[l].total
        /\ d = UnitsOn(l) /\ v = VisitsOn(l) /\ q = parcel[p].items[l]
  BY DeliveredSums, ShareNat
<1>6. 2 * worth * q < n
  BY <1>4, <1>5, ShareNat
<1>7. d + q >= n
  BY <1>2, <1>5
<1>8. IsSmall(n, worth, 0, d, v)
  BY <1>6, <1>7, FreeIsSmall
<1>9. QED BY <1>3, <1>5, <1>8 DEF Small

\* The first delivery that collects leaves out what was cancelled before it:
\* of a cancelled line nothing was delivered, or it was delivered for nothing.
LEMMA FirstCollects ==
  ASSUME TypeOK, Opened, CashInv, NEW p \in Parcels, DeliverParcel(p),
         cod, cash = 0, Gone' = Gone, total' = total,
         \A T \in SUBSET Lines : TotalsOf(T)' = TotalsOf(T)
  PROVE  \E X \in SUBSET Lines : Covered(X)'
<1>1. PICK sum \in Nat :
        /\ Shares' = Shares + sum
        /\ Collected(p) = sum + Larger(0, total - TotalsOf(NotCancelled))
  BY DeliverySums
<1>2. Shares = 0
  BY SharesNat DEF CashInv
<1>3. PICK X \in SUBSET Lines : X = Lines \ NotCancelled
  OBVIOUS
<1>4. PICK N \in SUBSET Lines : N = NotCancelled /\ N = Lines \ X
  BY <1>3 DEF NotCancelled
<1>5. TotalsOf(N) <= total /\ TotalsOf(N) \in Nat
  <2>1. PICK H \in SUBSET Lines : H = Lines \ Gone
    OBVIOUS
  <2>2. N \in SUBSET H
    BY <1>4, <2>1 DEF Gone, NotCancelled
  <2>3. TotalsOf(N) <= TotalsOf(H)
    BY <2>2, TotalsShrink
  <2>4. TotalsOf(N) \in Nat /\ TotalsOf(H) \in Nat
    BY TotalsNat
  <2>5. TotalsOf(H) <= total
    BY <2>1 DEF CashInv
  <2>6. QED BY <2>3, <2>4, <2>5 DEF TypeOK
<1>6. cash' = sum + (total - TotalsOf(N))
  <2>1. Larger(0, total - TotalsOf(N)) = total - TotalsOf(N)
    BY <1>5 DEF Larger, TypeOK
  <2>2. cash' = cash + Collected(p)
    BY DEF DeliverParcel
  <2>3. TotalsOf(NotCancelled) = TotalsOf(N)
    BY <1>4
  <2>4. Collected(p) = sum + (total - TotalsOf(N))
    BY <1>1, <2>1, <2>3
  <2>5. total \in Nat
    BY DEF TypeOK
  <2>6. QED BY <1>5, <2>2, <2>4, <2>5
<1>7. ASSUME NEW l \in X
      PROVE  l \in Gone' \/ Small(l)'
  <2>1. l \in Lines /\ line[l].state = "CANCELLED"
    BY <1>3, <1>7 DEF NotCancelled
  <2>2. CASE ~HasReturn(l)
    BY <2>1, <2>2 DEF Gone
  <2>3. CASE HasReturn(l)
    <3>1. line[l].delivered
      BY <2>3 DEF HasReturn, Opened
    <3>2. Small(l)
      BY <1>2, <2>1, <3>1, FreeDelivery
    <3>3. QED BY <2>1, <3>2, DeliveryKeepsSmall
  <2>4. QED BY <2>2, <2>3
<1>8. TotalsOf(Lines \ X)' = TotalsOf(N)
  BY <1>4
<1>9. /\ TotalsOf(Lines \ X)' <= total'
      /\ cash' <= Shares' + (total' - TotalsOf(Lines \ X)')
  BY <1>1, <1>2, <1>5, <1>6, <1>8 DEF TypeOK
<1>10. QED BY <1>7, <1>9 DEF Covered

LEMMA LaterCollects ==
  ASSUME TypeOK, NEW p \in Parcels, DeliverParcel(p), NEW X \in SUBSET Lines, Covered(X),
         cod, cash > 0, Gone' = Gone, total' = total,
         \A T \in SUBSET Lines : TotalsOf(T)' = TotalsOf(T)
  PROVE  Covered(X)'
<1>1. PICK sum \in Nat : Shares' = Shares + sum /\ Collected(p) = sum + 0
  BY DeliverySums DEF TypeOK
<1>2. cash' = cash + sum
  BY <1>1 DEF DeliverParcel
<1>3. TotalsOf(Lines \ X)' = TotalsOf(Lines \ X)
  OBVIOUS
<1>4. TotalsOf(Lines \ X) \in Nat /\ Shares \in Nat
  BY TotalsNat, SharesNat
<1>5. ASSUME NEW l \in X
      PROVE  l \in Gone' \/ Small(l)'
  <2>1. CASE l \in Gone
    BY <2>1
  <2>2. CASE Small(l)
    BY <2>2, DeliveryKeepsSmall
  <2>3. QED BY <2>1, <2>2 DEF Covered
<1>6. QED BY <1>1, <1>2, <1>3, <1>4, <1>5 DEF Covered, TypeOK

LEMMA CashDelivered ==
  ASSUME TypeOK, Opened, CashInv, NEW p \in Parcels, DeliverParcel(p)
  PROVE  CashInv'
<1>1. p \in Delivered' /\ Delivered \subseteq Delivered'
  BY DEF Delivered, DeliverParcel, TypeOK, ParcelType
<1>2. /\ cod' = cod /\ total' = total /\ rma' = rma
      /\ cash' = IF cod THEN cash + Collected(p) ELSE cash
  BY DEF DeliverParcel
<1>3. \A l \in Lines : /\ line'[l].quantity = line[l].quantity
                       /\ line'[l].total = line[l].total /\ line'[l].state = line[l].state
  BY DEF DeliverParcel, TypeOK, LineType
<1>4. \A q \in Parcels : parcel'[q].items = parcel[q].items
  BY DEF DeliverParcel, TypeOK
<1>5. Gone' = Gone
  BY <1>2, <1>3 DEF Gone, HasReturn
<1>6. ASSUME NEW T \in SUBSET Lines
      PROVE  TotalsOf(T)' = TotalsOf(T)
  <2>1. [l \in Lines |-> line'[l].total] = [l \in Lines |-> line[l].total]
    BY <1>3
  <2>2. QED BY <2>1 DEF TotalsOf
<1>7. PICK sum \in Nat :
        /\ Shares' = Shares + sum
        /\ Collected(p) = sum + (IF cash = 0 THEN Larger(0, total - TotalsOf(NotCancelled)) ELSE 0)
  BY DeliverySums
<1>8. cod' => Shares' <= cash'
  <2>1. PICK more \in Nat :
          more = IF cash = 0 THEN Larger(0, total - TotalsOf(NotCancelled)) ELSE 0
    <3>1. TotalsOf(NotCancelled) \in Nat
      BY TotalsNat DEF NotCancelled
    <3>2. QED BY <3>1 DEF Larger, TypeOK
  <2>2. QED BY <1>2, <1>7, <2>1, SharesNat DEF CashInv, TypeOK
<1>9. TotalsOf(Lines \ Gone)' <= total'
  <2>1. PICK H \in SUBSET Lines : H = Lines \ Gone /\ H = Lines \ Gone'
    BY <1>5
  <2>2. TotalsOf(H)' = TotalsOf(H)
    BY <1>6
  <2>3. TotalsOf(Lines \ Gone)' = TotalsOf(H)'
    BY <2>1 DEF TotalsOf
  <2>4. QED BY <1>2, <2>1, <2>2, <2>3 DEF CashInv
<1>10. ASSUME NEW l \in Lines, line'[l].delivered
       PROVE  \E q \in Delivered' : UnitsOn(l)' + parcel'[q].items[l] >= line'[l].quantity
  <2>1. CASE line[l].delivered
    <3>1. PICK q \in Delivered : UnitsOn(l) + parcel[q].items[l] >= line[l].quantity
      BY <2>1 DEF CashInv
    <3>2. q \in Parcels
      BY DEF Delivered
    <3>3. UnitsOn(l)' >= UnitsOn(l) /\ UnitsOn(l) \in Nat /\ UnitsOn(l)' \in Nat
      BY DeliveryOnLine, DeliveredSums, ShareNat
    <3>4. parcel'[q].items[l] = parcel[q].items[l] /\ line'[l].quantity = line[l].quantity
      BY <1>3, <1>4, <3>2
    <3>5. parcel[q].items[l] \in Nat /\ line[l].quantity \in Nat
      BY <3>2, ShareNat
    <3>6. UnitsOn(l)' + parcel'[q].items[l] >= line'[l].quantity
      BY <3>1, <3>3, <3>4, <3>5
    <3>7. QED BY <1>1, <3>6
  <2>2. CASE ~line[l].delivered
    <3>1. ReachedCustomer(p, l)
      BY <1>10, <2>2 DEF DeliverParcel
    <3>2. Delivered' = { q \in Parcels : q = p \/ parcel[q].status = "DELIVERED" }
      BY DEF Delivered, DeliverParcel, TypeOK, ParcelType
    <3>3. [q \in Parcels |-> parcel'[q].items[l]] = [q \in Parcels |-> parcel[q].items[l]]
      BY <1>4
    <3>4. UnitsOn(l)' = OnParcels(l, { q \in Parcels : q = p \/ parcel[q].status = "DELIVERED" })
      BY <3>2, <3>3 DEF UnitsOn, OnParcels
    <3>5. UnitsOn(l)' + parcel'[p].items[l] >= line'[l].quantity
      BY <1>3, <1>4, <3>1, <3>4 DEF ReachedCustomer
    <3>6. QED BY <1>1, <3>5
  <2>3. QED BY <2>1, <2>2
<1>11. ASSUME cod', cash' > 0
       PROVE  \E X \in SUBSET Lines : Covered(X)'
  <2>1. CASE cash = 0
    BY <1>2, <1>5, <1>6, <1>11, <2>1, FirstCollects
  <2>2. CASE cash # 0
    <3>1. cash > 0 /\ cod
      BY <1>2, <1>11, <2>2 DEF TypeOK
    <3>2. PICK X \in SUBSET Lines : Covered(X)
      BY <3>1 DEF CashInv
    <3>3. Covered(X)'
      BY <1>2, <1>5, <1>6, <3>1, <3>2, LaterCollects
    <3>4. QED BY <3>3
  <2>3. QED BY <2>1, <2>2
<1>12. /\ ~cod' => cash' = 0
       /\ Delivered' # {}
  BY <1>1, <1>2 DEF CashInv
<1>13. QED BY <1>8, <1>9, <1>10, <1>11, <1>12 DEF CashInv

LEMMA CashStep ==
  ASSUME TypeOK, TypeOK', StatusFollowsRows, Opened, CashInv, [Next]_vars
  PROVE  CashInv'
<1>1. CASE KeepsCash
  <2>1. Gone \subseteq Gone'
    BY GoneStays
  <2>2. QED BY <1>1, <2>1, CashKept
<1>2. ASSUME NEW x \in Lines, NEW q \in 1..MaxUnits, CancelItem(x, q)
      PROVE  CashInv'
  BY <1>2, CashCancelled
<1>3. ASSUME NEW p \in Parcels, DeliverParcel(p)
      PROVE  CashInv'
  BY <1>3, CashDelivered
<1>4. QED BY <1>1, <1>2, <1>3, CashShape

LEMMA CashInit == TypeOK /\ Init => CashInv
<1> SUFFICES ASSUME TypeOK, Init PROVE CashInv
  OBVIOUS
<1>1. Delivered = {} /\ cash = 0
  BY DEF Init, NoParcel, Delivered
<1>2. Shares = 0
  <2>1. PICK f : f = [l \in Lines |-> CollectedOn(l)]
    OBVIOUS
  <2>2. \A l \in Lines : CollectedOn(l) = 0
    BY <1>1, SumOverEmpty DEF CollectedOn
  <2>3. SumOver(f, Lines) = Cardinality({})
    <3>1. /\ {} \in SUBSET Lines
          /\ \A l \in {} : f[l] = 1
          /\ \A l \in Lines \ {} : f[l] = 0
      BY <2>1, <2>2
    <3>2. QED BY <3>1, SetsAssumption, SumOverMarks
  <2>4. Shares = SumOver(f, Lines)
    BY <2>1 DEF Shares
  <2>5. QED BY <2>3, <2>4, FS_EmptySet
<1>3. TotalsOf(Lines \ Gone) <= total
  <2>1. PICK f : f = [l \in Lines |-> line[l].total]
    OBVIOUS
  <2>2. \A l \in Lines : f[l] = Price[l] /\ f[l] \in Int
    BY <2>1, OrderAssumption DEF Init
  <2>3. SumOver(f, Lines) = SumOver(Price, Lines)
    BY <2>2, SetsAssumption, SumOverSame
  <2>4. PICK T \in SUBSET Lines : T = Lines \ Gone
    OBVIOUS
  <2>5. TotalsOf(T) <= TotalsOf(Lines)
    BY TotalsShrink
  <2>6. TotalsOf(T) \in Nat /\ TotalsOf(Lines) \in Nat
    BY TotalsNat
  <2>7. total = TotalsOf(Lines) + Extras
    BY <2>1, <2>3 DEF Init, Invoice, TotalsOf
  <2>8. QED BY <2>4, <2>5, <2>6, <2>7, OrderAssumption
<1>4. \A l \in Lines : ~line[l].delivered
  BY DEF Init
<1>5. QED BY <1>1, <1>2, <1>3, <1>4 DEF CashInv

\* What first deliveries collect for a line.
LEMMA CollectedWithin ==
  ASSUME TypeOK, ParcelsWithinLine, NEW l \in Lines, NEW X \in SUBSET Lines, Covered(X),
         \A p \in Delivered : ~parcel[p].replaces /\ Carried(p) \subseteq NotCancelled
  PROVE  2 * CollectedOn(l) <= 2 * (IF l \in X THEN 0 ELSE line[l].total) + VisitsOn(l)
<1>1. PICK n \in Nat \ {0}, worth \in Nat, c \in Nat, d \in Nat, v \in Nat :
        /\ n = line[l].quantity /\ worth = line[l].total
        /\ c = CollectedOn(l) /\ d = UnitsOn(l) /\ v = VisitsOn(l)
  <2>1. line[l].quantity \in Nat \ {0} /\ line[l].total \in Nat
    BY OrderAssumption DEF TypeOK, LineType
  <2>2. CollectedOn(l) \in Nat /\ UnitsOn(l) \in Nat /\ VisitsOn(l) \in Nat
    BY DeliveredSums
  <2>3. QED BY <2>1, <2>2
<1>2. d <= n
  <2>1. PICK F \in SUBSET Parcels : F = FirstParcels
    BY DEF FirstParcels, Live
  <2>2. PICK S \in SUBSET F : S = Delivered
    BY <2>1 DEF FirstParcels, Live, Delivered
  <2>3. PICK f : f = [p \in Parcels |-> parcel[p].items[l]]
    OBVIOUS
  <2>4. IsFiniteSet(F) /\ \A p \in F : f[p] \in Nat
    BY <2>3, CarriedNat DEF TypeOK
  <2>5. SumOver(f, S) <= SumOver(f, F)
    BY <2>4, SumOverSubset
  <2>6. SumOver(f, F) <= n /\ SumOver(f, F) \in Nat
    <3>1. SumOver(f, F) <= n
      BY <1>1, <2>1, <2>3 DEF ParcelsWithinLine, OnParcels
    <3>2. QED BY <2>4, <3>1, SumOverNat
  <2>7. d = SumOver(f, S)
    BY <1>1, <2>2, <2>3 DEF UnitsOn, OnParcels
  <2>8. QED BY <2>5, <2>6, <2>7
<1>3. CASE l \notin X
  <2>1. 2 * n * c <= 2 * worth * d + n * v
    BY <1>1, SharesOfLine
  <2>2. 2 * c <= 2 * worth + v
    BY <1>2, <2>1, CappedShare
  <2>3. QED BY <1>1, <1>3, <2>2
<1>4. CASE l \in X /\ Small(l)
  <2>1. IsSmall(n, worth, c, d, v)
    BY <1>1, <1>4 DEF Small
  <2>2. 2 * c <= v
    BY <1>2, <2>1, SmallShare
  <2>3. QED BY <1>1, <1>4, <2>2
<1>5. CASE l \in X /\ l \in Gone
  <2>1. PICK S \in SUBSET Parcels : S = Delivered /\ IsFiniteSet(S)
    BY DeliveredSums
  <2>2. PICK f : f = ShareOf(l)
    OBVIOUS
  <2>3. ASSUME NEW p \in S
        PROVE  f[p] = 0
    <3>1. l \notin Carried(p)
      BY <1>5, <2>1 DEF Gone, NotCancelled
    <3>2. parcel[p].items[l] = 0
      BY <3>1, ShareNat DEF Carried
    <3>3. QED BY <2>2, <3>2, ShareNat
  <2>4. SumOver(f, S) = Cardinality({})
    <3>1. /\ {} \in SUBSET S
          /\ \A p \in {} : f[p] = 1
          /\ \A p \in S \ {} : f[p] = 0
      BY <2>3
    <3>2. QED BY <2>1, <3>1, SumOverMarks
  <2>5. c = 0
    BY <1>1, <2>1, <2>2, <2>4, FS_EmptySet DEF CollectedOn
  <2>6. QED BY <1>1, <1>5, <2>5
<1>6. QED BY <1>3, <1>4, <1>5 DEF Covered

LEMMA CashBounded ==
  ASSUME TypeOK, ParcelsWithinLine, CashInv
  PROVE  CashWithinInvoice
<1> SUFFICES ASSUME \A p \in Delivered : ~parcel[p].replaces /\ Carried(p) \subseteq NotCancelled
             PROVE  2 * cash <= 2 * total + Roundings
  BY DEF CashWithinInvoice
<1>1. PICK f, v : /\ f = [l \in Lines |-> CollectedOn(l)]
                  /\ v = [l \in Lines |-> VisitsOn(l)]
  OBVIOUS
<1>2. \A l \in Lines : f[l] \in Nat /\ v[l] \in Nat
  BY <1>1, DeliveredSums
<1>3. SumOver(v, Lines) = Roundings /\ Roundings \in Nat
  <2>1. SumOver(v, Lines) = Roundings
    BY <1>1, VisitsAreRoundings
  <2>2. \A l \in Lines : v[l] \in Nat
    BY <1>2
  <2>3. QED BY <2>1, <2>2, SetsAssumption, SumOverNat
<1>4. CASE cash = 0
  BY <1>3, <1>4 DEF TypeOK
<1>5. CASE cash # 0
  <2>1. PICK X \in SUBSET Lines : Covered(X)
    BY <1>5 DEF CashInv, TypeOK
  <2>2. PICK R \in SUBSET Lines : R = Lines \ X
    OBVIOUS
  <2>3. PICK t, k, g, h, u :
          /\ t = [l \in Lines |-> line[l].total]
          /\ k = [l \in Lines |-> IF l \in X THEN 0 ELSE 2 * t[l]]
          /\ g = [l \in Lines |-> 2 * f[l]]
          /\ h = [l \in Lines |-> k[l] + v[l]]
          /\ u = [l \in Lines |-> 2 * t[l]]
    OBVIOUS
  <2>4. \A l \in Lines : t[l] \in Nat
    BY <2>3 DEF TypeOK, LineType
  <2>5. \A l \in Lines : k[l] \in Int /\ g[l] \in Int /\ h[l] \in Int /\ u[l] \in Int
    BY <1>2, <2>3, <2>4
  <2>6. \A l \in Lines : g[l] <= h[l]
    <3>1. ASSUME NEW l \in Lines
          PROVE  g[l] <= h[l]
      <4>1. 2 * CollectedOn(l) <= 2 * (IF l \in X THEN 0 ELSE line[l].total) + VisitsOn(l)
        BY <2>1, CollectedWithin
      <4>2. f[l] = CollectedOn(l) /\ v[l] = VisitsOn(l) /\ t[l] = line[l].total
        BY <1>1, <2>3
      <4>3. QED BY <1>2, <2>3, <2>4, <4>1, <4>2
    <3>2. QED BY <3>1
  <2>7. SumOver(g, Lines) = 2 * SumOver(f, Lines)
    <3>1. (\A l \in Lines : f[l] \in Int) /\ (\A l \in Lines : g[l] = 2 * f[l])
      BY <1>2, <2>3
    <3>2. QED BY <3>1, SetsAssumption, SumOverTimes
  <2>8. SumOver(g, Lines) <= SumOver(h, Lines)
    <3>1. (\A l \in Lines : g[l] \in Int) /\ (\A l \in Lines : h[l] \in Int)
      BY <2>5
    <3>2. QED BY <2>6, <3>1, SetsAssumption, SumOverAtMost
  <2>9. SumOver(h, Lines) = SumOver(k, Lines) + SumOver(v, Lines)
    <3>1. /\ \A l \in Lines : k[l] \in Int
          /\ \A l \in Lines : v[l] \in Int
          /\ \A l \in Lines : h[l] = k[l] + v[l]
      BY <1>2, <2>3, <2>5
    <3>2. QED BY <3>1, SetsAssumption, SumOverPlus
  <2>10. SumOver(k, Lines) <= SumOver(u, R)
    <3>1. /\ \A l \in Lines : k[l] \in Int
          /\ \A l \in R : u[l] \in Int
          /\ \A l \in R : k[l] <= u[l]
          /\ \A l \in Lines \ R : k[l] <= 0
      BY <2>2, <2>3, <2>4, <2>5
    <3>2. QED BY <3>1, SetsAssumption, SumOverWithin
  <2>11. SumOver(u, R) = 2 * SumOver(t, R)
    <3>1. (\A l \in R : t[l] \in Int) /\ (\A l \in R : u[l] = 2 * t[l])
      BY <2>3, <2>4
    <3>2. IsFiniteSet(R)
      BY SetsAssumption, FS_Subset
    <3>3. QED BY <3>1, <3>2, SumOverTimes
  <2>12. SumOver(t, R) = TotalsOf(R) /\ SumOver(f, Lines) = Shares
    BY <1>1, <2>3 DEF TotalsOf, Shares
  <2>13. SumOver(k, Lines) \in Int
    <3>1. \A l \in Lines : k[l] \in Int
      BY <2>5
    <3>2. QED BY <3>1, SetsAssumption, SumOverInt
  <2>14. PICK shares \in Nat, covered \in Nat : shares = Shares /\ covered = TotalsOf(R)
    BY SharesNat, TotalsNat
  <2>15. cash <= shares + (total - covered)
    BY <2>1, <2>2, <2>14 DEF Covered
  <2>16. 2 * shares <= 2 * covered + Roundings
    BY <1>3, <2>7, <2>8, <2>9, <2>10, <2>11, <2>12, <2>13, <2>14
  <2>17. QED BY <1>3, <2>15, <2>16 DEF TypeOK
<1>6. QED BY <1>4, <1>5

\* Cash on delivery collects the invoice and no more than half a unit for each
\* line of a parcel (onDelivered), whatever the order of deliveries, partial
\* and whole cancellations, parcels that come back and returns.
THEOREM CashAlwaysWithin == Spec => []CashWithinInvoice
<1>1. TypeOK /\ Opened /\ [Next]_vars => Opened'
  BY OpenedStep
<1>2. TypeOK /\ TypeOK' /\ StatusFollowsRows /\ Opened /\ CashInv /\ [Next]_vars => CashInv'
  BY CashStep
<1>3. TypeOK /\ ParcelsWithinLine /\ CashInv => CashWithinInvoice
  BY CashBounded
<1>4. QED BY <1>1, <1>2, <1>3, OpenedInit, CashInit, TypeCorrect, StatusAlwaysFollows,
             ParcelsAlwaysWithin, PTL DEF Spec
=============================================================================
