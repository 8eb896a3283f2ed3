----------------------------- MODULE Fulfilment -----------------------------
(***************************************************************************)
(* One confirmed order on its way to the customer and back: parcels         *)
(* (orders/shipments.ts), the manual steps and cancellations that remain    *)
(* (orders/transitions.ts, orders/cancellation.ts), returns                 *)
(* (returns/service.ts), the refunds of returns and cancellations as sums   *)
(* (refunds/service.ts, refunds/cap.ts) and the order status that is        *)
(* derived from them all (orders/derived.ts).                               *)
(*                                                                         *)
(* Every handler locks the order and then reads, so it is one step; only    *)
(* transitionReturnInTx reads its return first and locks second: LoadReturn *)
(* and the action that serves it.  Requests that are asked of returns are   *)
(* slots of "Threads".  Refunds that fail or are withdrawn, and those an   *)
(* operator creates for the order and not for a return, are in Refunds,     *)
(* stock balances in OrderStock; here the units put back are counted.       *)
(* Amounts are whole units (the code's paise), shipping and COD fee are    *)
(* one sum, and the pickup fee, which only lowers a refund, is left out.    *)
(***************************************************************************)
EXTENDS Sums, FiniteSets

CONSTANTS
  Lines,
  Parcels,      \* the shipments the order may ever get
  Returns,      \* the return requests the order may ever get
  Threads,      \* requests on returns that may be in flight
  MaxUnits,     \* bound: units of a line
  Bought,       \* OrderItem.quantity at checkout
  Price,        \* OrderItem.lineTotalPaise at checkout
  Extras        \* shipping and COD fee

ASSUME SetsAssumption ==
  /\ IsFiniteSet(Lines) /\ Lines # {}
  /\ IsFiniteSet(Parcels) /\ IsFiniteSet(Returns)
ASSUME OrderAssumption ==
  /\ MaxUnits \in Nat
  /\ Bought \in [Lines -> 1..MaxUnits]
  /\ Price \in [Lines -> Nat]
  /\ Extras \in Nat

VARIABLES
  cod,        \* Order.paymentMethod is COD
  status,     \* Order.status
  total,      \* Order.totalPaise
  line,       \* OrderItem
  parcel,     \* Shipment and its items
  rma,        \* ReturnRequest and its refund
  tx,         \* what requests on returns have read
  cash,       \* SUCCEEDED COD charges
  promised,   \* refunds of cancellations
  settled,    \* those of them that are COMPLETED
  putBack,    \* history: units of a line that cancellations restocked
  restocks,   \* history: how often the units of a return were restocked
  stale       \* history: a return was moved on a row that had changed

moneyVars == <<cash, promised, settled>>
historyVars == <<putBack, restocks, stale>>
vars == <<cod, status, total, line, parcel, rma, tx, moneyVars, historyVars>>

----------------------------------------------------------------------------
Larger(a, b) == IF a > b THEN a ELSE b
Smaller(a, b) == IF a < b THEN a ELSE b

\* Math.round of the share of q units in n.
Rounded(sum, q, n) == (2 * sum * q + n) \div (2 * n)

\* unitShare: floored.
UnitShare(sum, n, q) == IF q >= n THEN sum ELSE (sum * q) \div n

Invoice == SumOver(Price, Lines) + Extras

Nothing == [l \in Lines |-> 0]
NoParcel == [status |-> "ABSENT", items |-> Nothing, replaces |-> FALSE]
NoReturn(l) ==
  [status |-> "ABSENT", line |-> l, quantity |-> 0, fault |-> FALSE, replacement |-> FALSE,
   disposition |-> "NONE", received |-> FALSE, amount |-> 0, repaid |-> FALSE]
Idle == [pc |-> "idle"]

Init ==
  /\ cod \in BOOLEAN
  /\ status = "CONFIRMED"
  /\ total = Invoice
  /\ line = [l \in Lines |-> [state |-> "ACTIVE", quantity |-> Bought[l], total |-> Price[l],
                              shipped |-> FALSE, delivered |-> FALSE, returned |-> 0]]
  /\ parcel = [p \in Parcels |-> NoParcel]
  /\ rma = [r \in Returns |-> NoReturn(CHOOSE l \in Lines : TRUE)]
  /\ tx = [t \in Threads |-> Idle]
  /\ cash = 0 /\ promised = 0 /\ settled = 0
  /\ putBack = Nothing
  /\ restocks = [r \in Returns |-> 0]
  /\ stale = FALSE

----------------------------------------------------------------------------
(* deriveOrderState and the sums it is given.                               *)

Paid == IF cod THEN cash ELSE Invoice

Promised == promised + SumOver([r \in Returns |-> rma[r].amount], Returns)
Repaid == settled + SumOver([r \in Returns |-> IF rma[r].repaid THEN rma[r].amount ELSE 0],
                            Returns)

\* refundableRemaining
Refundable == Larger(0, Paid - Promised)

\* OPEN_RETURN_STATUSES
Open == {"REQUESTED", "UNDER_REVIEW", "APPROVED", "PICKUP_SCHEDULED", "RECEIVED",
         "QC_PASSED", "QC_FAILED", "REFUND_INITIATED"}

NotCancelled == { l \in Lines : line[l].state # "CANCELLED" }
AllDelivered == \A l \in NotCancelled : line[l].delivered
AllReturned == \A l \in NotCancelled : line[l].returned >= line[l].quantity
Requested == \E r \in Returns : rma[r].status \in Open
SomeParcel(statuses) == \E p \in Parcels : parcel[p].status \in statuses

\* What is derived wins in this order; CANCELLED is never derived again, and
\* an order with nothing on the road keeps its manual status.
Derived(current) ==
  IF current = "CANCELLED" \/ NotCancelled = {} THEN "CANCELLED"
  ELSE IF AllReturned /\ ~Requested
       THEN IF Paid > 0 /\ Repaid >= Paid THEN "REFUNDED" ELSE "RETURNED"
  ELSE IF Requested /\ (AllDelivered \/ current \in {"DELIVERED", "RETURN_REQUESTED"})
       THEN "RETURN_REQUESTED"
  ELSE IF AllDelivered THEN "DELIVERED"
  ELSE IF SomeParcel({"OUT_FOR_DELIVERY"}) THEN "OUT_FOR_DELIVERY"
  ELSE IF SomeParcel({"SHIPPED", "IN_TRANSIT", "DELIVERED", "RETURNED_TO_ORIGIN"})
       THEN "SHIPPED"
  ELSE IF current \in {"CONFIRMED", "PROCESSING", "PACKED"} THEN current
  ELSE "PACKED"

\* Mutant: derived from the rows as the handler found them.
Recompute_Before(from) == status' = Derived(from)

\* recomputeOrderDerivedStatus, on the rows as the handler leaves them.
Recompute(from) == \E current \in {from} : status' = Derived(current)'

----------------------------------------------------------------------------
(* createShipment, updateShipmentStatus and the PACKED -> SHIPPED step.     *)

Live == { p \in Parcels : parcel[p].status \notin {"ABSENT", "CANCELLED"} }
OnParcels(l, ps) == SumOver([p \in Parcels |-> parcel[p].items[l]], ps)

\* unshippedQuantities
Unshipped(l) == Larger(0, line[l].quantity - OnParcels(l, Live))

Carried(p) == { l \in Lines : parcel[p].items[l] > 0 }
Stamped(ls) == [l \in Lines |-> IF l \in ls THEN [line[l] EXCEPT !.shipped = TRUE] ELSE line[l]]

\* createShipmentInTx; handed is values.markShipped, which runs onShipped.
CreateParcel(p, items, handed) ==
  LET ls == { l \in Lines : items[l] > 0 }
  IN  /\ status \in {"CONFIRMED", "PROCESSING", "PACKED", "SHIPPED", "OUT_FOR_DELIVERY"}
      /\ parcel[p].status = "ABSENT"
      /\ ls # {}
      /\ \A l \in ls : line[l].state = "ACTIVE" /\ items[l] <= Unshipped(l)
      /\ parcel' = [parcel EXCEPT ![p] = [status |-> IF handed THEN "SHIPPED" ELSE "PENDING",
                                          items |-> items, replaces |-> FALSE]]
      /\ line' = IF handed THEN Stamped(ls) ELSE line
      /\ UNCHANGED <<cod, total, rma, tx, moneyVars, historyVars>>
      /\ Recompute(status)

ActiveLines == { l \in Lines : line[l].state = "ACTIVE" }

\* The SHIPPED case of transitionInTx: one parcel for all that is left, or
\* every parcel that is ready goes to the courier.
ShipOrder(p) ==
  LET left == [l \in Lines |-> IF l \in ActiveLines THEN Unshipped(l) ELSE 0]
  IN  /\ status = "PACKED"
      /\ \/ left # Nothing /\ CreateParcel(p, left, TRUE)
         \/ /\ left = Nothing /\ Live # {}
            /\ parcel' = [q \in Parcels |->
                            IF parcel[q].status \in {"PENDING", "PACKED"}
                            THEN [parcel[q] EXCEPT !.status = "SHIPPED"] ELSE parcel[q]]
            /\ line' = Stamped(ActiveLines)
            /\ UNCHANGED <<cod, total, rma, tx, moneyVars, historyVars>>
            /\ Recompute(status)

\* SHIPMENT_TRANSITIONS
ShipmentTransitions ==
  ({"PENDING"} \X {"PACKED", "SHIPPED", "CANCELLED"})
  \cup ({"PACKED"} \X {"SHIPPED", "CANCELLED"})
  \cup ({"SHIPPED"} \X {"IN_TRANSIT", "OUT_FOR_DELIVERY", "DELIVERED", "RETURNED_TO_ORIGIN"})
  \cup ({"IN_TRANSIT"} \X {"OUT_FOR_DELIVERY", "DELIVERED", "RETURNED_TO_ORIGIN"})
  \cup ({"OUT_FOR_DELIVERY"} \X {"DELIVERED", "IN_TRANSIT", "RETURNED_TO_ORIGIN"})

\* The order's own status is not asked for.
MoveParcel(p, to) ==
  /\ <<parcel[p].status, to>> \in ShipmentTransitions /\ to # "DELIVERED"
  /\ parcel' = [parcel EXCEPT ![p].status = to]
  /\ line' = IF to = "SHIPPED" THEN Stamped(Carried(p)) ELSE line
  /\ UNCHANGED <<cod, total, rma, tx, moneyVars, historyVars>>
  /\ Recompute(status)

\* The parcel is DELIVERED already when its units are summed up, and is added
\* once more.
ReachedCustomer(p, l) ==
  LET sum == OnParcels(l, { q \in Parcels : q = p \/ parcel[q].status = "DELIVERED" })
  IN  sum + parcel[p].items[l] >= line[l].quantity

\* Mutant: every parcel collects the shipping and the fee.
Collected_Always(p) ==
  LET shares == [l \in Lines |-> Rounded(line[l].total, parcel[p].items[l],
                                         Larger(1, line[l].quantity))]
      invoiced == SumOver([l \in Lines |-> line[l].total], NotCancelled)
  IN  SumOver(shares, Lines) + Larger(0, total - invoiced)

\* Shipping and fee ride on the first parcel that collects anything.
Collected(p) ==
  LET shares == [l \in Lines |-> Rounded(line[l].total, parcel[p].items[l],
                                         Larger(1, line[l].quantity))]
      invoiced == SumOver([l \in Lines |-> line[l].total], NotCancelled)
  IN  SumOver(shares, Lines) + (IF cash = 0 THEN Larger(0, total - invoiced) ELSE 0)

\* onDelivered
DeliverParcel(p) ==
  /\ <<parcel[p].status, "DELIVERED">> \in ShipmentTransitions
  /\ parcel' = [parcel EXCEPT ![p].status = "DELIVERED"]
  /\ line' = [l \in Lines |-> IF l \in Carried(p) /\ ReachedCustomer(p, l)
                              THEN [line[l] EXCEPT !.delivered = TRUE] ELSE line[l]]
  /\ cash' = IF cod THEN cash + Collected(p) ELSE cash
  /\ UNCHANGED <<cod, total, rma, tx, promised, settled, historyVars>>
  /\ Recompute(status)

----------------------------------------------------------------------------
(* Manual steps, cancellations and parcels that come back.                  *)

Advance ==
  /\ status \in {"CONFIRMED", "PROCESSING"}
  /\ status' = IF status = "CONFIRMED" THEN "PROCESSING" ELSE "PACKED"
  /\ UNCHANGED <<cod, total, line, parcel, rma, tx, moneyVars, historyVars>>

\* applyCancellation of these lines: each is restocked whole, and whatever
\* was paid and not refunded is promised back.
CancelLines(ls) ==
  /\ putBack' = [l \in Lines |-> putBack[l] + (IF l \in ls THEN line[l].quantity ELSE 0)]
  /\ line' = [l \in Lines |-> IF l \in ls THEN [line[l] EXCEPT !.state = "CANCELLED"]
                              ELSE line[l]]
  /\ promised' = promised + Refundable
  /\ UNCHANGED <<cod, total, parcel, rma, tx, cash, settled, restocks, stale>>

\* Mutant: a line that is on its way is not cancelled.
CancelOrder_SpareParcels ==
  /\ status \in {"CONFIRMED", "PROCESSING", "PACKED"}
  /\ CancelLines({ l \in ActiveLines : OnParcels(l, Live) = 0 })
  /\ status' = "CANCELLED"

CancelOrder ==
  /\ status \in {"CONFIRMED", "PROCESSING", "PACKED"}
  /\ CancelLines({ l \in ActiveLines : ~line[l].shipped })
  /\ status' = "CANCELLED"

\* Mutant: a line that a parcel waits for can be cancelled.
Cancellable_Unshipped(l, q) ==
  line[l].state = "ACTIVE" /\ ~line[l].shipped /\ q \in 1..line[l].quantity

Cancellable(l, q) ==
  /\ line[l].state = "ACTIVE" /\ ~line[l].shipped /\ OnParcels(l, Live) = 0
  /\ q \in 1..line[l].quantity

\* cancelOrderItem: the order's total follows its active lines, and what was
\* paid beyond it is promised back.
CancelItem(l, q) ==
  LET whole == q = line[l].quantity
      value == IF whole THEN line[l].total ELSE Rounded(line[l].total, q, line[l].quantity)
      active == SumOver([x \in Lines |-> line[x].total], ActiveLines)
      rest == active - value + Larger(0, total - active)
      last == whole /\ ActiveLines = {l}
  IN  /\ status \in {"CONFIRMED", "PROCESSING", "PACKED"}
      /\ Cancellable(l, q)
      /\ putBack' = [putBack EXCEPT ![l] = @ + q]
      /\ line' = IF whole THEN [line EXCEPT ![l].state = "CANCELLED"]
                 ELSE [line EXCEPT ![l].quantity = @ - q, ![l].total = @ - value]
      /\ total' = IF last THEN 0 ELSE rest
      /\ promised' = promised + (IF last THEN Refundable
                                 ELSE Smaller(Refundable, Larger(0, Paid - rest)))
      /\ UNCHANGED <<cod, parcel, rma, tx, cash, settled, restocks, stale>>
      /\ IF last THEN status' = "CANCELLED" ELSE Recompute(status)

\* If another line has reached the customer, the lines of this parcel; if
\* not, the whole order.
OtherDelivered(p) == \E l \in ActiveLines \ Carried(p) : line[l].delivered

\* Mutant: whatever has been cancelled before.
RtoLines_Again(p) == IF OtherDelivered(p) THEN Carried(p) ELSE Lines

RtoLines(p) == IF OtherDelivered(p) THEN ActiveLines \cap Carried(p) ELSE ActiveLines

\* rtoReceived
ReceiveBack(p) ==
  /\ parcel[p].status = "RETURNED_TO_ORIGIN"
  /\ CancelLines(RtoLines(p))
  /\ Recompute(IF OtherDelivered(p) THEN "DELIVERED" ELSE "CANCELLED")

----------------------------------------------------------------------------
(* createReturnRequest and transitionReturn.                                *)

\* Mutant: a unit that another request has claimed is returnable.
Returnable_Unclaimed(l) == Larger(0, line[l].quantity - line[l].returned)

\* returnableQuantity: what is RECEIVED or earlier is claimed.
Claims == {"REQUESTED", "UNDER_REVIEW", "APPROVED", "PICKUP_SCHEDULED", "RECEIVED"}
ClaimsOn(l) == { r \in Returns : rma[r].line = l /\ rma[r].status \in Claims }
Units(rs) == SumOver([r \in Returns |-> rma[r].quantity], rs)
Returnable(l) == Larger(0, line[l].quantity - line[l].returned - Units(ClaimsOn(l)))

\* fault: the reason of the return earns the customer the shipping.
OpenReturn(r, l, q, fault) ==
  /\ rma[r].status = "ABSENT"
  /\ line[l].state # "CANCELLED" /\ line[l].delivered
  /\ q \in 1..Returnable(l)
  /\ rma' = [rma EXCEPT ![r] = [NoReturn(l) EXCEPT !.status = "REQUESTED",
                                                   !.quantity = q, !.fault = fault]]
  /\ UNCHANGED <<cod, total, line, parcel, tx, moneyVars, historyVars>>
  /\ Recompute(status)

Row(r) == [return |-> rma[r], line |-> line[rma[r].line]]

\* loadRma, before the lock.
LoadReturn(t, r) ==
  /\ tx[t] = Idle
  /\ rma[r].status # "ABSENT"
  /\ tx' = [tx EXCEPT ![t] = [pc |-> "loaded", id |-> r, row |-> Row(r)]]
  /\ UNCHANGED <<cod, status, total, line, parcel, rma, moneyVars, historyVars>>

\* RETURN_REQUEST_TRANSITIONS
ReturnTransitions ==
  ({"REQUESTED"} \X {"UNDER_REVIEW", "APPROVED", "REJECTED", "CANCELLED"})
  \cup ({"UNDER_REVIEW"} \X {"APPROVED", "REJECTED", "CANCELLED"})
  \cup ({"APPROVED"} \X {"PICKUP_SCHEDULED", "CANCELLED"})
  \cup ({"PICKUP_SCHEDULED"} \X {"RECEIVED", "CANCELLED"})
  \cup ({"RECEIVED"} \X {"QC_PASSED", "QC_FAILED"})
  \cup ({"QC_PASSED"} \X {"REFUND_INITIATED", "REPLACEMENT_SHIPPED"})
  \cup ({"QC_FAILED"} \X {"REFUND_INITIATED", "CLOSED"})
  \cup { <<"REFUND_INITIATED", "REFUND_COMPLETED">>, <<"REFUND_COMPLETED", "CLOSED">>,
         <<"REPLACEMENT_SHIPPED", "CLOSED">> }

\* What every transition does: the target is legal from the row that was read
\* (assertTarget), and the row is written whatever it is by now.
Transition(t, to) ==
  /\ tx[t].pc = "loaded"
  /\ <<tx[t].row.return.status, to>> \in ReturnTransitions
  /\ tx' = [tx EXCEPT ![t] = Idle]
  /\ stale' = (stale \/ tx[t].row # Row(tx[t].id))

KeepUnits == UNCHANGED <<cod, total, line, parcel, moneyVars, putBack, restocks>>

\* The transitions that write no more than the return; a rejected one closes
\* at once.
ReviewReturn(t, to, replacement) ==
  LET seen == tx[t].row.return
      r == tx[t].id
  IN  /\ Transition(t, to)
      /\ to \in {"UNDER_REVIEW", "APPROVED", "REJECTED", "PICKUP_SCHEDULED", "RECEIVED",
                 "REFUND_COMPLETED", "CLOSED", "CANCELLED"}
      /\ to = "CANCELLED" => ~seen.received
      /\ to = "REFUND_COMPLETED" => rma[r].repaid
      /\ rma' = [rma EXCEPT
                   ![r].status = IF to = "REJECTED" THEN "CLOSED" ELSE to,
                   ![r].replacement = IF to = "APPROVED" THEN replacement ELSE @,
                   ![r].received = @ \/ to = "RECEIVED"]
      /\ KeepUnits
      /\ Recompute(status)

\* Mutant: the units of the return are not added to those of earlier ones.
Returned_Last(seen) ==
  [line EXCEPT ![seen.return.line].returned = seen.return.quantity]

\* markUnitsReturned, from the line that was read.
Returned(seen) ==
  LET now == Smaller(seen.line.quantity, seen.line.returned + seen.return.quantity)
      full == now >= seen.line.quantity /\ seen.line.state = "ACTIVE"
  IN  [line EXCEPT ![seen.return.line].returned = now,
                   ![seen.return.line].state = IF full THEN "RETURNED" ELSE @]

\* QC_PASSED, and QC_FAILED with its disposition (applyDisposition).
InspectReturn(t, to, disposition) ==
  LET r == tx[t].id
  IN  /\ Transition(t, to)
      /\ \/ to = "QC_PASSED" /\ disposition = "NONE"
         \/ to = "QC_FAILED" /\ disposition # "NONE"
      /\ rma' = [rma EXCEPT ![r].status = to,
                            ![r].disposition = IF to = "QC_FAILED" THEN disposition ELSE @]
      /\ restocks' = IF disposition \in {"NONE", "RESTOCK"}
                     THEN [restocks EXCEPT ![r] = @ + 1] ELSE restocks
      /\ line' = IF disposition = "RETURN_TO_CUSTOMER" THEN line ELSE Returned(tx[t].row)
      /\ UNCHANGED <<cod, total, parcel, moneyVars, putBack>>
      /\ Recompute(status)

RepaidOn(l) ==
  SumOver([r \in Returns |-> rma[r].amount], { r \in Returns : rma[r].line = l /\ rma[r].repaid })

\* Mutant: the refund of a return is capped by the order alone.
RefundCap_OrderOnly(r) == Refundable

\* refundCapFor a return.
RefundCap(r) ==
  LET l == rma[r].line
      whole == \A x \in NotCancelled :
                 line[x].returned + (IF x = l THEN rma[r].quantity ELSE 0) >= line[x].quantity
      shipping == IF rma[r].fault \/ whole THEN Extras ELSE 0
  IN  Smaller(Refundable,
              Larger(0, UnitShare(line[l].total, line[l].quantity, rma[r].quantity)
                        - RepaidOn(l) + shipping))

\* applyRefundToOrder on a line whose COMPLETED refunds add up to repaid.
Applied(l, repaid) ==
  LET full == line[l].returned >= line[l].quantity /\ line[l].state # "CANCELLED"
  IN  [line EXCEPT ![l].state = IF repaid > 0 /\ full THEN "REFUNDED" ELSE @]

\* createRefundInTx for a return, which has one refund and no more; its own
\* handler moves it on.
BearRefund(r, amount, to) ==
  /\ rma[r].amount = 0
  /\ amount \in 1..RefundCap(r)
  /\ rma' = [rma EXCEPT ![r].status = to, ![r].amount = amount]
  /\ line' = Applied(rma[r].line, RepaidOn(rma[r].line))
  /\ UNCHANGED <<cod, total, parcel, moneyVars, putBack, restocks>>
  /\ Recompute(status)

\* REFUND_INITIATED
RefundReturn(t, amount) ==
  LET seen == tx[t].row.return
  IN  /\ Transition(t, "REFUND_INITIATED")
      /\ seen.status = "QC_FAILED" => seen.disposition = "PARTIAL_REFUND"
      /\ seen.status = "QC_PASSED" => ~seen.replacement
      /\ BearRefund(tx[t].id, amount, "REFUND_INITIATED")

\* createRefund, an operator's own decision: the return is not asked how far it
\* has come, and stays there.
CreateRefund(r, amount) ==
  /\ rma[r].status # "ABSENT"
  /\ BearRefund(r, amount, rma[r].status)
  /\ UNCHANGED <<tx, stale>>

\* REPLACEMENT_SHIPPED: createReplacementShipment.
ReplaceReturn(t, p) ==
  LET seen == tx[t].row.return
      r == tx[t].id
  IN  /\ Transition(t, "REPLACEMENT_SHIPPED")
      /\ seen.replacement
      /\ parcel[p].status = "ABSENT"
      /\ parcel' = [parcel EXCEPT ![p] =
                      [status |-> "SHIPPED", replaces |-> TRUE,
                       items |-> [Nothing EXCEPT ![seen.line] = seen.quantity]]]
      /\ rma' = [rma EXCEPT ![r].status = "REPLACEMENT_SHIPPED"]
      /\ UNCHANGED <<cod, total, line, moneyVars, putBack, restocks>>
      /\ Recompute(status)

\* A refusal, or a crash: nothing was written.
DropRequest(t) ==
  /\ tx[t] # Idle
  /\ tx' = [tx EXCEPT ![t] = Idle]
  /\ UNCHANGED <<cod, status, total, line, parcel, rma, moneyVars, historyVars>>

----------------------------------------------------------------------------
(* Refunds that complete: completeRefund.                                   *)

\* advanceReturnAfterRefund and applyRefundToOrder.
SettleReturn(r) ==
  /\ rma[r].amount > 0 /\ ~rma[r].repaid
  /\ rma' = [rma EXCEPT ![r].repaid = TRUE,
                        ![r].status = IF @ = "REFUND_INITIATED" THEN "REFUND_COMPLETED" ELSE @]
  /\ line' = Applied(rma[r].line, RepaidOn(rma[r].line) + rma[r].amount)
  /\ UNCHANGED <<cod, total, parcel, tx, moneyVars, historyVars>>
  /\ Recompute(status)

SettleCancellations ==
  /\ settled < promised
  /\ settled' = promised
  /\ UNCHANGED <<cod, total, line, parcel, rma, tx, cash, promised, historyVars>>
  /\ Recompute(status)

----------------------------------------------------------------------------
Contents == [Lines -> 0..MaxUnits]
ShipmentStatus == {"PENDING", "PACKED", "SHIPPED", "IN_TRANSIT", "OUT_FOR_DELIVERY",
                   "DELIVERED", "RETURNED_TO_ORIGIN", "CANCELLED"}
ReturnStatus == Open \cup {"REFUND_COMPLETED", "REPLACEMENT_SHIPPED", "CLOSED",
                           "REJECTED", "CANCELLED"}
Dispositions == {"NONE", "RESTOCK", "DISPOSE", "PARTIAL_REFUND", "RETURN_TO_CUSTOMER"}

Ship(p) ==
  \/ \E items \in Contents, handed \in BOOLEAN : CreateParcel(p, items, handed)
  \/ ShipOrder(p)
  \/ \E to \in ShipmentStatus : MoveParcel(p, to)
  \/ DeliverParcel(p)
  \/ ReceiveBack(p)

Serve(t) ==
  \/ \E r \in Returns : LoadReturn(t, r)
  \/ \E to \in ReturnStatus, replacement \in BOOLEAN : ReviewReturn(t, to, replacement)
  \/ \E to \in ReturnStatus, disposition \in Dispositions : InspectReturn(t, to, disposition)
  \/ \E amount \in 1..Invoice : RefundReturn(t, amount)
  \/ \E p \in Parcels : ReplaceReturn(t, p)
  \/ DropRequest(t)

Next ==
  \/ Advance \/ CancelOrder
  \/ \E l \in Lines, q \in 1..MaxUnits : CancelItem(l, q)
  \/ \E p \in Parcels : Ship(p)
  \/ \E r \in Returns, l \in Lines, q \in 1..MaxUnits, fault \in BOOLEAN :
       OpenReturn(r, l, q, fault)
  \/ \E t \in Threads : Serve(t)
  \/ \E r \in Returns, amount \in 1..Invoice : CreateRefund(r, amount)
  \/ \E r \in Returns : SettleReturn(r)
  \/ SettleCancellations

Spec == Init /\ [][Next]_vars

----------------------------------------------------------------------------
(* Properties.                                                              *)

OrderStatus == {"CONFIRMED", "PROCESSING", "PACKED", "SHIPPED", "OUT_FOR_DELIVERY",
                "DELIVERED", "RETURN_REQUESTED", "RETURNED", "CANCELLED", "REFUNDED"}

LineType == [state : {"ACTIVE", "CANCELLED", "RETURNED", "REFUNDED"},
             quantity : 1..MaxUnits, total : Nat, shipped : BOOLEAN, delivered : BOOLEAN,
             returned : 0..MaxUnits]

ParcelType == [status : ShipmentStatus \cup {"ABSENT"}, items : Contents, replaces : BOOLEAN]

ReturnType == [status : ReturnStatus \cup {"ABSENT"}, line : Lines, quantity : 0..MaxUnits,
               fault : BOOLEAN, replacement : BOOLEAN, disposition : Dispositions,
               received : BOOLEAN, amount : Nat, repaid : BOOLEAN]

TxType == [pc : {"loaded"}, id : Returns, row : [return : ReturnType, line : LineType]]

TypeOK ==
  /\ cod \in BOOLEAN
  /\ status \in OrderStatus
  /\ total \in Nat
  /\ line \in [Lines -> LineType]
  /\ parcel \in [Parcels -> ParcelType]
  /\ rma \in [Returns -> ReturnType]
  /\ tx \in [Threads -> TxType \cup {Idle}]
  /\ cash \in Nat /\ promised \in Nat /\ settled \in Nat
  /\ putBack \in [Lines -> Nat]
  /\ restocks \in [Returns -> Nat]
  /\ stale \in BOOLEAN

\* "Units of each ACTIVE line not yet on a live shipment": whatever was split,
\* shortened or sent back, first deliveries never carry more than was bought.
FirstParcels == { p \in Live : ~parcel[p].replaces }
ParcelsWithinLine == \A l \in Lines : OnParcels(l, FirstParcels) <= line[l].quantity

\* "never set by hand: they are functions of the lines, shipments, returns,
\* refunds and payments" (derived.ts): deriving the order's status once more
\* changes nothing, after every handler.
StatusFollowsRows == Derived(status) = status

\* A cancelled order has nothing left to deliver: no ACTIVE line, so that no
\* parcel that comes back finds units to restock again.
CancelledIsWhole == status = "CANCELLED" => ActiveLines = {}

\* "what stops a customer opening five RMAs for the same single unit"
\* (returnableQuantity): what came back is what returns say came back, and with
\* the open claims it is within the line.  For returns moved on a fresh row.
CameBack(l) ==
  { r \in Returns : /\ rma[r].line = l /\ rma[r].received /\ rma[r].status # "RECEIVED"
                    /\ rma[r].disposition # "RETURN_TO_CUSTOMER" }
ReturnsWithinLine ==
  ~stale => \A l \in Lines :
    /\ line[l].returned = Units(CameBack(l))
    /\ line[l].returned + Units(ClaimsOn(l)) <= line[l].quantity

\* "at most one movement per line per transition" (blueprint C3): units go
\* back on the shelf once, by cancellation, by the courier or by a return, if
\* the line travelled in one parcel and returns were moved on a fresh row.
Carriers(l) == { p \in Live : parcel[p].items[l] > 0 }
RestockedBy(l) == SumOver([r \in Returns |-> restocks[r] * rma[r].quantity],
                          { r \in Returns : rma[r].line = l })
RestockedOnce ==
  ~stale => \A l \in Lines :
    Cardinality(Carriers(l)) <= 1 => putBack[l] + RestockedBy(l) <= Bought[l]

\* "so the cash collected matches the invoice" (onDelivered), up to half a
\* paisa for each line of a parcel, if nothing was delivered that had been
\* cancelled and no replacement was.
Delivered == { p \in Parcels : parcel[p].status = "DELIVERED" }
Roundings == SumOver([p \in Parcels |-> Cardinality(Carried(p))], Delivered)
CashWithinInvoice ==
  (\A p \in Delivered : ~parcel[p].replaces /\ Carried(p) \subseteq NotCancelled) =>
    2 * cash <= 2 * total + Roundings

\* "a three-unit line refunded one unit at a time can never sum to more than
\* the line total" (cap.ts): the refunds of the returns that hold their units,
\* because these came back or are still claimed, add up to at most the line, and
\* the shipping once for each return.  A return that was refunded ahead of its
\* way and then called off gives its units free for another refund.
RefundsOn(l) == { r \in ClaimsOn(l) \cup CameBack(l) : rma[r].amount > 0 }
RefundsWithinLine ==
  ~stale => \A l \in Lines :
    SumOver([r \in Returns |-> rma[r].amount], RefundsOn(l))
      <= line[l].total + Extras * Cardinality(RefundsOn(l))
=============================================================================
