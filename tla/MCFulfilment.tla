---------------------------- MODULE MCFulfilment ----------------------------
(***************************************************************************)
(* Fulfilment on small instances.  Parcels, returns and requests are        *)
(* interchangeable.                                                         *)
(***************************************************************************)
EXTENDS Fulfilment, TLC

CONSTANTS pair, single

Symmetry == Permutations(Parcels) \cup Permutations(Returns) \cup Permutations(Threads)

\* Two units that share an odd price, so that a half is rounded, and one unit.
TwoAndOne == [l \in Lines |-> IF l = pair THEN 2 ELSE 1]
OddPrices == [l \in Lines |-> IF l = pair THEN 3 ELSE 1]

\* How many parcels, returns and requests in flight one order may see.  Cash is
\* collected by parcels, so a COD order has two of them; and where there are two
\* returns there is no second parcel to send a replacement in.
CONSTANT Shapes  \* bound

ParcelsOrReturnsOrRequests ==
  { [parcels |-> 2, returns |-> 1, requests |-> 1],
    [parcels |-> 1, returns |-> 2, requests |-> 1],
    [parcels |-> 1, returns |-> 1, requests |-> 2] }

Fits ==
  /\ ~stale
  /\ \E shape \in Shapes :
       /\ cod => shape.parcels = 2
       /\ shape.returns = 2 => \A r \in Returns : ~rma[r].replacement
       /\ Cardinality({ p \in Parcels : parcel[p].status # "ABSENT" }) <= shape.parcels
       /\ Cardinality({ r \in Returns : rma[r].status # "ABSENT" }) <= shape.returns
       /\ Cardinality({ t \in Threads : tx[t] # Idle }) <= shape.requests

\* Refunds take all that the cap allows.  One that an operator creates is of the
\* only return so far, on a prepaid order with one parcel and no request in
\* flight.
RefundsFit ==  \* bound
  \A x \in Returns : rma'[x].amount # rma[x].amount =>
    /\ rma'[x].amount = RefundCap(x)
    /\ tx' = tx =>
       /\ ~cod
       /\ Cardinality({ r \in Returns : rma[r].status # "ABSENT" }) = 1
       /\ Cardinality({ p \in Parcels : parcel[p].status # "ABSENT" }) = 1
       /\ \A t \in Threads : tx[t] = Idle
=============================================================================
