---------------------------- MODULE StockCustody ----------------------------
(***************************************************************************)
(* What the inventory promises its callers: every unit of a variant is free *)
(* to be sold, held for an order that awaits payment, or sold on an order   *)
(* that is still to be honoured.  An operation moves units from one place   *)
(* to another; only a stock count makes or loses any.  One operation may    *)
(* move units of several variants, all in the same direction (an order).    *)
(* The promise ends when exact does: a caller that left an order half done. *)
(***************************************************************************)
EXTENDS Integers

CONSTANTS
  Variants,
  MaxUnits   \* bound: units of one variant that one operation moves

VARIABLES
  free,      \* InventoryItem.available
  held,      \* InventoryItem.reserved
  sold,      \* units of confirmed lines
  backorder, \* InventoryItem.allowBackorder
  exact      \* the promise holds

vars == <<free, held, sold, backorder, exact>>

Amounts == [Variants -> 0..MaxUnits]

Plus(f, q) == [v \in Variants |-> f[v] + q[v]]
Minus(f, q) == [v \in Variants |-> f[v] - q[v]]

Init ==
  /\ free \in [Variants -> Nat]
  /\ held = [v \in Variants |-> 0]
  /\ sold = [v \in Variants |-> 0]
  /\ backorder \in [Variants -> BOOLEAN]
  /\ exact = TRUE

\* Only a backorder takes units that are not there.
Available(q) == \A v \in Variants : q[v] > 0 => q[v] <= free[v] \/ backorder[v]

Hold(q) ==
  /\ Available(q)
  /\ free' = Minus(free, q) /\ held' = Plus(held, q)
  /\ UNCHANGED <<sold, backorder>>

Within(q, f) == \A v \in Variants : q[v] <= f[v]

Drop(q) ==
  /\ Within(q, held)
  /\ held' = Minus(held, q) /\ free' = Plus(free, q)
  /\ UNCHANGED <<sold, backorder>>

Sell(q) ==
  /\ Within(q, held)
  /\ held' = Minus(held, q) /\ sold' = Plus(sold, q)
  /\ UNCHANGED <<free, backorder>>

SellFromShelf(q) ==
  /\ Available(q)
  /\ free' = Minus(free, q) /\ sold' = Plus(sold, q)
  /\ UNCHANGED <<held, backorder>>

TakeBack(q) ==
  /\ Within(q, sold)
  /\ sold' = Minus(sold, q) /\ free' = Plus(free, q)
  /\ UNCHANGED <<held, backorder>>

\* A count of the shelf cannot go below what is held, unless on backorder.
Count(v) ==
  /\ free'[v] >= 0 \/ backorder[v]
  /\ free' = [free EXCEPT ![v] = free'[v]]
  /\ UNCHANGED <<held, sold, backorder>>

SwitchBackorder == UNCHANGED <<free, held, sold>>

MoveUnits ==
  \/ \E q \in Amounts : Hold(q) \/ Drop(q) \/ Sell(q) \/ SellFromShelf(q) \/ TakeBack(q)
  \/ \E v \in Variants : Count(v)
  \/ SwitchBackorder

Next ==
  \/ MoveUnits /\ UNCHANGED exact
  \/ exact' = FALSE

Spec == Init /\ [][Next]_vars
=============================================================================
