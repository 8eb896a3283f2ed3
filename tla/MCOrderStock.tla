---------------------------- MODULE MCOrderStock ----------------------------
(***************************************************************************)
(* OrderStock on small instances.  Orders and checkouts are                 *)
(* interchangeable.                                                         *)
(***************************************************************************)
EXTENDS OrderStock, TLC

CONSTANTS v1, v2, c1

Symmetry == Permutations(Orders) \cup Permutations(Threads)

Cart(n1, n2) == [v \in Variants |-> IF v = v1 THEN n1 ELSE n2]

Request(cart, coupon, source) ==
  [customer |-> c1, cart |-> cart, coupon |-> coupon, source |-> source]

\* Two coupons at once, two open orders at once, and a keyed order of all.
Carts ==
  { Request(Cart(2, 0), TRUE, "STOREFRONT"), Request(Cart(0, 1), TRUE, "STOREFRONT"),
    Request(Cart(0, 1), FALSE, "STOREFRONT"), Request(Cart(2, 1), FALSE, "MANUAL") }

JustEnough == Cart(2, 1)

OneMoreOrLess == {-1, 1}
=============================================================================
