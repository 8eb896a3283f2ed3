-------------------------- MODULE MCSellerPayouts --------------------------
(***************************************************************************)
(* SellerPayouts on small instances.  Ledger rows, statements and threads   *)
(* are interchangeable.                                                     *)
(***************************************************************************)
EXTENDS SellerPayouts, TLC

Symmetry == Permutations(Rows) \cup Permutations(Payouts) \cup Permutations(Threads)

Debit == {-2}

\* Bound: once transactions have overlapped, one day and one row fewer.
Room == overlapped => /\ clock = 1
                      /\ Cardinality({ r \in Rows : Fresh(r) }) >= 1
=============================================================================
