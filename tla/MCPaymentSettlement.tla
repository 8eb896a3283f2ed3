------------------------ MODULE MCPaymentSettlement ------------------------
(***************************************************************************)
(* PaymentSettlement on small instances.  Attempts, gateway payments and   *)
(* threads are interchangeable; liveness runs use no symmetry.             *)
(***************************************************************************)
EXTENDS PaymentSettlement, TLC

Symmetry ==
  Permutations(Attempts) \cup Permutations(PaymentIds) \cup Permutations(Threads)

\* States that differ only in what became of a job or of the reservation: no
\* action reads it, and no property of the run that uses this view does.
Effective ==
  <<orderVars, moneyVars, hookVars, jobs, tries, call, aborts, late, crossed>>

=============================================================================
