----------------------------- MODULE MCRefunds -----------------------------
(***************************************************************************)
(* Refunds on small instances.  Refund ids and operators are               *)
(* interchangeable: no action or property singles one out.                 *)
(***************************************************************************)
EXTENDS Refunds, TLC

Symmetry == Permutations(RefundIds) \cup Permutations(Operators)

\* Bounds: one of the refunds is the troubled one, which is retried and which
\* two calls are about at once; the other one goes its way undisturbed.
Troubled == { r \in RefundIds : retries[r] > 0 } \cup clashed
OneTroubled == \A r, s \in Troubled : r = s

\* Bound: the gateway is asked for one of the refunds, the other is a transfer.
OneOnline == \A r, s \in RefundIds : online[r] /\ online[s] => r = s

\* A delivery before the first completion changes nothing until then: it may as
\* well come before the first refund.
DeliveredInTime ==
  earned' # earned => \/ \A r \in RefundIds : status[r] = "ABSENT"
                      \/ \E r \in RefundIds : status[r] = "COMPLETED"
=============================================================================
