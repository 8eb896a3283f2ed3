----------------------------- MODULE MCJobQueue -----------------------------
(***************************************************************************)
(* JobQueue on small instances.  Rows, keys and workers are                 *)
(* interchangeable.                                                         *)
(***************************************************************************)
EXTENDS JobQueue, TLC

Symmetry == Permutations(Jobs) \cup Permutations(Keys) \cup Permutations(Workers)

\* Bound: a behaviour with a requeue has at most one fault, and at most three
\* faults and changes of a thing together.
AfterRequeue ==
  requeued' > 0 => faults' <= 1 /\ \A k \in Keys : source'[k] + faults' <= 3
=============================================================================
