----------------------------- MODULE MCSchedule -----------------------------
(***************************************************************************)
(* Schedule on a small instance: one bucket (buckets meet only in a batch), *)
(* two overlapping calls, one worker, and either a death or a requeue.  No  *)
(* symmetry, because the run checks liveness.                               *)
(***************************************************************************)
EXTENDS Schedule, TLC

\* Bound: one fault or one requeue in a behaviour.  Neither is a fair action, so
\* leaving out the second takes nothing from what fairness promises.
OneIncident == faults' + requeued' <= 1
=============================================================================
