------------------------------- MODULE Leases -------------------------------
(***************************************************************************)
(* What the job queue promises its callers: a change that asks for a task   *)
(* gets one, unless one that is open stands for the same thing; a worker    *)
(* leases tasks that wait, is alone with each of them, and reports what     *)
(* became of it; only the lease of a worker that died falls back.  How the  *)
(* queue knows that a worker died, when a retry is due and who carries the  *)
(* key is left to it.  The promise ends when exact does: an operator        *)
(* reopened a task.                                                         *)
(***************************************************************************)
EXTENDS Naturals

CONSTANTS Tasks, Things, Workers, MaxTries

VARIABLES
  state,    \* Job.status
  thing,    \* what a task is about
  tries,    \* leases of a task
  holders,  \* the workers that have leased a task
  worked,   \* tasks that took effect and were not reported yet
  exact     \* the promise holds

vars == <<state, thing, tries, holders, worked, exact>>

Init ==
  /\ state = [j \in Tasks |-> "ABSENT"]
  /\ thing \in [Tasks -> Things]
  /\ tries = [j \in Tasks |-> 0]
  /\ holders = [j \in Tasks |-> {}]
  /\ worked = {}
  /\ exact = TRUE

OpenFor(k) == { j \in Tasks : state[j] \in {"PENDING", "RUNNING"} /\ thing[j] = k }

Ask(j, k) ==
  /\ state[j] = "ABSENT" /\ OpenFor(k) = {}
  /\ state' = [state EXCEPT ![j] = "PENDING"]
  /\ thing' = [thing EXCEPT ![j] = k]
  /\ UNCHANGED <<tries, holders, worked>>

\* A worker is done with what it leased before it leases again.
Lease(w, S) ==
  /\ \A j \in Tasks : w \notin holders[j]
  /\ \A j \in S : state[j] = "PENDING" /\ holders[j] = {}
  /\ state' = [j \in Tasks |-> IF j \in S THEN "RUNNING" ELSE state[j]]
  /\ tries' = [j \in Tasks |-> IF j \in S THEN tries[j] + 1 ELSE tries[j]]
  /\ holders' = [j \in Tasks |-> IF j \in S THEN {w} ELSE holders[j]]
  /\ UNCHANGED <<thing, worked>>

Work(w, j) ==
  /\ holders[j] = {w} /\ j \notin worked
  /\ worked' = worked \cup {j}
  /\ UNCHANGED <<state, thing, tries, holders>>

\* Only a task that took effect is COMPLETED; one that did not, or whose
\* completion was lost, is tried again while it has tries left.
Report(w, j) ==
  /\ holders[j] = {w}
  /\ \E st \in {"COMPLETED", "PENDING", "FAILED"} :
       /\ st = "COMPLETED" => j \in worked
       /\ st = "PENDING" => tries[j] < MaxTries
       /\ st = "FAILED" => tries[j] >= MaxTries
       /\ state' = [state EXCEPT ![j] = st]
  /\ holders' = [holders EXCEPT ![j] = {}]
  /\ worked' = worked \ {j}
  /\ UNCHANGED <<thing, tries>>

Die(w) ==
  /\ holders' = [j \in Tasks |-> holders[j] \ {w}]
  /\ worked' = { j \in worked : w \notin holders[j] }
  /\ UNCHANGED <<state, thing, tries>>

FallBack(S) ==
  /\ \A j \in S : state[j] = "RUNNING" /\ holders[j] = {}
  /\ state' = [j \in Tasks |-> IF j \in S THEN "PENDING" ELSE state[j]]
  /\ UNCHANGED <<thing, tries, holders, worked>>

Withdraw(j) ==
  /\ state[j] = "PENDING" /\ holders[j] = {}
  /\ state' = [state EXCEPT ![j] = "CANCELLED"]
  /\ UNCHANGED <<thing, tries, holders, worked>>

KeepPromise ==
  \/ \E j \in Tasks, k \in Things : Ask(j, k)
  \/ \E w \in Workers, S \in SUBSET Tasks : Lease(w, S)
  \/ \E w \in Workers, j \in Tasks : Work(w, j) \/ Report(w, j)
  \/ \E w \in Workers : Die(w)
  \/ \E S \in SUBSET Tasks : FallBack(S)
  \/ \E j \in Tasks : Withdraw(j)

Next ==
  \/ exact' = FALSE
  \/ KeepPromise /\ UNCHANGED exact

Spec == Init /\ [][Next]_vars
=============================================================================
