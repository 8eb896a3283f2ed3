------------------------------ MODULE JobQueue ------------------------------
(***************************************************************************)
(* The Postgres-backed job queue (src/src/lib/queue/index.ts) and its       *)
(* worker loop: enqueue with a dedupe key, releaseStaleLocks, claimJobs,    *)
(* runOne, requeueJob and cancelJob.                                        *)
(*                                                                         *)
(* Every statement of the queue is a transaction of its own, except the     *)
(* enqueue of a business change, which commits with the change.  A worker   *)
(* claims a batch and runs it job by job; UPDATE ... RETURNING promises no  *)
(* order, so a batch is a set.  Time is abstract: a lock becomes stale      *)
(* (older than STALE_LOCK_MINUTES) and a retry becomes due in a step of its *)
(* own.  While a worker lives its locks get stale only if LateBatches, that *)
(* is, if a batch may take longer than STALE_LOCK_MINUTES: lockedAt is      *)
(* written once, at the claim, for the whole batch.                         *)
(*                                                                         *)
(* The jobs modelled are recomputations: the handler reads what the change  *)
(* wrote, then stores what it derives from it.  source[k] counts the        *)
(* changes of the thing k, derived[k] is the change last derived from.      *)
(***************************************************************************)
EXTENDS Naturals, FiniteSets

CONSTANTS
  Jobs,         \* Job rows
  Keys,         \* the things whose changes enqueue, each its dedupe key
  NoKey,        \* dedupeKey null
  Workers,      \* processes that call runPendingJobs
  Limit,        \* jobs per claim
  MaxAttempts,  \* Job.maxAttempts
  LateBatches,  \* may a batch outlive STALE_LOCK_MINUTES?
  MaxFaults,    \* bound: crashes and lost completions
  MaxChanges,   \* bound: changes per key
  MaxRequeues   \* bound: requeueJob calls

ASSUME RowsAssumption == IsFiniteSet(Jobs) /\ NoKey \notin Keys
ASSUME BoundsAssumption ==
  /\ Limit \in Nat \ {0} /\ MaxAttempts \in Nat \ {0}
  /\ LateBatches \in BOOLEAN
  /\ MaxFaults \in Nat /\ MaxChanges \in Nat /\ MaxRequeues \in Nat

VARIABLES
  status,     \* Job.status, "ABSENT" before the row exists
  payload,    \* Job.payload: the thing to recompute
  key,        \* Job.dedupeKey
  attempts,   \* Job.attempts
  due,        \* Job.runAt <= now()
  stale,      \* Job.lockedAt is older than STALE_LOCK_MINUTES
  pc,         \* where each worker is in runPendingJobs
  batch,      \* the claimed jobs it has still to finish
  current,    \* the one it is running (any job otherwise)
  claimed,    \* attempts as the claim returned them
  seen,       \* the source version the running handler has read
  source, derived,
  effects,    \* history: how often a job's handler took effect
  faults,     \* history: crashes and lost completions
  requeues,   \* requeueJob calls that have read the row and not written yet
  requeued    \* history: how many there were

rowVars == <<status, payload, key, attempts, due, stale>>
workerVars == <<pc, batch, current, claimed, seen>>
dataVars == <<source, derived>>
requeueVars == <<requeues, requeued>>
vars == <<rowVars, workerVars, dataVars, effects, faults, requeueVars>>

----------------------------------------------------------------------------
Open == {"PENDING", "RUNNING"}
Finished == {"COMPLETED", "FAILED", "CANCELLED"}

Held(j) == \E w \in Workers : j \in batch[w]

Init ==
  /\ status = [j \in Jobs |-> "ABSENT"]
  /\ payload \in [Jobs -> Keys]
  /\ key = [j \in Jobs |-> NoKey]
  /\ attempts = [j \in Jobs |-> 0]
  /\ due = [j \in Jobs |-> FALSE]
  /\ stale = [j \in Jobs |-> FALSE]
  /\ pc = [w \in Workers |-> "idle"]
  /\ batch = [w \in Workers |-> {}]
  /\ current \in [Workers -> Jobs]
  /\ claimed = [w \in Workers |-> [j \in Jobs |-> 0]]
  /\ seen = [w \in Workers |-> 0]
  /\ source = [k \in Keys |-> 0]
  /\ derived = [k \in Keys |-> 0]
  /\ effects = [j \in Jobs |-> 0]
  /\ faults = 0
  /\ requeues = {}
  /\ requeued = 0

----------------------------------------------------------------------------
(* enqueue, in the transaction of the change it follows.                    *)

\* Mutant: only a job that has not started stands for the key.
OpenJobs_PendingOnly(k) == { j \in Jobs : key[j] = k /\ status[j] = "PENDING" }

\* The row that carries the key, if it is open.
OpenJobs(k) == { j \in Jobs : key[j] = k /\ status[j] \in Open }

\* A finished row releases its key to the new one.
CreateJob(j, k) ==
  /\ status[j] = "ABSENT"
  /\ status' = [status EXCEPT ![j] = "PENDING"]
  /\ payload' = [payload EXCEPT ![j] = k]
  /\ key' = [i \in Jobs |-> IF i = j THEN k ELSE IF key[i] = k THEN NoKey ELSE key[i]]
  /\ due' = [due EXCEPT ![j] = TRUE]
  /\ UNCHANGED <<attempts, stale>>

Change(k) ==
  /\ source[k] < MaxChanges
  /\ source' = [source EXCEPT ![k] = @ + 1]
  /\ IF OpenJobs(k) # {} THEN UNCHANGED rowVars ELSE \E j \in Jobs : CreateJob(j, k)
  /\ UNCHANGED <<workerVars, derived, effects, faults, requeueVars>>

----------------------------------------------------------------------------
(* runPendingJobs.                                                          *)

\* Mutant: every lock is taken for an orphan.
Orphans_AnyRunning == { j \in Jobs : status[j] = "RUNNING" }

\* Mutant: no lock is ever released.
Orphans_None == {}

\* RUNNING with a lock older than STALE_LOCK_MINUTES.
Orphans == { j \in Jobs : status[j] = "RUNNING" /\ stale[j] }

ReleaseStaleLocks(w) ==
  /\ pc[w] = "idle"
  /\ status' = [j \in Jobs |-> IF j \in Orphans THEN "PENDING" ELSE status[j]]
  /\ stale' = [j \in Jobs |-> IF j \in Orphans THEN FALSE ELSE stale[j]]
  /\ pc' = [pc EXCEPT ![w] = "claim"]
  /\ UNCHANGED <<payload, key, attempts, due, batch, current, claimed, seen,
                 dataVars, effects, faults, requeueVars>>

\* Mutant: a finished job is claimed again.
Claimable_NotRunning(j) == status[j] \notin {"ABSENT", "RUNNING"} /\ due[j]

Claimable(j) == status[j] = "PENDING" /\ due[j]

\* SKIP LOCKED: what other claims hold at that moment is left out.
Batches == { S \in SUBSET Jobs : Cardinality(S) <= Limit }

\* Mutant: an empty claim enters the loop too.
AfterClaim_Always(S) == "next"

\* The loop over the claimed jobs, or the next tick.
AfterClaim(S) == IF S = {} THEN "idle" ELSE "next"

ClaimJobs(w, S) ==
  /\ pc[w] = "claim"
  /\ \A j \in S : Claimable(j)
  /\ status' = [j \in Jobs |-> IF j \in S THEN "RUNNING" ELSE status[j]]
  /\ attempts' = [j \in Jobs |-> IF j \in S THEN attempts[j] + 1 ELSE attempts[j]]
  /\ stale' = [j \in Jobs |-> IF j \in S THEN FALSE ELSE stale[j]]
  /\ batch' = [batch EXCEPT ![w] = S]
  /\ claimed' = [claimed EXCEPT ![w] = attempts']
  /\ pc' = [pc EXCEPT ![w] = AfterClaim(S)]
  /\ UNCHANGED <<payload, key, due, current, seen, dataVars, effects, faults,
                 requeueVars>>

\* The handler starts by reading what it recomputes from.
StartHandler(w, j) ==
  /\ pc[w] = "next"
  /\ j \in batch[w]
  /\ current' = [current EXCEPT ![w] = j]
  /\ seen' = [seen EXCEPT ![w] = source[payload[j]]]
  /\ pc' = [pc EXCEPT ![w] = "handling"]
  /\ UNCHANGED <<rowVars, batch, claimed, dataVars, effects, faults, requeueVars>>

HandlerSucceeds(w) ==
  /\ pc[w] = "handling"
  /\ derived' = [derived EXCEPT ![payload[current[w]]] = seen[w]]
  /\ effects' = [effects EXCEPT ![current[w]] = @ + 1]
  /\ pc' = [pc EXCEPT ![w] = "handled"]
  /\ UNCHANGED <<rowVars, batch, current, claimed, seen, source, faults, requeueVars>>

\* The job's outcome is written by id; the loop goes on to the next job.
Settle(w, st, isDue) ==
  LET j == current[w]
  IN  /\ status' = [status EXCEPT ![j] = st]
      /\ stale' = [stale EXCEPT ![j] = FALSE]
      /\ due' = [due EXCEPT ![j] = isDue]
      /\ batch' = [batch EXCEPT ![w] = @ \ {j}]
      /\ pc' = [pc EXCEPT ![w] = AfterClaim(batch[w] \ {j})]
      /\ UNCHANGED <<payload, key, attempts, current, claimed, seen>>

CompleteJob(w) ==
  /\ pc[w] = "handled"
  /\ Settle(w, "COMPLETED", due[current[w]])
  /\ UNCHANGED <<dataVars, effects, faults, requeueVars>>

\* Mutant: one attempt too many.
Exhausted_OneMore(w) == claimed[w][current[w]] > MaxAttempts

Exhausted(w) == claimed[w][current[w]] >= MaxAttempts

\* The retry waits for its backoff.
FailOrRetry(w) ==
  IF Exhausted(w) THEN Settle(w, "FAILED", due[current[w]])
  ELSE Settle(w, "PENDING", FALSE)

\* The handler threw, or there is none for the type ...
HandlerFails(w) ==
  /\ pc[w] = "handling"
  /\ FailOrRetry(w)
  /\ UNCHANGED <<dataVars, effects, faults, requeueVars>>

\* ... or the COMPLETED update did, after the handler's effect.
CompletionFails(w) ==
  /\ pc[w] = "handled"
  /\ faults < MaxFaults
  /\ faults' = faults + 1
  /\ FailOrRetry(w)
  /\ UNCHANGED <<dataVars, effects, requeueVars>>

\* The process dies and starts again with nothing claimed.
Crash(w) ==
  /\ batch[w] # {}
  /\ faults < MaxFaults
  /\ faults' = faults + 1
  /\ batch' = [batch EXCEPT ![w] = {}]
  /\ pc' = [pc EXCEPT ![w] = "idle"]
  /\ UNCHANGED <<rowVars, current, claimed, seen, dataVars, effects, requeueVars>>

----------------------------------------------------------------------------
(* Time, and the operator's two buttons.                                    *)

BackoffEnds(j) ==
  /\ status[j] = "PENDING" /\ ~due[j]
  /\ due' = [due EXCEPT ![j] = TRUE]
  /\ UNCHANGED <<status, payload, key, attempts, stale, workerVars, dataVars,
                 effects, faults, requeueVars>>

LockAges(j) ==
  /\ status[j] = "RUNNING" /\ ~stale[j]
  /\ Held(j) => LateBatches
  /\ stale' = [stale EXCEPT ![j] = TRUE]
  /\ UNCHANGED <<status, payload, key, attempts, due, workerVars, dataVars,
                 effects, faults, requeueVars>>

\* requeueJob reads the row, refuses a RUNNING one ...
RequeueRead(j) ==
  /\ status[j] \notin {"ABSENT", "RUNNING"}
  /\ requeued < MaxRequeues
  /\ requeues' = requeues \cup {j}
  /\ requeued' = requeued + 1
  /\ UNCHANGED <<rowVars, workerVars, dataVars, effects, faults>>

\* ... and then updates it by id.
RequeueWrite(j) ==
  /\ j \in requeues
  /\ requeues' = requeues \ {j}
  /\ status' = [status EXCEPT ![j] = "PENDING"]
  /\ attempts' = [attempts EXCEPT ![j] = 0]
  /\ due' = [due EXCEPT ![j] = TRUE]
  /\ stale' = [stale EXCEPT ![j] = FALSE]
  /\ UNCHANGED <<payload, key, workerVars, dataVars, effects, faults, requeued>>

\* Mutant: whatever is open is cancelled.
CancelJob_Open(j) ==
  /\ status[j] \in Open
  /\ status' = [status EXCEPT ![j] = "CANCELLED"]
  /\ UNCHANGED <<payload, key, attempts, due, stale, workerVars, dataVars, effects,
                 faults, requeueVars>>

CancelJob(j) ==
  /\ status[j] = "PENDING"
  /\ status' = [status EXCEPT ![j] = "CANCELLED"]
  /\ UNCHANGED <<payload, key, attempts, due, stale, workerVars, dataVars, effects,
                 faults, requeueVars>>

----------------------------------------------------------------------------
WorkerStep(w) ==
  \/ ReleaseStaleLocks(w)
  \/ \E S \in Batches : ClaimJobs(w, S)
  \/ \E j \in Jobs : StartHandler(w, j)
  \/ HandlerSucceeds(w) \/ CompleteJob(w) \/ HandlerFails(w)

Next ==
  \/ \E k \in Keys : Change(k)
  \/ \E w \in Workers : WorkerStep(w) \/ CompletionFails(w) \/ Crash(w)
  \/ \E j \in Jobs :
       \/ BackoffEnds(j) \/ LockAges(j) \/ CancelJob(j)
       \/ RequeueRead(j) \/ RequeueWrite(j)

Spec == Init /\ [][Next]_vars

\* Workers keep polling (scripts/worker.ts), a due job is not passed over for
\* ever, time passes, and an operator's request is carried out.
Fairness ==
  /\ \A w \in Workers : WF_vars(WorkerStep(w))
  /\ \A j \in Jobs :
       /\ SF_vars(\E w \in Workers, S \in Batches : j \in S /\ ClaimJobs(w, S))
       /\ WF_vars(BackoffEnds(j)) /\ WF_vars(LockAges(j)) /\ WF_vars(RequeueWrite(j))

FairSpec == Spec /\ Fairness

----------------------------------------------------------------------------
(* Properties.                                                              *)

PC == {"idle", "claim", "next", "handling", "handled"}

\* Every variable has its type, and a worker that runs a job has claimed it.
TypeOK ==
  /\ status \in [Jobs -> Open \cup Finished \cup {"ABSENT"}]
  /\ payload \in [Jobs -> Keys]
  /\ key \in [Jobs -> Keys \cup {NoKey}]
  /\ attempts \in [Jobs -> Nat]
  /\ due \in [Jobs -> BOOLEAN] /\ stale \in [Jobs -> BOOLEAN]
  /\ pc \in [Workers -> PC]
  /\ batch \in [Workers -> Batches]
  /\ current \in [Workers -> Jobs]
  /\ \A w \in Workers :
       /\ batch[w] = {} <=> pc[w] \in {"idle", "claim"}
       /\ pc[w] \in {"handling", "handled"} => current[w] \in batch[w]
  /\ claimed \in [Workers -> [Jobs -> Nat]]
  /\ seen \in [Workers -> Nat]
  /\ source \in [Keys -> Nat] /\ derived \in [Keys -> Nat]
  /\ effects \in [Jobs -> Nat] /\ faults \in Nat
  /\ requeues \subseteq Jobs /\ requeued \in Nat

Running(w, j) == pc[w] \in {"handling", "handled"} /\ current[w] = j

\* "several workers ... never run the same job twice at once" (the module's
\* header), as long as no batch outlives its lock and nobody has requeued.
NeverTwiceAtOnce ==
  requeued = 0 =>
    \A v, w \in Workers : \A j \in Jobs : Running(v, j) /\ Running(w, j) => v = w

\* "The key means at most one OPEN job" (enqueue): no two open rows are there
\* to recompute the same thing, whatever became of their keys, until an operator
\* reopens a finished one.
OneOpenPerKey ==
  requeued = 0 =>
    \A i, j \in Jobs :
      status[i] \in Open /\ status[j] \in Open /\ payload[i] = payload[j] => i = j

\* A job is given up after maxAttempts runs, plus at most one for each time a
\* worker died and for each requeue (which starts the count again, maybe under
\* a run): nothing else makes it run on.
FaultsBuyAttempts == \A j \in Jobs : attempts[j] <= MaxAttempts + faults + requeued

\* A handler takes effect once, and once more only when a worker died, its
\* completion was lost ("MAY run it twice in sequence after a crash") or an
\* operator requeued the job.
OnceWithoutFaults == \A j \in Jobs : effects[j] <= 1 + faults + requeued

\* "A worker that dies mid-run still burns an attempt" (claimJobs), "never run the
\* same job twice at once", "the key means at most one OPEN job": until an
\* operator requeues a job the queue is Leases, in which a worker is alone with
\* what it has leased and only a dead worker's tasks fall back.
Holders == [j \in Jobs |-> { w \in Workers : j \in batch[w] }]
Worked == { j \in Jobs : \E w \in Workers : pc[w] = "handled" /\ current[w] = j }
Tasks == INSTANCE Leases WITH
  Tasks <- Jobs, Things <- Keys, MaxTries <- MaxAttempts,
  state <- status, thing <- payload, tries <- attempts,
  holders <- Holders, worked <- Worked, exact <- requeued = 0
JobsAreLeased == Tasks!Spec

\* Every job that is queued finishes, even if workers die while they run it.
JobsFinish == \A j \in Jobs : status[j] \in Open ~> status[j] \in Finished

----------------------------------------------------------------------------
(* Statements of the code's comments.                                       *)

\* A job enqueued with the change it follows "can never be lost": what has not
\* been derived yet is somebody's job, or a job that an operator sees fail.
ChangeIsScheduled ==
  \A k \in Keys : derived[k] # source[k] =>
    \E j \in Jobs : payload[j] = k /\ status[j] \in Open \cup {"FAILED", "CANCELLED"}
=============================================================================
