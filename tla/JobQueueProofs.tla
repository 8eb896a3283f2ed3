--------------------------- MODULE JobQueueProofs ---------------------------
(***************************************************************************)
(* What the queue guarantees for any number of jobs, keys, workers and      *)
(* faults, while every batch is done within STALE_LOCK_MINUTES (Punctual)   *)
(* and until an operator requeues a job.                                    *)
(***************************************************************************)
EXTENDS JobQueue, FiniteSetTheorems, TLAPS

Punctual == ~LateBatches

LEMMA BatchShrinks ==
  /\ {} \in Batches
  /\ \A B \in Batches : \A j \in B : B \ {j} \in Batches
<1>1. {} \in Batches
  BY FS_EmptySet, BoundsAssumption DEF Batches
<1>2. ASSUME NEW B \in Batches, NEW j \in B
      PROVE  B \ {j} \in Batches
  <2>1. IsFiniteSet(B) /\ Cardinality(B) <= Limit /\ B \subseteq Jobs
    BY FS_Subset, RowsAssumption DEF Batches
  <2>2. Cardinality(B) \in Nat /\ Cardinality(B \ {j}) = Cardinality(B) - 1
    BY <2>1, FS_RemoveElement, FS_CardinalityType
  <2>3. QED BY <2>1, <2>2, BoundsAssumption DEF Batches
<1>3. QED BY <1>1, <1>2

LEMMA SettleType ==
  ASSUME TypeOK, NEW w \in Workers, pc[w] \in {"handling", "handled"},
         NEW st \in Finished \cup {"PENDING"}, NEW isDue \in BOOLEAN,
         Settle(w, st, isDue)
  PROVE  /\ status' \in [Jobs -> Open \cup Finished \cup {"ABSENT"}]
         /\ due' \in [Jobs -> BOOLEAN] /\ stale' \in [Jobs -> BOOLEAN]
         /\ pc' \in [Workers -> PC]
         /\ batch' \in [Workers -> Batches]
         /\ \A v \in Workers :
              /\ batch'[v] = {} <=> pc'[v] \in {"idle", "claim"}
              /\ pc'[v] \in {"handling", "handled"} => current'[v] \in batch'[v]
<1> DEFINE j == current[w]
<1>1. j \in Jobs /\ j \in batch[w] /\ batch[w] \in Batches
  BY DEF TypeOK
<1>2. batch[w] \ {j} \in Batches
  BY <1>1, BatchShrinks
<1>3. /\ status' = [status EXCEPT ![j] = st] /\ stale' = [stale EXCEPT ![j] = FALSE]
      /\ due' = [due EXCEPT ![j] = isDue]
      /\ batch' = [batch EXCEPT ![w] = batch[w] \ {j}]
      /\ pc' = [pc EXCEPT ![w] = AfterClaim(batch[w] \ {j})]
      /\ current' = current
  BY DEF Settle
<1>4. /\ AfterClaim(batch[w] \ {j}) \in {"idle", "next"}
      /\ batch[w] \ {j} = {} <=> AfterClaim(batch[w] \ {j}) = "idle"
  BY DEF AfterClaim
<1> HIDE DEF j
<1>5. /\ status' \in [Jobs -> Open \cup Finished \cup {"ABSENT"}]
      /\ due' \in [Jobs -> BOOLEAN] /\ stale' \in [Jobs -> BOOLEAN]
  BY <1>1, <1>3 DEF TypeOK, Open
<1>6. pc' \in [Workers -> PC] /\ batch' \in [Workers -> Batches]
  BY <1>2, <1>3, <1>4 DEF TypeOK, PC
<1>7. ASSUME NEW v \in Workers
      PROVE  /\ batch'[v] = {} <=> pc'[v] \in {"idle", "claim"}
             /\ pc'[v] \in {"handling", "handled"} => current'[v] \in batch'[v]
  <2>1. CASE v = w
    BY <1>3, <1>4, <2>1 DEF TypeOK
  <2>2. CASE v # w
    BY <1>3, <2>2 DEF TypeOK
  <2>3. QED BY <2>1, <2>2
<1>8. QED BY <1>5, <1>6, <1>7

\* A retry goes back to PENDING, an exhausted job to FAILED.
LEMMA FailShape ==
  ASSUME TypeOK, NEW w \in Workers, FailOrRetry(w)
  PROVE  \E st \in Finished \cup {"PENDING"}, isDue \in BOOLEAN :
           /\ Settle(w, st, isDue)
           /\ st \in {"FAILED", "PENDING"}
           /\ st = "PENDING" => ~Exhausted(w)
<1>1. /\ "FAILED" \in Finished \cup {"PENDING"} /\ "PENDING" \in Finished \cup {"PENDING"}
      /\ due[current[w]] \in BOOLEAN /\ FALSE \in BOOLEAN
  BY DEF Finished, TypeOK
<1>2. CASE Exhausted(w)
  <2>1. Settle(w, "FAILED", due[current[w]])
    BY <1>2 DEF FailOrRetry
  <2>2. "FAILED" # "PENDING"
    OBVIOUS
  <2>3. QED BY <1>1, <2>1, <2>2
<1>3. CASE ~Exhausted(w)
  <2>1. Settle(w, "PENDING", FALSE)
    BY <1>3 DEF FailOrRetry
  <2>2. QED BY <1>1, <1>3, <2>1
<1>4. QED BY <1>2, <1>3

\* The three ways a job's run ends.
LEMMA OutcomeShape ==
  ASSUME TypeOK, NEW w \in Workers,
         CompleteJob(w) \/ HandlerFails(w) \/ CompletionFails(w)
  PROVE  /\ pc[w] \in {"handling", "handled"}
         /\ \E st \in Finished \cup {"PENDING"}, isDue \in BOOLEAN :
              Settle(w, st, isDue) /\ (st = "PENDING" => ~Exhausted(w))
<1>1. due[current[w]] \in BOOLEAN /\ "COMPLETED" \in Finished \cup {"PENDING"}
  BY DEF TypeOK, Finished
<1>2. CASE CompleteJob(w)
  <2>1. pc[w] = "handled" /\ Settle(w, "COMPLETED", due[current[w]]) /\ "COMPLETED" # "PENDING"
    BY <1>2 DEF CompleteJob
  <2>2. QED BY <1>1, <2>1
<1>3. CASE HandlerFails(w) \/ CompletionFails(w)
  BY <1>3, FailShape DEF HandlerFails, CompletionFails
<1>4. QED BY <1>2, <1>3

----------------------------------------------------------------------------
LEMMA TypeStep ==
  ASSUME TypeOK, [Next]_vars
  PROVE  TypeOK'
<1> USE DEF rowVars, workerVars, dataVars, requeueVars
<1>1. ASSUME NEW k \in Keys, Change(k)
      PROVE  TypeOK'
  <2>1. CASE UNCHANGED rowVars
    BY <1>1, <2>1 DEF Change, TypeOK
  <2>2. CASE \E j \in Jobs : CreateJob(j, k)
    <3>1. PICK j \in Jobs : CreateJob(j, k)
      BY <2>2
    <3>2. /\ status' \in [Jobs -> Open \cup Finished \cup {"ABSENT"}]
          /\ payload' \in [Jobs -> Keys] /\ due' \in [Jobs -> BOOLEAN]
          /\ attempts' = attempts /\ stale' = stale
      BY <3>1 DEF CreateJob, TypeOK, Open
    <3>3. key' \in [Jobs -> Keys \cup {NoKey}]
      <4>1. key' = [i \in Jobs |-> IF i = j THEN k ELSE IF key[i] = k THEN NoKey ELSE key[i]]
        BY <3>1 DEF CreateJob
      <4>2. \A i \in Jobs : key[i] \in Keys \cup {NoKey}
        BY DEF TypeOK
      <4>3. QED BY <4>1, <4>2
    <3>4. /\ source' \in [Keys -> Nat]
          /\ UNCHANGED <<workerVars, derived, effects, faults, requeueVars>>
      BY <1>1 DEF Change, TypeOK
    <3>5. QED BY <3>2, <3>3, <3>4 DEF TypeOK
  <2>3. QED BY <1>1, <2>1, <2>2 DEF Change
<1>2. ASSUME NEW w \in Workers, ReleaseStaleLocks(w)
      PROVE  TypeOK'
  BY <1>2 DEF ReleaseStaleLocks, TypeOK, Open, PC
<1>3. ASSUME NEW w \in Workers, NEW S \in Batches, ClaimJobs(w, S)
      PROVE  TypeOK'
  <2>1. AfterClaim(S) \in {"idle", "next"} /\ (S = {} <=> AfterClaim(S) = "idle")
    BY DEF AfterClaim
  <2>2. attempts' \in [Jobs -> Nat] /\ claimed' \in [Workers -> [Jobs -> Nat]]
    BY <1>3 DEF ClaimJobs, TypeOK
  <2>3. status' \in [Jobs -> Open \cup Finished \cup {"ABSENT"}] /\ stale' \in [Jobs -> BOOLEAN]
    BY <1>3 DEF ClaimJobs, TypeOK, Open
  <2>4. /\ batch' = [batch EXCEPT ![w] = S] /\ pc' = [pc EXCEPT ![w] = AfterClaim(S)]
        /\ UNCHANGED <<payload, key, due, current, seen, dataVars, effects, faults, requeueVars>>
    BY <1>3 DEF ClaimJobs
  <2>5. pc' \in [Workers -> PC] /\ batch' \in [Workers -> Batches]
    BY <2>1, <2>4 DEF TypeOK, PC
  <2>6. ASSUME NEW v \in Workers
        PROVE  /\ batch'[v] = {} <=> pc'[v] \in {"idle", "claim"}
               /\ pc'[v] \in {"handling", "handled"} => current'[v] \in batch'[v]
    BY <2>1, <2>4 DEF TypeOK
  <2>7. QED BY <2>2, <2>3, <2>4, <2>5, <2>6 DEF TypeOK
<1>4. ASSUME NEW w \in Workers, NEW j \in Jobs, StartHandler(w, j)
      PROVE  TypeOK'
  BY <1>4 DEF StartHandler, TypeOK, PC
<1>5. ASSUME NEW w \in Workers, HandlerSucceeds(w)
      PROVE  TypeOK'
  BY <1>5 DEF HandlerSucceeds, TypeOK, PC
<1>6. ASSUME NEW w \in Workers, CompleteJob(w)
      PROVE  TypeOK'
  <2>1. due[current[w]] \in BOOLEAN /\ "COMPLETED" \in Finished \cup {"PENDING"}
    BY DEF TypeOK, Finished
  <2>2. pc[w] = "handled" /\ Settle(w, "COMPLETED", due[current[w]])
    BY <1>6 DEF CompleteJob
  <2>3. UNCHANGED <<payload, key, attempts, current, claimed, seen>>
    BY <2>2 DEF Settle
  <2>4. UNCHANGED <<dataVars, effects, faults, requeueVars>>
    BY <1>6 DEF CompleteJob
  <2>5. QED BY <2>1, <2>2, <2>3, <2>4, SettleType DEF TypeOK
<1>7. ASSUME NEW w \in Workers, HandlerFails(w) \/ CompletionFails(w)
      PROVE  TypeOK'
  <2>1. PICK st \in Finished \cup {"PENDING"}, isDue \in BOOLEAN : Settle(w, st, isDue)
    BY <1>7, FailShape DEF HandlerFails, CompletionFails
  <2>2. pc[w] \in {"handling", "handled"}
    BY <1>7 DEF HandlerFails, CompletionFails
  <2>3. UNCHANGED <<payload, key, attempts, current, claimed, seen>>
    BY <2>1 DEF Settle
  <2>4. UNCHANGED <<dataVars, effects, requeueVars>> /\ faults' \in Nat
    BY <1>7 DEF HandlerFails, CompletionFails, TypeOK
  <2>5. QED BY <2>1, <2>2, <2>3, <2>4, SettleType DEF TypeOK
<1>8. ASSUME NEW w \in Workers, Crash(w)
      PROVE  TypeOK'
  BY <1>8, BatchShrinks DEF Crash, TypeOK, PC
<1>9. ASSUME NEW j \in Jobs, BackoffEnds(j) \/ LockAges(j) \/ CancelJob(j)
      PROVE  TypeOK'
  BY <1>9 DEF BackoffEnds, LockAges, CancelJob, TypeOK, Finished
<1>10. ASSUME NEW j \in Jobs, RequeueRead(j) \/ RequeueWrite(j)
       PROVE  TypeOK'
  <2>1. CASE RequeueRead(j)
    BY <2>1 DEF RequeueRead, TypeOK
  <2>2. CASE RequeueWrite(j)
    <3>1. /\ status' \in [Jobs -> Open \cup Finished \cup {"ABSENT"}]
          /\ attempts' \in [Jobs -> Nat]
          /\ due' \in [Jobs -> BOOLEAN] /\ stale' \in [Jobs -> BOOLEAN]
      BY <2>2 DEF RequeueWrite, TypeOK, Open
    <3>2. QED BY <2>2, <3>1 DEF RequeueWrite, TypeOK
  <2>3. QED BY <1>10, <2>1, <2>2
<1>11. CASE UNCHANGED vars
  BY <1>11 DEF vars, TypeOK
<1>12. QED
  BY <1>1, <1>2, <1>3, <1>4, <1>5, <1>6, <1>7, <1>8, <1>9, <1>10, <1>11
  DEF Next, WorkerStep

\* Type correctness, with late batches and requeues too.
THEOREM TypeCorrect == Spec => []TypeOK
<1>1. Init => TypeOK
  BY BatchShrinks DEF Init, TypeOK, PC
<1>2. TypeOK /\ [Next]_vars => TypeOK'
  BY TypeStep
<1>3. QED BY <1>1, <1>2, PTL DEF Spec

----------------------------------------------------------------------------
(* The leases.  NeverTwiceAtOnce is not inductive: it rests on each claimed  *)
(* job being RUNNING under a fresh lock, which nobody else may take.         *)

Leased ==
  /\ requeues = {}
  /\ \A w \in Workers : \A j \in batch[w] :
       status[j] = "RUNNING" /\ ~stale[j] /\ claimed[w][j] = attempts[j]
  /\ \A v, w \in Workers : \A j \in Jobs : j \in batch[v] /\ j \in batch[w] => v = w

\* What a worker that settles a job leaves of every job: the others as they
\* were, its own held by nobody.
LEMMA SettleLeases ==
  ASSUME TypeOK, Leased, NEW w \in Workers, pc[w] \in {"handling", "handled"},
         NEW st \in Finished \cup {"PENDING"}, NEW isDue \in BOOLEAN,
         Settle(w, st, isDue)
  PROVE  /\ current[w] \in batch[w] /\ current[w] \in Jobs
         /\ status[current[w]] = "RUNNING" /\ status'[current[w]] = st
         /\ \A v \in Workers : current[w] \notin batch'[v]
         /\ \A i \in Jobs \ {current[w]} :
              /\ status'[i] = status[i] /\ stale'[i] = stale[i]
              /\ \A v \in Workers : i \in batch'[v] <=> i \in batch[v]
<1>1. current[w] \in batch[w] /\ current[w] \in Jobs /\ status[current[w]] = "RUNNING"
  BY DEF TypeOK, Leased
<1>2. /\ status' = [status EXCEPT ![current[w]] = st]
      /\ stale' = [stale EXCEPT ![current[w]] = FALSE]
      /\ batch' = [batch EXCEPT ![w] = batch[w] \ {current[w]}]
  BY DEF Settle
<1>3. \A v \in Workers : v # w => current[w] \notin batch[v]
  BY <1>1 DEF Leased
<1>4. QED BY <1>1, <1>2, <1>3 DEF TypeOK

LEMMA LeasedStep ==
  ASSUME Punctual, TypeOK, Leased, [Next]_vars, requeued' = 0
  PROVE  Leased'
<1> USE DEF rowVars, workerVars, dataVars, requeueVars
<1>1. ASSUME NEW k \in Keys, Change(k)
      PROVE  Leased'
  <2>1. CASE UNCHANGED rowVars
    BY <1>1, <2>1 DEF Change, Leased
  <2>2. CASE \E j \in Jobs : CreateJob(j, k)
    <3>1. PICK j \in Jobs : CreateJob(j, k)
      BY <2>2
    <3>2. \A w \in Workers : j \notin batch[w]
      BY <3>1 DEF CreateJob, Leased
    <3>3. \A i \in Jobs \ {j} : status'[i] = status[i]
      BY <3>1 DEF CreateJob, TypeOK
    <3>4. \A w \in Workers : batch[w] \subseteq Jobs
      BY DEF TypeOK, Batches
    <3>5. QED BY <1>1, <3>1, <3>2, <3>3, <3>4 DEF Change, CreateJob, Leased
  <2>3. QED BY <1>1, <2>1, <2>2 DEF Change
<1>2. ASSUME NEW w \in Workers, ReleaseStaleLocks(w)
      PROVE  Leased'
  <2>1. \A v \in Workers : \A j \in batch[v] : j \in Jobs /\ j \notin Orphans
    BY DEF Orphans, Leased, TypeOK, Batches
  <2>2. QED BY <1>2, <2>1 DEF ReleaseStaleLocks, Leased
<1>3. ASSUME NEW w \in Workers, NEW S \in Batches, ClaimJobs(w, S)
      PROVE  Leased'
  <2>1. batch[w] = {} /\ S \subseteq Jobs
    BY <1>3 DEF ClaimJobs, TypeOK, Batches
  <2>2. \A v \in Workers : \A j \in batch[v] : j \notin S /\ j \in Jobs
    BY <1>3 DEF ClaimJobs, Claimable, Leased, TypeOK, Batches
  <2>3. batch' = [batch EXCEPT ![w] = S] /\ requeues' = requeues
    BY <1>3 DEF ClaimJobs
  <2>4. \A j \in S : status'[j] = "RUNNING" /\ ~stale'[j] /\ claimed'[w][j] = attempts'[j]
    BY <1>3, <2>1 DEF ClaimJobs, TypeOK
  <2>5. ASSUME NEW v \in Workers, v # w, NEW j \in batch[v]
        PROVE  status'[j] = "RUNNING" /\ ~stale'[j] /\ claimed'[v][j] = attempts'[j]
    BY <1>3, <2>2, <2>5 DEF ClaimJobs, TypeOK, Leased
  <2>6. QED BY <2>1, <2>2, <2>3, <2>4, <2>5 DEF Leased, TypeOK
<1>4. ASSUME NEW w \in Workers, NEW j \in Jobs, StartHandler(w, j)
      PROVE  Leased'
  BY <1>4 DEF StartHandler, Leased
<1>5. ASSUME NEW w \in Workers, HandlerSucceeds(w)
      PROVE  Leased'
  BY <1>5 DEF HandlerSucceeds, Leased
<1>6. ASSUME NEW w \in Workers,
             CompleteJob(w) \/ HandlerFails(w) \/ CompletionFails(w)
      PROVE  Leased'
  <2>1. PICK st \in Finished \cup {"PENDING"}, isDue \in BOOLEAN : Settle(w, st, isDue)
    BY <1>6, OutcomeShape
  <2>2. pc[w] \in {"handling", "handled"}
    BY <1>6, OutcomeShape
  <2>3. /\ \A v \in Workers : current[w] \notin batch'[v]
        /\ \A i \in Jobs \ {current[w]} :
             /\ status'[i] = status[i] /\ stale'[i] = stale[i]
             /\ \A v \in Workers : i \in batch'[v] <=> i \in batch[v]
    BY <2>1, <2>2, SettleLeases
  <2>4. claimed' = claimed /\ attempts' = attempts /\ requeues' = requeues
    BY <1>6, <2>1 DEF Settle, CompleteJob, HandlerFails, CompletionFails
  <2>5. TypeOK'
    BY TypeStep
  <2>6. \A v \in Workers : batch'[v] \subseteq Jobs
    BY <2>5 DEF TypeOK, Batches
  <2>7. QED BY <2>3, <2>4, <2>6 DEF Leased
<1>7. ASSUME NEW w \in Workers, Crash(w)
      PROVE  Leased'
  BY <1>7 DEF Crash, Leased, TypeOK
<1>8. ASSUME NEW j \in Jobs, BackoffEnds(j) \/ LockAges(j) \/ CancelJob(j)
      PROVE  Leased'
  <2>1. CASE BackoffEnds(j)
    BY <2>1 DEF BackoffEnds, Leased
  <2>2. CASE LockAges(j)
    <3>1. \A w \in Workers : j \notin batch[w]
      BY <2>2 DEF LockAges, Held, Punctual
    <3>2. \A i \in Jobs \ {j} : stale'[i] = stale[i]
      BY <2>2 DEF LockAges, TypeOK
    <3>3. \A w \in Workers : batch[w] \subseteq Jobs
      BY DEF TypeOK, Batches
    <3>4. QED BY <2>2, <3>1, <3>2, <3>3 DEF LockAges, Leased
  <2>3. CASE CancelJob(j)
    <3>1. \A w \in Workers : j \notin batch[w]
      BY <2>3 DEF CancelJob, Leased
    <3>2. \A i \in Jobs \ {j} : status'[i] = status[i]
      BY <2>3 DEF CancelJob, TypeOK
    <3>3. \A w \in Workers : batch[w] \subseteq Jobs
      BY DEF TypeOK, Batches
    <3>4. QED BY <2>3, <3>1, <3>2, <3>3 DEF CancelJob, Leased
  <2>4. QED BY <1>8, <2>1, <2>2, <2>3
<1>9. ASSUME NEW j \in Jobs, RequeueRead(j) \/ RequeueWrite(j)
      PROVE  Leased'
  <2>1. ~RequeueRead(j)
    BY DEF RequeueRead, TypeOK
  <2>2. ~RequeueWrite(j)
    BY DEF RequeueWrite, Leased
  <2>3. QED BY <1>9, <2>1, <2>2
<1>10. CASE UNCHANGED vars
  BY <1>10 DEF vars, Leased
<1>11. QED
  BY <1>1, <1>2, <1>3, <1>4, <1>5, <1>6, <1>7, <1>8, <1>9, <1>10 DEF Next, WorkerStep

\* What was requeued stays counted.
LEMMA RequeuedGrows ==
  ASSUME TypeOK, [Next]_vars
  PROVE  requeued' = 0 => requeued = 0
<1> USE DEF rowVars, workerVars, dataVars, requeueVars
<1>1. ASSUME NEW j \in Jobs, RequeueRead(j)
      PROVE  requeued' # 0
  BY <1>1 DEF RequeueRead, TypeOK
<1>2. ASSUME NEW w \in Workers, WorkerStep(w) \/ CompletionFails(w) \/ Crash(w)
      PROVE  requeued' = requeued
  BY <1>2 DEF WorkerStep, ReleaseStaleLocks, ClaimJobs, StartHandler, HandlerSucceeds,
       CompleteJob, HandlerFails, CompletionFails, Crash
<1>3. ASSUME NEW j \in Jobs,
             BackoffEnds(j) \/ LockAges(j) \/ CancelJob(j) \/ RequeueWrite(j)
      PROVE  requeued' = requeued
  BY <1>3 DEF BackoffEnds, LockAges, CancelJob, RequeueWrite
<1>4. ASSUME NEW k \in Keys, Change(k)
      PROVE  requeued' = requeued
  BY <1>4 DEF Change
<1>5. CASE UNCHANGED vars
  BY <1>5 DEF vars
<1>6. QED BY <1>1, <1>2, <1>3, <1>4, <1>5 DEF Next

\* While batches are punctual and until something is requeued, no job runs at two
\* workers at once, however many crash: claimJobs's promise.
THEOREM NeverTwice == Punctual => (Spec => []NeverTwiceAtOnce)
<1> SUFFICES ASSUME Punctual PROVE Spec => []NeverTwiceAtOnce
  OBVIOUS
<1> DEFINE IInv == requeued = 0 => Leased
<1>1. Init => IInv
  BY DEF Init, Leased
<1>2. TypeOK /\ IInv /\ [Next]_vars => IInv'
  BY LeasedStep, RequeuedGrows
<1>3. TypeOK /\ IInv => NeverTwiceAtOnce
  BY DEF TypeOK, Leased, NeverTwiceAtOnce, Running
<1>4. QED BY <1>1, <1>2, <1>3, TypeCorrect, PTL DEF Spec

----------------------------------------------------------------------------
(* The keys.  An open row keeps the key it was enqueued with, and Postgres   *)
(* lets one row have it.                                                     *)

Keyed ==
  /\ \A j \in Jobs : status[j] \in Open => key[j] = payload[j]
  /\ \A i, j \in Jobs : key[i] = key[j] /\ key[i] # NoKey => i = j

LEMMA KeyedStep ==
  ASSUME Punctual, TypeOK, Leased, Keyed, [Next]_vars, requeued' = 0
  PROVE  Keyed'
<1> USE DEF rowVars, workerVars, dataVars, requeueVars
<1>1. ASSUME NEW k \in Keys, Change(k)
      PROVE  Keyed'
  <2>1. CASE UNCHANGED rowVars
    BY <2>1 DEF Keyed
  <2>2. CASE OpenJobs(k) = {} /\ \E j \in Jobs : CreateJob(j, k)
    <3>1. PICK j \in Jobs : CreateJob(j, k)
      BY <2>2
    <3>2. status'[j] = "PENDING" /\ payload'[j] = k /\ key'[j] = k /\ k # NoKey
      BY <3>1, RowsAssumption DEF CreateJob, TypeOK
    <3>3. \A i \in Jobs \ {j} :
            /\ status'[i] = status[i] /\ payload'[i] = payload[i]
            /\ key'[i] = IF key[i] = k THEN NoKey ELSE key[i]
      BY <3>1 DEF CreateJob, TypeOK
    <3>4. \A i \in Jobs : status[i] \in Open => key[i] # k
      BY <2>2 DEF OpenJobs
    <3>5. \A i \in Jobs : status'[i] \in Open => key'[i] = payload'[i]
      BY <3>2, <3>3, <3>4 DEF Keyed
    <3>6. \A i, l \in Jobs : key'[i] = key'[l] /\ key'[i] # NoKey => i = l
      BY <3>2, <3>3 DEF Keyed
    <3>7. QED BY <3>5, <3>6 DEF Keyed
  <2>3. QED BY <1>1, <2>1, <2>2 DEF Change
\* Every other step leaves key and payload alone and opens no finished row.
<1>2. ASSUME UNCHANGED <<payload, key>>,
             \A j \in Jobs : status'[j] \in Open => status[j] \in Open
      PROVE  Keyed'
  BY <1>2 DEF Keyed
<1>3. ASSUME NEW w \in Workers, ReleaseStaleLocks(w)
      PROVE  Keyed'
  BY <1>2, <1>3 DEF ReleaseStaleLocks, Orphans, Open, TypeOK
<1>4. ASSUME NEW w \in Workers, NEW S \in Batches, ClaimJobs(w, S)
      PROVE  Keyed'
  BY <1>2, <1>4 DEF ClaimJobs, Claimable, Open, TypeOK
<1>5. ASSUME NEW w \in Workers,
             CompleteJob(w) \/ HandlerFails(w) \/ CompletionFails(w)
      PROVE  Keyed'
  <2>1. PICK st \in Finished \cup {"PENDING"}, isDue \in BOOLEAN : Settle(w, st, isDue)
    BY <1>5, OutcomeShape
  <2>2. pc[w] \in {"handling", "handled"}
    BY <1>5, OutcomeShape
  <2>3. /\ status[current[w]] = "RUNNING"
        /\ \A i \in Jobs \ {current[w]} : status'[i] = status[i]
    BY <2>1, <2>2, SettleLeases
  <2>4. UNCHANGED <<payload, key>>
    BY <2>1 DEF Settle
  <2>5. QED BY <1>2, <2>3, <2>4 DEF Open
<1>6. ASSUME NEW w \in Workers,
             \/ \E j \in Jobs : StartHandler(w, j)
             \/ HandlerSucceeds(w) \/ Crash(w)
      PROVE  Keyed'
  BY <1>2, <1>6 DEF StartHandler, HandlerSucceeds, Crash
<1>7. ASSUME NEW j \in Jobs, BackoffEnds(j) \/ LockAges(j) \/ CancelJob(j)
      PROVE  Keyed'
  BY <1>2, <1>7 DEF BackoffEnds, LockAges, CancelJob, Open, TypeOK
<1>8. ASSUME NEW j \in Jobs, RequeueRead(j) \/ RequeueWrite(j)
      PROVE  Keyed'
  BY <1>8 DEF RequeueRead, RequeueWrite, TypeOK, Leased
<1>9. CASE UNCHANGED vars
  BY <1>9 DEF vars, Keyed
<1>10. QED
  BY <1>1, <1>3, <1>4, <1>5, <1>6, <1>7, <1>8, <1>9 DEF Next, WorkerStep

\* Under the same conditions no two open rows recompute the same thing: the
\* promise of a dedupe key.
THEOREM KeyMeansOneOpenJob == Punctual => (Spec => []OneOpenPerKey)
<1> SUFFICES ASSUME Punctual PROVE Spec => []OneOpenPerKey
  OBVIOUS
<1> DEFINE IInv == requeued = 0 => Leased /\ Keyed
<1>1. Init => IInv
  BY DEF Init, Leased, Keyed, Open
<1>2. TypeOK /\ IInv /\ [Next]_vars => IInv'
  BY LeasedStep, KeyedStep, RequeuedGrows
<1>3. TypeOK /\ IInv => OneOpenPerKey
  BY RowsAssumption DEF TypeOK, Keyed, OneOpenPerKey
<1>4. QED BY <1>1, <1>2, <1>3, TypeCorrect, PTL DEF Spec

----------------------------------------------------------------------------
(* The attempts and the effects, requeues included.  A requeue that writes    *)
(* under a run lets a second worker at the job, so neither is inductive: both *)
(* count what may still come, a claim that waits and the runs that may reopen *)
(* the job or take effect, against the faults and requeues that paid for it.  *)

Waiting(j) ==
  status[j] \in {"ABSENT", "PENDING"} \/ (status[j] = "RUNNING" /\ ~Held(j))

One(b) == IF b THEN 1 ELSE 0

\* A batch that is punctual ends before its locks are stale.
LocksFresh == \A w \in Workers : \A j \in batch[w] : ~stale[j]

LEMMA LocksFreshStep ==
  ASSUME Punctual, TypeOK, LocksFresh, [Next]_vars
  PROVE  LocksFresh'
<1> USE DEF rowVars, workerVars, dataVars, requeueVars
<1>1. /\ batch \in [Workers -> Batches] /\ stale \in [Jobs -> BOOLEAN]
      /\ \A w \in Workers : batch[w] \subseteq Jobs
  BY DEF TypeOK, Batches
<1>2. ASSUME \A w \in Workers : batch'[w] \subseteq batch[w],
             \A j \in Jobs : stale'[j] => stale[j]
      PROVE  LocksFresh'
  BY <1>1, <1>2 DEF LocksFresh
<1>3. ASSUME NEW k \in Keys, Change(k)
      PROVE  LocksFresh'
  BY <1>2, <1>3 DEF Change, CreateJob
<1>4. ASSUME NEW w \in Workers, ReleaseStaleLocks(w)
      PROVE  LocksFresh'
  BY <1>2, <1>4 DEF ReleaseStaleLocks
<1>5. ASSUME NEW w \in Workers, NEW S \in Batches, ClaimJobs(w, S)
      PROVE  LocksFresh'
  <2>1. \A j \in Jobs : stale'[j] => stale[j] /\ j \notin S
    BY <1>5 DEF ClaimJobs
  <2>2. /\ batch'[w] = S /\ S \subseteq Jobs
        /\ \A v \in Workers : v # w => batch'[v] = batch[v]
    BY <1>1, <1>5 DEF ClaimJobs, Batches
  <2>3. QED BY <1>1, <2>1, <2>2 DEF LocksFresh
<1>6. ASSUME NEW w \in Workers,
             CompleteJob(w) \/ HandlerFails(w) \/ CompletionFails(w)
      PROVE  LocksFresh'
  <2>1. PICK st \in Finished \cup {"PENDING"}, isDue \in BOOLEAN : Settle(w, st, isDue)
    BY <1>6, OutcomeShape
  <2>2. \A j \in Jobs : stale'[j] => stale[j]
    BY <1>1, <2>1 DEF Settle, TypeOK
  <2>3. \A v \in Workers : batch'[v] \subseteq batch[v]
    BY <1>1, <2>1 DEF Settle
  <2>4. QED BY <1>2, <2>2, <2>3
<1>7. ASSUME NEW w \in Workers,
             \/ \E j \in Jobs : StartHandler(w, j)
             \/ HandlerSucceeds(w) \/ Crash(w)
      PROVE  LocksFresh'
  BY <1>1, <1>2, <1>7 DEF StartHandler, HandlerSucceeds, Crash
<1>8. ASSUME NEW j \in Jobs, BackoffEnds(j) \/ CancelJob(j) \/ RequeueRead(j)
      PROVE  LocksFresh'
  BY <1>2, <1>8 DEF BackoffEnds, CancelJob, RequeueRead
<1>9. ASSUME NEW j \in Jobs, RequeueWrite(j)
      PROVE  LocksFresh'
  BY <1>1, <1>2, <1>9 DEF RequeueWrite
<1>10. ASSUME NEW j \in Jobs, LockAges(j)
       PROVE  LocksFresh'
  <2>1. \A w \in Workers : j \notin batch[w]
    BY <1>10 DEF LockAges, Held, Punctual
  <2>2. \A i \in Jobs \ {j} : stale'[i] = stale[i]
    BY <1>1, <1>10 DEF LockAges
  <2>3. batch' = batch
    BY <1>10 DEF LockAges
  <2>4. QED BY <1>1, <2>1, <2>2, <2>3 DEF LocksFresh
<1>11. CASE UNCHANGED vars
  BY <1>2, <1>11 DEF vars
<1>12. QED
  BY <1>3, <1>4, <1>5, <1>6, <1>7, <1>8, <1>9, <1>10, <1>11 DEF Next, WorkerStep

\* How the number of runs follows them.
LEMMA Counts ==
  ASSUME NEW S, IsFiniteSet(S), NEW T
  PROVE  /\ Cardinality(S) \in Nat
         /\ T \subseteq S =>
              /\ IsFiniteSet(T) /\ Cardinality(T) \in Nat
              /\ Cardinality(T) <= Cardinality(S)
         /\ \A w \in S : T \subseteq S \ {w} =>
              /\ IsFiniteSet(T) /\ Cardinality(T) \in Nat
              /\ Cardinality(T) + 1 <= Cardinality(S)
         /\ \A w : T \subseteq S \cup {w} =>
              /\ IsFiniteSet(T) /\ Cardinality(T) \in Nat
              /\ Cardinality(T) <= Cardinality(S) + 1
<1>1. Cardinality(S) \in Nat
  BY FS_CardinalityType
<1>2. ASSUME T \subseteq S
      PROVE  /\ IsFiniteSet(T) /\ Cardinality(T) \in Nat
             /\ Cardinality(T) <= Cardinality(S)
  BY <1>2, FS_Subset, FS_CardinalityType
<1>3. ASSUME NEW w \in S, T \subseteq S \ {w}
      PROVE  /\ IsFiniteSet(T) /\ Cardinality(T) \in Nat
             /\ Cardinality(T) + 1 <= Cardinality(S)
  <2>1. IsFiniteSet(S \ {w}) /\ Cardinality(S \ {w}) = Cardinality(S) - 1
    BY FS_RemoveElement
  <2>2. IsFiniteSet(T) /\ Cardinality(T) <= Cardinality(S \ {w})
    BY <1>3, <2>1, FS_Subset
  <2>3. Cardinality(T) \in Nat
    BY <2>2, FS_CardinalityType
  <2>4. QED BY <1>1, <2>1, <2>2, <2>3
<1>4. ASSUME NEW w, T \subseteq S \cup {w}
      PROVE  /\ IsFiniteSet(T) /\ Cardinality(T) \in Nat
             /\ Cardinality(T) <= Cardinality(S) + 1
  <2>1. /\ IsFiniteSet(S \cup {w})
        /\ Cardinality(S \cup {w}) \in {Cardinality(S), Cardinality(S) + 1}
    BY FS_AddElement
  <2>2. IsFiniteSet(T) /\ Cardinality(T) <= Cardinality(S \cup {w})
    BY <1>4, <2>1, FS_Subset
  <2>3. Cardinality(T) \in Nat
    BY <2>2, FS_CardinalityType
  <2>4. QED BY <1>1, <2>1, <2>2, <2>3
<1>5. QED BY <1>1, <1>2, <1>3, <1>4

\* A step that neither ends nor starts a run makes a job wait only if it did.
LEMMA QuietStep ==
  ASSUME TypeOK, LocksFresh, NEW j \in Jobs,
         \/ \E k \in Keys : Change(k)
         \/ \E w \in Workers : ReleaseStaleLocks(w) \/ HandlerSucceeds(w)
         \/ \E w \in Workers, i \in Jobs : StartHandler(w, i)
         \/ \E i \in Jobs : BackoffEnds(i) \/ LockAges(i) \/ CancelJob(i)
         \/ UNCHANGED vars
  PROVE  /\ UNCHANGED <<attempts, batch, claimed, faults, requeues, requeued>>
         /\ Waiting(j)' => Waiting(j)
<1> USE DEF rowVars, workerVars, dataVars, requeueVars
<1>1. UNCHANGED <<attempts, batch, claimed, faults, requeues, requeued>>
  BY DEF Change, CreateJob, ReleaseStaleLocks, HandlerSucceeds, StartHandler,
         BackoffEnds, LockAges, CancelJob, vars
<1>2. Held(j)' <=> Held(j)
  BY <1>1 DEF Held
<1>3. ASSUME NEW k \in Keys, Change(k)
      PROVE  \/ status'[j] = status[j]
             \/ status[j] = "ABSENT"
  BY <1>3 DEF Change, CreateJob, TypeOK
<1>4. ASSUME NEW w \in Workers, ReleaseStaleLocks(w)
      PROVE  \/ status'[j] = status[j]
             \/ status[j] = "RUNNING" /\ ~Held(j)
  BY <1>4 DEF ReleaseStaleLocks, Orphans, LocksFresh, Held
<1>5. ASSUME NEW i \in Jobs, CancelJob(i)
      PROVE  status'[j] \in {status[j], "CANCELLED"}
  BY <1>5 DEF CancelJob, TypeOK
<1>6. ASSUME \/ \E w \in Workers : HandlerSucceeds(w)
             \/ \E w \in Workers, i \in Jobs : StartHandler(w, i)
             \/ \E i \in Jobs : BackoffEnds(i) \/ LockAges(i)
             \/ UNCHANGED vars
      PROVE  status'[j] = status[j]
  BY <1>6 DEF HandlerSucceeds, StartHandler, BackoffEnds, LockAges, vars
<1>7. \/ status'[j] \in {status[j], "CANCELLED"}
      \/ status[j] = "ABSENT"
      \/ status[j] = "RUNNING" /\ ~Held(j)
  BY <1>3, <1>4, <1>5, <1>6
<1>8. QED BY <1>1, <1>2, <1>7 DEF Waiting

LEMMA ClaimShape ==
  ASSUME TypeOK, NEW w \in Workers, NEW S \in Batches, ClaimJobs(w, S), NEW j \in Jobs
  PROVE  /\ \A v \in Workers : v # w => batch'[v] = batch[v] /\ claimed'[v] = claimed[v]
         /\ batch[w] = {} /\ batch'[w] = S
         /\ UNCHANGED <<faults, requeues, requeued, effects>>
         /\ pc'[w] \notin {"handling", "handled"} /\ \A v \in Workers : v # w => pc'[v] = pc[v]
         /\ current' = current
         /\ IF j \in S THEN /\ Waiting(j) /\ ~Waiting(j)'
                            /\ attempts'[j] = attempts[j] + 1
                            /\ claimed'[w][j] = attempts[j] + 1
            ELSE /\ Waiting(j)' => Waiting(j)
                 /\ attempts'[j] = attempts[j]
<1> USE DEF rowVars, workerVars, dataVars, requeueVars
<1>1. /\ batch[w] = {} /\ S \subseteq Jobs
      /\ batch' = [batch EXCEPT ![w] = S]
      /\ claimed' = [claimed EXCEPT ![w] = attempts']
      /\ pc' = [pc EXCEPT ![w] = AfterClaim(S)]
      /\ UNCHANGED <<faults, requeues, requeued, effects, current>>
  BY DEF ClaimJobs, TypeOK, Batches
<1>2. /\ batch'[w] = S /\ claimed'[w] = attempts'
      /\ \A v \in Workers : v # w =>
           batch'[v] = batch[v] /\ claimed'[v] = claimed[v] /\ pc'[v] = pc[v]
      /\ pc'[w] \notin {"handling", "handled"}
  BY <1>1 DEF TypeOK, AfterClaim
<1>3. ASSUME j \in S
      PROVE  /\ Waiting(j) /\ ~Waiting(j)'
             /\ attempts'[j] = attempts[j] + 1
  <2>1. status[j] = "PENDING" /\ status'[j] = "RUNNING" /\ attempts'[j] = attempts[j] + 1
    BY <1>3 DEF ClaimJobs, Claimable
  <2>2. Held(j)'
    BY <1>2, <1>3 DEF Held
  <2>3. QED BY <2>1, <2>2 DEF Waiting
<1>4. ASSUME j \notin S
      PROVE  /\ Waiting(j)' => Waiting(j)
             /\ attempts'[j] = attempts[j]
  <2>1. status'[j] = status[j] /\ attempts'[j] = attempts[j]
    BY <1>4 DEF ClaimJobs
  <2>2. Held(j)' <=> Held(j)
    BY <1>1, <1>2, <1>4 DEF Held
  <2>3. QED BY <2>1, <2>2 DEF Waiting
<1>5. QED BY <1>1, <1>2, <1>3, <1>4

\* The run that ends is over, and only its own job may wait again for it.
LEMMA EndShape ==
  ASSUME TypeOK, NEW w \in Workers, pc[w] \in {"handling", "handled"},
         NEW st \in Finished \cup {"PENDING"}, NEW isDue \in BOOLEAN,
         Settle(w, st, isDue), NEW j \in Jobs
  PROVE  /\ \A v \in Workers : v # w => batch'[v] = batch[v] /\ pc'[v] = pc[v]
         /\ batch'[w] = batch[w] \ {current[w]} /\ pc'[w] \notin {"handling", "handled"}
         /\ current[w] \in batch[w]
         /\ UNCHANGED <<attempts, claimed, current>>
         /\ IF j = current[w] THEN st # "PENDING" => ~Waiting(j)'
            ELSE Waiting(j)' => Waiting(j)
<1>1. /\ current[w] \in batch[w]
      /\ \A v \in Workers : v # w => batch'[v] = batch[v] /\ pc'[v] = pc[v]
      /\ batch'[w] = batch[w] \ {current[w]} /\ pc'[w] \notin {"handling", "handled"}
      /\ UNCHANGED <<attempts, claimed, current>>
  BY DEF Settle, TypeOK, AfterClaim
<1>2. status' = [status EXCEPT ![current[w]] = st]
  BY DEF Settle
<1>3. CASE j = current[w]
  <2>1. status'[j] = st
    BY <1>2, <1>3 DEF TypeOK
  <2>2. st # "PENDING" => ~Waiting(j)'
    BY <2>1 DEF Waiting, Finished
  <2>3. QED BY <1>1, <1>3, <2>2
<1>4. CASE j # current[w]
  <2>1. status'[j] = status[j]
    BY <1>2, <1>4 DEF TypeOK
  <2>2. Held(j)' <=> Held(j)
    BY <1>1, <1>4 DEF Held
  <2>3. QED BY <1>1, <1>4, <2>1, <2>2 DEF Waiting
<1>5. QED BY <1>3, <1>4

\* The runs of a job that open it again when they fail.
Retriers(j) == { w \in Workers : j \in batch[w] /\ claimed[w][j] < MaxAttempts }

Tries(j) ==
  /\ IsFiniteSet(Retriers(j))
  /\ Cardinality(Retriers(j)) + One(Waiting(j)) + One(j \in requeues)
       <= 1 + faults + requeued
  /\ attempts[j] + Cardinality(Retriers(j)) + One(Waiting(j))
       <= MaxAttempts + faults + requeued

LEMMA TriesStep ==
  ASSUME Punctual, TypeOK, LocksFresh, NEW j \in Jobs, Tries(j), [Next]_vars
  PROVE  Tries(j)'
<1> USE DEF rowVars, workerVars, dataVars, requeueVars
<1>0. /\ attempts[j] \in Nat /\ faults \in Nat /\ requeued \in Nat
      /\ MaxAttempts \in Nat /\ MaxAttempts >= 1
  BY BoundsAssumption DEF TypeOK
<1>1. /\ attempts \in [Jobs -> Nat]
      /\ claimed \in [Workers -> [Jobs -> Nat]]
  BY DEF TypeOK
<1>2. PICK R : R = Retriers(j)
  OBVIOUS
<1>3. PICK R1 : R1 = Retriers(j)'
  OBVIOUS
<1>4. PICK c \in Nat : c = Cardinality(R)
  BY <1>2, Counts DEF Tries
<1>5. IsFiniteSet(R)
  BY <1>2 DEF Tries
<1>6. /\ c + One(Waiting(j)) + One(j \in requeues) <= 1 + faults + requeued
      /\ attempts[j] + c + One(Waiting(j)) <= MaxAttempts + faults + requeued
  BY <1>2, <1>4 DEF Tries
\* Enough for the next state: its numbers.
<1>7. ASSUME IsFiniteSet(R1), NEW d \in Nat, d = Cardinality(R1),
             d + One(Waiting(j)') + One(j \in requeues') <= 1 + faults' + requeued',
             attempts'[j] + d + One(Waiting(j)') <= MaxAttempts + faults' + requeued'
      PROVE  Tries(j)'
  BY <1>3, <1>7 DEF Tries
<1>8. ASSUME R1 \subseteq R, attempts'[j] = attempts[j],
             Waiting(j)' => Waiting(j), j \in requeues' => j \in requeues,
             faults' \in Nat, requeued' \in Nat,
             faults + requeued <= faults' + requeued'
      PROVE  Tries(j)'
  <2>1. PICK d \in Nat : d = Cardinality(R1) /\ d <= c
    BY <1>4, <1>5, <1>8, Counts
  <2>2. IsFiniteSet(R1)
    BY <1>5, <1>8, Counts
  <2>3. /\ One(Waiting(j)') \in 0..One(Waiting(j)) /\ One(Waiting(j)) \in Nat
        /\ One(j \in requeues') \in 0..One(j \in requeues) /\ One(j \in requeues) \in Nat
    BY <1>8 DEF One
  <2>4. PICK x, y, x1, y1 \in Nat :
          /\ x = One(Waiting(j)) /\ x1 = One(Waiting(j)') /\ x1 <= x
          /\ y = One(j \in requeues) /\ y1 = One(j \in requeues') /\ y1 <= y
    BY <2>3
  <2>5. PICK s, s1 \in Nat : s = faults + requeued /\ s1 = faults' + requeued' /\ s <= s1
    BY <1>0, <1>8
  <2>6. c + x + y <= 1 + s /\ attempts[j] + c + x <= MaxAttempts + s
    BY <1>0, <1>6, <2>4, <2>5
  <2>7. d + x1 + y1 <= 1 + s1
    BY <2>1, <2>4, <2>5, <2>6
  <2>8. attempts'[j] + d + x1 <= MaxAttempts + s1
    BY <1>0, <1>8, <2>1, <2>4, <2>5, <2>6
  <2>9. 1 + s1 = 1 + faults' + requeued' /\ MaxAttempts + s1 = MaxAttempts + faults' + requeued'
    BY <1>0, <1>8, <2>5
  <2>10. QED BY <1>7, <2>1, <2>2, <2>4, <2>7, <2>8, <2>9
<1>9. ASSUME \/ \E k \in Keys : Change(k)
             \/ \E w \in Workers : ReleaseStaleLocks(w) \/ HandlerSucceeds(w)
             \/ \E w \in Workers, i \in Jobs : StartHandler(w, i)
             \/ \E i \in Jobs : BackoffEnds(i) \/ LockAges(i) \/ CancelJob(i)
             \/ UNCHANGED vars
      PROVE  Tries(j)'
  <2>1. /\ UNCHANGED <<attempts, batch, claimed, faults, requeues, requeued>>
        /\ Waiting(j)' => Waiting(j)
    BY <1>9, QuietStep
  <2>2. R1 = R
    BY <1>2, <1>3, <2>1 DEF Retriers
  <2>3. QED BY <1>0, <1>8, <2>1, <2>2
<1>10. ASSUME NEW w \in Workers, NEW S \in Batches, ClaimJobs(w, S)
       PROVE  Tries(j)'
  <2>1. /\ \A v \in Workers : v # w => batch'[v] = batch[v] /\ claimed'[v] = claimed[v]
        /\ batch[w] = {} /\ batch'[w] = S
        /\ UNCHANGED <<faults, requeues, requeued>>
    BY <1>10, ClaimShape
  <2>2. CASE j \notin S
    <3>1. attempts'[j] = attempts[j] /\ (Waiting(j)' => Waiting(j))
      BY <1>10, <2>2, ClaimShape
    <3>2. R1 \subseteq R
      BY <1>2, <1>3, <2>1, <2>2 DEF Retriers
    <3>3. QED BY <1>0, <1>8, <2>1, <3>1, <3>2
  <2>3. CASE j \in S
    <3>1. /\ Waiting(j) /\ ~Waiting(j)'
          /\ attempts'[j] = attempts[j] + 1
          /\ claimed'[w][j] = attempts[j] + 1
      BY <1>10, <2>3, ClaimShape
    <3>2. CASE attempts[j] + 1 < MaxAttempts
      <4>1. R1 \subseteq R \cup {w}
        BY <1>2, <1>3, <2>1 DEF Retriers
      <4>2. PICK d \in Nat : d = Cardinality(R1) /\ d <= c + 1
        BY <1>4, <1>5, <4>1, Counts
      <4>3. IsFiniteSet(R1)
        BY <1>5, <4>1, Counts
      <4>4. /\ d + One(Waiting(j)') + One(j \in requeues') <= 1 + faults' + requeued'
            /\ attempts'[j] + d + One(Waiting(j)') <= MaxAttempts + faults' + requeued'
        BY <1>0, <1>6, <2>1, <3>1, <3>2, <4>2 DEF One
      <4>5. QED BY <1>7, <4>2, <4>3, <4>4
    <3>3. CASE ~(attempts[j] + 1 < MaxAttempts)
      <4>1. R1 \subseteq R
        BY <1>2, <1>3, <2>1, <3>1, <3>3 DEF Retriers
      <4>2. PICK d \in Nat : d = Cardinality(R1) /\ d <= c
        BY <1>4, <1>5, <4>1, Counts
      <4>3. IsFiniteSet(R1)
        BY <1>5, <4>1, Counts
      <4>4. /\ d + One(Waiting(j)') + One(j \in requeues') <= 1 + faults' + requeued'
            /\ attempts'[j] + d + One(Waiting(j)') <= MaxAttempts + faults' + requeued'
        BY <1>0, <1>6, <2>1, <3>1, <4>2 DEF One
      <4>5. QED BY <1>7, <4>2, <4>3, <4>4
    <3>4. QED BY <3>2, <3>3
  <2>4. QED BY <2>2, <2>3
<1>11. ASSUME NEW w \in Workers,
              CompleteJob(w) \/ HandlerFails(w) \/ CompletionFails(w)
       PROVE  Tries(j)'
  <2>1. PICK st \in Finished \cup {"PENDING"}, isDue \in BOOLEAN :
          Settle(w, st, isDue) /\ (st = "PENDING" => ~Exhausted(w))
    BY <1>11, OutcomeShape
  <2>2. pc[w] \in {"handling", "handled"}
    BY <1>11, OutcomeShape
  <2>3. /\ \A v \in Workers : v # w => batch'[v] = batch[v]
        /\ batch'[w] = batch[w] \ {current[w]} /\ current[w] \in batch[w]
        /\ UNCHANGED <<attempts, claimed>>
        /\ IF j = current[w] THEN st # "PENDING" => ~Waiting(j)'
           ELSE Waiting(j)' => Waiting(j)
    BY <2>1, <2>2, EndShape
  <2>4. /\ requeues' = requeues /\ requeued' = requeued
        /\ faults' \in Nat /\ faults <= faults'
    BY <1>0, <1>11 DEF CompleteJob, HandlerFails, CompletionFails
  <2>5. R1 \subseteq R
    BY <1>2, <1>3, <2>3 DEF Retriers
  <2>6. CASE Waiting(j)' => Waiting(j)
    <3>1. faults + requeued <= faults' + requeued'
      <4>1. \A m, n, r \in Nat : m <= n => m + r <= n + r
        OBVIOUS
      <4>2. faults + requeued <= faults' + requeued
        BY <1>0, <2>4, <4>1
      <4>3. QED BY <2>4, <4>2
    <3>2. requeued' \in Nat
      BY <1>0, <2>4
    <3>3. attempts'[j] = attempts[j] /\ (j \in requeues' => j \in requeues)
      BY <2>3, <2>4
    <3>4. QED BY <1>8, <2>4, <2>5, <2>6, <3>1, <3>2, <3>3
  <2>7. CASE j = current[w] /\ st = "PENDING"
    <3>1. w \in R
      BY <1>0, <1>1, <1>2, <2>1, <2>3, <2>7 DEF Retriers, Exhausted
    <3>2. R1 \subseteq R \ {w}
      BY <1>3, <2>3, <2>5, <2>7 DEF Retriers
    <3>3. PICK d \in Nat : d = Cardinality(R1) /\ d + 1 <= c
      BY <1>4, <1>5, <3>1, <3>2, Counts
    <3>4. IsFiniteSet(R1)
      BY <1>5, <2>5, Counts
    <3>5. /\ d + One(Waiting(j)') + One(j \in requeues') <= 1 + faults' + requeued'
          /\ attempts'[j] + d + One(Waiting(j)') <= MaxAttempts + faults' + requeued'
      BY <1>0, <1>6, <2>3, <2>4, <3>3 DEF One
    <3>6. QED BY <1>7, <3>3, <3>4, <3>5
  <2>8. QED BY <2>3, <2>6, <2>7
<1>12. ASSUME NEW w \in Workers, Crash(w)
       PROVE  Tries(j)'
  <2>1. /\ \A v \in Workers : batch'[v] \subseteq batch[v]
        /\ UNCHANGED <<attempts, claimed, requeues, requeued>>
        /\ faults' = faults + 1
    BY <1>12 DEF Crash, TypeOK
  <2>2. R1 \subseteq R
    BY <1>2, <1>3, <2>1 DEF Retriers
  <2>3. PICK d \in Nat : d = Cardinality(R1) /\ d <= c
    BY <1>4, <1>5, <2>2, Counts
  <2>4. IsFiniteSet(R1)
    BY <1>5, <2>2, Counts
  <2>5. /\ d + One(Waiting(j)') + One(j \in requeues') <= 1 + faults' + requeued'
        /\ attempts'[j] + d + One(Waiting(j)') <= MaxAttempts + faults' + requeued'
    BY <1>0, <1>6, <2>1, <2>3 DEF One
  <2>6. QED BY <1>7, <2>3, <2>4, <2>5
<1>13. ASSUME NEW i \in Jobs, RequeueRead(i)
       PROVE  Tries(j)'
  <2>1. UNCHANGED <<status, attempts, batch, claimed, faults>> /\ requeued' = requeued + 1
    BY <1>13 DEF RequeueRead
  <2>2. R1 = R /\ (Waiting(j)' <=> Waiting(j))
    BY <1>2, <1>3, <2>1 DEF Retriers, Waiting, Held
  <2>3. /\ c + One(Waiting(j)') + One(j \in requeues') <= 1 + faults' + requeued'
        /\ attempts'[j] + c + One(Waiting(j)') <= MaxAttempts + faults' + requeued'
    BY <1>0, <1>6, <2>1, <2>2 DEF One
  <2>4. QED BY <1>4, <1>5, <1>7, <2>2, <2>3
<1>14. ASSUME NEW i \in Jobs, RequeueWrite(i)
       PROVE  Tries(j)'
  <2>1. /\ UNCHANGED <<batch, claimed, faults, requeued>>
        /\ requeues' = requeues \ {i} /\ i \in requeues
    BY <1>14 DEF RequeueWrite
  <2>2. R1 = R
    BY <1>2, <1>3, <2>1 DEF Retriers
  <2>3. CASE i = j
    <3>1. attempts'[j] = 0
      BY <1>1, <1>14, <2>3 DEF RequeueWrite
    <3>2. /\ c + One(Waiting(j)') + One(j \in requeues') <= 1 + faults' + requeued'
          /\ attempts'[j] + c + One(Waiting(j)') <= MaxAttempts + faults' + requeued'
      BY <1>0, <1>6, <2>1, <2>3, <3>1 DEF One
    <3>3. QED BY <1>4, <1>5, <1>7, <2>2, <3>2
  <2>4. CASE i # j
    <3>1. attempts'[j] = attempts[j] /\ status'[j] = status[j]
      BY <1>14, <2>4 DEF RequeueWrite, TypeOK
    <3>2. Waiting(j)' => Waiting(j)
      BY <2>1, <3>1 DEF Waiting, Held
    <3>3. QED BY <1>0, <1>8, <2>1, <2>2, <3>1, <3>2
  <2>5. QED BY <2>3, <2>4
<1>15. QED
  BY <1>9, <1>10, <1>11, <1>12, <1>13, <1>14 DEF Next, WorkerStep

\* A job runs at most maxAttempts times, and once more for each fault and each
\* requeue: nothing but a worker's death, a lost completion or an operator takes
\* it past the limit, however many operators requeue it while it runs.
THEOREM OnlyFaultsBuyAttempts == Punctual => (Spec => []FaultsBuyAttempts)
<1> SUFFICES ASSUME Punctual PROVE Spec => []FaultsBuyAttempts
  OBVIOUS
<1> DEFINE IInv == LocksFresh /\ \A j \in Jobs : Tries(j)
<1>1. Init => IInv
  <2> SUFFICES ASSUME Init PROVE IInv
    OBVIOUS
  <2>1. LocksFresh
    BY DEF Init, LocksFresh
  <2>2. ASSUME NEW j \in Jobs PROVE Tries(j)
    <3>1. Retriers(j) = {}
      BY DEF Init, Retriers
    <3>2. attempts[j] = 0 /\ faults = 0 /\ requeued = 0 /\ requeues = {}
      BY DEF Init
    <3>3. QED BY <3>1, <3>2, FS_EmptySet, BoundsAssumption DEF Tries, One
  <2>3. QED BY <2>1, <2>2
<1>2. TypeOK /\ IInv /\ [Next]_vars => IInv'
  BY LocksFreshStep, TriesStep
<1>3. TypeOK /\ IInv => FaultsBuyAttempts
  <2> SUFFICES ASSUME TypeOK, IInv, NEW j \in Jobs
               PROVE  attempts[j] <= MaxAttempts + faults + requeued
    BY DEF FaultsBuyAttempts
  <2>1. PICK c \in Nat : c = Cardinality(Retriers(j))
    BY Counts DEF Tries
  <2>2. attempts[j] \in Nat /\ faults \in Nat /\ requeued \in Nat /\ MaxAttempts \in Nat
    BY BoundsAssumption DEF TypeOK
  <2>3. attempts[j] + c + One(Waiting(j)) <= MaxAttempts + faults + requeued
    BY <2>1 DEF Tries
  <2>4. QED BY <2>2, <2>3 DEF One
<1>4. QED BY <1>1, <1>2, <1>3, TypeCorrect, PTL DEF Spec

----------------------------------------------------------------------------
(* The effects.                                                              *)

Done(w, j) == pc[w] = "handled" /\ current[w] = j

\* The runs of a job that have not taken effect yet.
Unworked(j) == { w \in Workers : j \in batch[w] /\ ~Done(w, j) }

Effects(j) ==
  /\ IsFiniteSet(Unworked(j))
  /\ effects[j] + Cardinality(Unworked(j)) + One(Waiting(j)) + One(j \in requeues)
       <= 1 + faults + requeued

LEMMA EffectsStep ==
  ASSUME Punctual, TypeOK, LocksFresh, NEW j \in Jobs, Effects(j), [Next]_vars
  PROVE  Effects(j)'
<1> USE DEF rowVars, workerVars, dataVars, requeueVars
<1>1. effects[j] \in Nat /\ faults \in Nat /\ requeued \in Nat
  BY DEF TypeOK
<1>2. PICK R : R = Unworked(j)
  OBVIOUS
<1>3. PICK R1 : R1 = Unworked(j)'
  OBVIOUS
<1>4. PICK c \in Nat : c = Cardinality(R)
  BY <1>2, Counts DEF Effects
<1>5. IsFiniteSet(R)
  BY <1>2 DEF Effects
<1>6. effects[j] + c + One(Waiting(j)) + One(j \in requeues) <= 1 + faults + requeued
  BY <1>2, <1>4 DEF Effects
\* Enough for the next state: its numbers.
<1>7. ASSUME IsFiniteSet(R1), NEW d \in Nat, d = Cardinality(R1),
             effects'[j] + d + One(Waiting(j)') + One(j \in requeues')
               <= 1 + faults' + requeued'
      PROVE  Effects(j)'
  BY <1>3, <1>7 DEF Effects
<1>8. ASSUME R1 \subseteq R, effects'[j] = effects[j],
             Waiting(j)' => Waiting(j), j \in requeues' => j \in requeues,
             faults' = faults, requeued' = requeued
      PROVE  Effects(j)'
  <2>1. PICK d \in Nat : d = Cardinality(R1) /\ d <= c
    BY <1>4, <1>5, <1>8, Counts
  <2>2. IsFiniteSet(R1)
    BY <1>5, <1>8, Counts
  <2>3. /\ One(Waiting(j)') \in 0..One(Waiting(j)) /\ One(Waiting(j)) \in Nat
        /\ One(j \in requeues') \in 0..One(j \in requeues) /\ One(j \in requeues) \in Nat
    BY <1>8 DEF One
  <2>4. effects'[j] + d + One(Waiting(j)') + One(j \in requeues')
          <= 1 + faults' + requeued'
    BY <1>1, <1>6, <1>8, <2>1, <2>3
  <2>5. QED BY <1>7, <2>1, <2>2, <2>4
\* A fault pays for one wait more.
<1>9. ASSUME R1 \subseteq R, effects'[j] = effects[j], faults' = faults + 1,
             requeues' = requeues, requeued' = requeued
      PROVE  Effects(j)'
  <2>1. PICK d \in Nat : d = Cardinality(R1) /\ d <= c
    BY <1>4, <1>5, <1>9, Counts
  <2>2. IsFiniteSet(R1)
    BY <1>5, <1>9, Counts
  <2>3. effects'[j] + d + One(Waiting(j)') + One(j \in requeues')
          <= 1 + faults' + requeued'
    BY <1>1, <1>6, <1>9, <2>1 DEF One
  <2>4. QED BY <1>7, <2>1, <2>2, <2>3
<1>10. ASSUME \/ \E k \in Keys : Change(k)
              \/ \E w \in Workers : ReleaseStaleLocks(w)
              \/ \E w \in Workers, i \in Jobs : StartHandler(w, i)
              \/ \E i \in Jobs : BackoffEnds(i) \/ LockAges(i) \/ CancelJob(i)
              \/ UNCHANGED vars
       PROVE  Effects(j)'
  <2>1. /\ UNCHANGED <<batch, faults, requeues, requeued>>
        /\ Waiting(j)' => Waiting(j)
    BY <1>10, QuietStep
  <2>2. effects' = effects
    BY <1>10 DEF Change, CreateJob, ReleaseStaleLocks, StartHandler, BackoffEnds,
                 LockAges, CancelJob, vars
  <2>3. \A w \in Workers : j \in batch[w] => (Done(w, j) => Done(w, j)')
    BY <1>10 DEF Change, CreateJob, ReleaseStaleLocks, StartHandler, BackoffEnds,
                 LockAges, CancelJob, vars, Done, TypeOK
  <2>4. R1 \subseteq R
    BY <1>2, <1>3, <2>1, <2>3 DEF Unworked
  <2>5. QED BY <1>8, <2>1, <2>2, <2>4
<1>11. ASSUME NEW w \in Workers, NEW S \in Batches, ClaimJobs(w, S)
       PROVE  Effects(j)'
  <2>1. /\ \A v \in Workers : v # w => batch'[v] = batch[v] /\ pc'[v] = pc[v]
        /\ batch[w] = {} /\ batch'[w] = S /\ current' = current
        /\ UNCHANGED <<faults, requeues, requeued, effects>>
    BY <1>11, ClaimShape
  <2>2. \A v \in Workers : v # w => (Done(v, j)' <=> Done(v, j))
    BY <2>1 DEF Done
  <2>3. CASE j \notin S
    <3>1. Waiting(j)' => Waiting(j)
      BY <1>11, <2>3, ClaimShape
    <3>2. R1 \subseteq R
      BY <1>2, <1>3, <2>1, <2>2, <2>3 DEF Unworked
    <3>3. QED BY <1>8, <2>1, <3>1, <3>2
  <2>4. CASE j \in S
    <3>1. Waiting(j) /\ ~Waiting(j)'
      BY <1>11, <2>4, ClaimShape
    <3>2. R1 \subseteq R \cup {w}
      BY <1>2, <1>3, <2>1, <2>2 DEF Unworked
    <3>3. PICK d \in Nat : d = Cardinality(R1) /\ d <= c + 1
      BY <1>4, <1>5, <3>2, Counts
    <3>4. IsFiniteSet(R1)
      BY <1>5, <3>2, Counts
    <3>5. effects'[j] + d + One(Waiting(j)') + One(j \in requeues')
            <= 1 + faults' + requeued'
      BY <1>1, <1>6, <2>1, <3>1, <3>3 DEF One
    <3>6. QED BY <1>7, <3>3, <3>4, <3>5
  <2>5. QED BY <2>3, <2>4
<1>12. ASSUME NEW w \in Workers, HandlerSucceeds(w)
       PROVE  Effects(j)'
  <2>1. /\ UNCHANGED <<batch, faults, requeues, requeued, current>>
        /\ Waiting(j)' => Waiting(j)
    BY <1>12, QuietStep DEF HandlerSucceeds
  <2>2. /\ pc[w] = "handling" /\ pc'[w] = "handled" /\ current[w] \in batch[w]
        /\ \A v \in Workers : v # w => pc'[v] = pc[v]
    BY <1>12 DEF HandlerSucceeds, TypeOK
  <2>3. R1 \subseteq R
    BY <1>2, <1>3, <2>1, <2>2 DEF Unworked, Done
  <2>4. CASE j # current[w]
    <3>1. effects'[j] = effects[j]
      BY <1>12, <2>4 DEF HandlerSucceeds, TypeOK
    <3>2. QED BY <1>8, <2>1, <2>3, <3>1
  <2>5. CASE j = current[w]
    <3>1. effects'[j] = effects[j] + 1
      BY <1>12, <2>5 DEF HandlerSucceeds, TypeOK
    <3>2. w \in R /\ w \notin R1
      BY <1>2, <1>3, <2>1, <2>2, <2>5 DEF Unworked, Done
    <3>3. R1 \subseteq R \ {w}
      BY <2>3, <3>2
    <3>4. PICK d \in Nat : d = Cardinality(R1) /\ d + 1 <= c
      BY <1>4, <1>5, <3>2, <3>3, Counts
    <3>5. IsFiniteSet(R1)
      BY <1>5, <2>3, Counts
    <3>6. effects'[j] + d + One(Waiting(j)') + One(j \in requeues')
            <= 1 + faults' + requeued'
      BY <1>1, <1>6, <2>1, <3>1, <3>4 DEF One
    <3>7. QED BY <1>7, <3>4, <3>5, <3>6
  <2>6. QED BY <2>4, <2>5
<1>13. ASSUME NEW w \in Workers,
              CompleteJob(w) \/ HandlerFails(w) \/ CompletionFails(w)
       PROVE  Effects(j)'
  <2>1. PICK st \in Finished \cup {"PENDING"}, isDue \in BOOLEAN : Settle(w, st, isDue)
    BY <1>13, OutcomeShape
  <2>2. pc[w] \in {"handling", "handled"}
    BY <1>13, OutcomeShape
  <2>3. /\ \A v \in Workers : v # w => batch'[v] = batch[v] /\ pc'[v] = pc[v]
        /\ batch'[w] = batch[w] \ {current[w]} /\ current[w] \in batch[w]
        /\ current' = current
        /\ IF j = current[w] THEN st # "PENDING" => ~Waiting(j)'
           ELSE Waiting(j)' => Waiting(j)
    BY <2>1, <2>2, EndShape
  <2>4. /\ effects' = effects /\ requeues' = requeues /\ requeued' = requeued
    BY <1>13 DEF CompleteJob, HandlerFails, CompletionFails
  <2>5. R1 \subseteq R
    BY <1>2, <1>3, <2>3 DEF Unworked, Done
  <2>6. CASE CompletionFails(w)
    <3>1. faults' = faults + 1
      BY <2>6 DEF CompletionFails
    <3>2. QED BY <1>9, <2>4, <2>5, <3>1
  <2>7. CASE CompleteJob(w) \/ HandlerFails(w)
    <3>1. faults' = faults
      BY <2>7 DEF CompleteJob, HandlerFails
    <3>2. CASE Waiting(j)' => Waiting(j)
      BY <1>8, <2>4, <2>5, <3>1, <3>2
    <3>3. CASE CompleteJob(w) /\ j = current[w]
      <4>1. status'[j] = "COMPLETED"
        BY <3>3 DEF CompleteJob, Settle, TypeOK
      <4>2. ~Waiting(j)'
        BY <4>1 DEF Waiting
      <4>3. QED BY <3>2, <4>2
    <3>4. CASE HandlerFails(w) /\ j = current[w]
      <4>1. w \in R /\ w \notin R1
        BY <1>2, <1>3, <2>3, <3>4 DEF HandlerFails, Unworked, Done
      <4>2. R1 \subseteq R \ {w}
        BY <2>5, <4>1
      <4>3. PICK d \in Nat : d = Cardinality(R1) /\ d + 1 <= c
        BY <1>4, <1>5, <4>1, <4>2, Counts
      <4>4. IsFiniteSet(R1)
        BY <1>5, <2>5, Counts
      <4>5. effects'[j] + d + One(Waiting(j)') + One(j \in requeues')
              <= 1 + faults' + requeued'
        BY <1>1, <1>6, <2>4, <3>1, <4>3 DEF One
      <4>6. QED BY <1>7, <4>3, <4>4, <4>5
    <3>5. QED BY <2>3, <2>7, <3>2, <3>3, <3>4
  <2>8. QED BY <1>13, <2>6, <2>7
<1>14. ASSUME NEW w \in Workers, Crash(w)
       PROVE  Effects(j)'
  <2>1. /\ batch'[w] = {} /\ \A v \in Workers : v # w => batch'[v] = batch[v] /\ pc'[v] = pc[v]
        /\ effects' = effects /\ requeues' = requeues /\ requeued' = requeued
        /\ faults' = faults + 1 /\ current' = current
    BY <1>14 DEF Crash, TypeOK
  <2>2. R1 \subseteq R
    BY <1>2, <1>3, <2>1 DEF Unworked, Done
  <2>3. QED BY <1>9, <2>1, <2>2
<1>15. ASSUME NEW i \in Jobs, RequeueRead(i)
       PROVE  Effects(j)'
  <2>1. UNCHANGED <<status, batch, pc, current, effects, faults>> /\ requeued' = requeued + 1
    BY <1>15 DEF RequeueRead
  <2>2. R1 = R /\ (Waiting(j)' <=> Waiting(j))
    BY <1>2, <1>3, <2>1 DEF Unworked, Done, Waiting, Held
  <2>3. effects'[j] + c + One(Waiting(j)') + One(j \in requeues')
          <= 1 + faults' + requeued'
    BY <1>1, <1>6, <2>1, <2>2 DEF One
  <2>4. QED BY <1>4, <1>5, <1>7, <2>2, <2>3
<1>16. ASSUME NEW i \in Jobs, RequeueWrite(i)
       PROVE  Effects(j)'
  <2>1. /\ UNCHANGED <<batch, pc, current, effects, faults, requeued>>
        /\ requeues' = requeues \ {i} /\ i \in requeues
    BY <1>16 DEF RequeueWrite
  <2>2. R1 = R
    BY <1>2, <1>3, <2>1 DEF Unworked, Done
  <2>3. CASE i = j
    <3>1. effects'[j] + c + One(Waiting(j)') + One(j \in requeues')
            <= 1 + faults' + requeued'
      BY <1>1, <1>6, <2>1, <2>3 DEF One
    <3>2. QED BY <1>4, <1>5, <1>7, <2>2, <3>1
  <2>4. CASE i # j
    <3>1. status'[j] = status[j]
      BY <1>16, <2>4 DEF RequeueWrite, TypeOK
    <3>2. Waiting(j)' => Waiting(j)
      BY <2>1, <3>1 DEF Waiting, Held
    <3>3. QED BY <1>8, <2>1, <2>2, <3>2
  <2>5. QED BY <2>3, <2>4
<1>17. QED
  BY <1>10, <1>11, <1>12, <1>13, <1>14, <1>15, <1>16 DEF Next, WorkerStep

\* A handler takes effect once, and again at most once for each fault and each
\* requeue, however these fall together with its runs.
THEOREM OnceButForFaults == Punctual => (Spec => []OnceWithoutFaults)
<1> SUFFICES ASSUME Punctual PROVE Spec => []OnceWithoutFaults
  OBVIOUS
<1> DEFINE IInv == LocksFresh /\ \A j \in Jobs : Effects(j)
<1>1. Init => IInv
  <2> SUFFICES ASSUME Init PROVE IInv
    OBVIOUS
  <2>1. LocksFresh
    BY DEF Init, LocksFresh
  <2>2. ASSUME NEW j \in Jobs PROVE Effects(j)
    <3>1. Unworked(j) = {}
      BY DEF Init, Unworked
    <3>2. effects[j] = 0 /\ faults = 0 /\ requeued = 0 /\ requeues = {}
      BY DEF Init
    <3>3. QED BY <3>1, <3>2, FS_EmptySet DEF Effects, One
  <2>3. QED BY <2>1, <2>2
<1>2. TypeOK /\ IInv /\ [Next]_vars => IInv'
  BY LocksFreshStep, EffectsStep
<1>3. TypeOK /\ IInv => OnceWithoutFaults
  <2> SUFFICES ASSUME TypeOK, IInv, NEW j \in Jobs
               PROVE  effects[j] <= 1 + faults + requeued
    BY DEF OnceWithoutFaults
  <2>1. PICK c \in Nat : c = Cardinality(Unworked(j))
    BY Counts DEF Effects
  <2>2. effects[j] \in Nat /\ faults \in Nat /\ requeued \in Nat
    BY DEF TypeOK
  <2>3. effects[j] + c + One(Waiting(j)) + One(j \in requeues) <= 1 + faults + requeued
    BY <2>1 DEF Effects
  <2>4. QED BY <2>2, <2>3 DEF One
<1>4. QED BY <1>1, <1>2, <1>3, TypeCorrect, PTL DEF Spec

----------------------------------------------------------------------------
(* The queue implements Leases.                                              *)

\* What a step makes of the abstract state, while a job has one holder.
LEMMA Stutters ==
  ASSUME UNCHANGED <<status, payload, attempts, batch, requeued>>, Worked' = Worked
  PROVE  UNCHANGED Tasks!vars
<1>1. Holders' = Holders
  BY DEF Holders
<1>2. QED BY <1>1 DEF Tasks!vars

\* The jobs that are handled belong to the workers that hold them.
LEMMA HolderIs ==
  ASSUME TypeOK, Leased, NEW w \in Workers, NEW j \in batch[w]
  PROVE  j \in Jobs /\ Holders[j] = {w}
<1>1. j \in Jobs
  BY DEF TypeOK, Batches
<1>2. \A v \in Workers : j \in batch[v] <=> v = w
  BY <1>1 DEF Leased
<1>3. QED BY <1>1, <1>2 DEF Holders

LEMMA ReleaseMaps ==
  ASSUME TypeOK, Leased, NEW w \in Workers, ReleaseStaleLocks(w)
  PROVE  Tasks!FallBack(Orphans)
<1>1. \A j \in Orphans : j \in Jobs /\ status[j] = "RUNNING" /\ Holders[j] = {}
  BY DEF Orphans, Leased, Holders
<1>2. Holders' = Holders
  BY DEF ReleaseStaleLocks, Holders
<1>3. Worked' = Worked
  BY DEF ReleaseStaleLocks, Worked, TypeOK
<1>4. QED BY <1>1, <1>2, <1>3 DEF Tasks!FallBack, ReleaseStaleLocks

LEMMA ClaimMaps ==
  ASSUME TypeOK, Leased, NEW w \in Workers, NEW S \in Batches, ClaimJobs(w, S)
  PROVE  Tasks!Lease(w, S)
<1>1. batch[w] = {} /\ S \subseteq Jobs
  BY DEF ClaimJobs, TypeOK, Batches
<1>2. \A j \in Jobs : w \notin Holders[j]
  BY <1>1 DEF Holders
<1>3. \A j \in S : status[j] = "PENDING" /\ Holders[j] = {}
  BY <1>1 DEF ClaimJobs, Claimable, Leased, Holders
<1>4. Holders' = [j \in Jobs |-> IF j \in S THEN {w} ELSE Holders[j]]
  <2>1. batch' = [batch EXCEPT ![w] = S]
    BY DEF ClaimJobs
  <2>2. ASSUME NEW j \in Jobs
        PROVE  { v \in Workers : j \in batch'[v] } = IF j \in S THEN {w} ELSE Holders[j]
    <3>1. CASE j \in S
      <4>1. \A v \in Workers : j \in batch'[v] <=> v = w
        BY <1>3, <2>1, <3>1 DEF TypeOK, Holders
      <4>2. QED BY <3>1, <4>1
    <3>2. CASE j \notin S
      <4>1. \A v \in Workers : j \in batch'[v] <=> j \in batch[v]
        BY <1>1, <2>1, <3>2 DEF TypeOK
      <4>2. QED BY <3>2, <4>1 DEF Holders
    <3>3. QED BY <3>1, <3>2
  <2>3. QED BY <2>2 DEF Holders
<1>5. Worked' = Worked
  BY DEF ClaimJobs, Worked, TypeOK, AfterClaim
<1>6. QED BY <1>2, <1>3, <1>4, <1>5 DEF Tasks!Lease, ClaimJobs

LEMMA WorkMaps ==
  ASSUME TypeOK, Leased, NEW w \in Workers, HandlerSucceeds(w)
  PROVE  \E j \in Jobs : Tasks!Work(w, j)
<1>1. PICK j \in Jobs : j = current[w] /\ j \in batch[w]
  BY DEF TypeOK, HandlerSucceeds
<1>2. Holders[j] = {w}
  BY <1>1, HolderIs
<1>3. j \notin Worked
  <2>1. ASSUME NEW v \in Workers, pc[v] = "handled", current[v] = j
        PROVE  FALSE
    <3>1. j \in batch[v] /\ v # w
      BY <2>1 DEF TypeOK, HandlerSucceeds
    <3>2. QED BY <1>1, <3>1 DEF Leased
  <2>2. QED BY <2>1 DEF Worked
<1>4. Worked' = Worked \cup {j}
  <2>1. \A v \in Workers : /\ current'[v] = current[v]
                           /\ pc'[v] = IF v = w THEN "handled" ELSE pc[v]
    BY DEF HandlerSucceeds, TypeOK
  <2>2. \A i \in Jobs : (\E v \in Workers : pc'[v] = "handled" /\ current'[v] = i)
                          <=> i = j \/ \E v \in Workers : pc[v] = "handled" /\ current[v] = i
    BY <1>1, <2>1
  <2>3. QED BY <2>2 DEF Worked
<1>5. Holders' = Holders
  BY DEF HandlerSucceeds, Holders
<1>6. UNCHANGED <<status, payload, attempts>>
  BY DEF HandlerSucceeds, rowVars
<1>7. QED BY <1>2, <1>3, <1>4, <1>5, <1>6 DEF Tasks!Work

\* The worker that settles a job is the one that holds it.
LEMMA SettleMaps ==
  ASSUME TypeOK, Leased, NEW w \in Workers, pc[w] \in {"handling", "handled"},
         NEW st \in {"COMPLETED", "PENDING", "FAILED"}, NEW isDue \in BOOLEAN,
         Settle(w, st, isDue),
         st = "COMPLETED" => pc[w] = "handled",
         st = "PENDING" => ~Exhausted(w),
         st = "FAILED" => Exhausted(w)
  PROVE  Tasks!Report(w, current[w])
<1>1. PICK j \in Jobs : j = current[w] /\ j \in batch[w]
  BY DEF TypeOK
<1>2. Holders[j] = {w}
  BY <1>1, HolderIs
<1>3. claimed[w][j] = attempts[j] /\ attempts[j] \in Nat /\ MaxAttempts \in Nat
  BY <1>1, BoundsAssumption DEF Leased, TypeOK
<1>4. /\ st = "COMPLETED" => j \in Worked
      /\ st = "PENDING" => attempts[j] < MaxAttempts
      /\ st = "FAILED" => attempts[j] >= MaxAttempts
  BY <1>1, <1>3 DEF Worked, Exhausted
<1>5. /\ status' = [status EXCEPT ![j] = st] /\ payload' = payload /\ attempts' = attempts
      /\ batch' = [batch EXCEPT ![w] = batch[w] \ {j}]
      /\ pc' = [pc EXCEPT ![w] = AfterClaim(batch[w] \ {j})] /\ current' = current
  BY <1>1 DEF Settle
<1>6. Holders' = [Holders EXCEPT ![j] = {}]
  <2>1. \A i \in Jobs : { v \in Workers : i \in batch'[v] } = IF i = j THEN {} ELSE Holders[i]
    <3>1. ASSUME NEW i \in Jobs, NEW v \in Workers
          PROVE  i \in batch'[v] <=> i # j /\ i \in batch[v]
      <4>1. CASE v = w
        BY <1>5, <4>1 DEF TypeOK
      <4>2. CASE v # w
        <5>1. j \notin batch[v]
          BY <1>1, <4>2 DEF Leased
        <5>2. batch'[v] = batch[v]
          BY <1>5, <4>2 DEF TypeOK
        <5>3. QED BY <5>1, <5>2
      <4>3. QED BY <4>1, <4>2
    <3>2. QED BY <3>1 DEF Holders
  <2>2. QED BY <2>1 DEF Holders
<1>7. Worked' = Worked \ {j}
  <2>1. pc'[w] \in {"idle", "next"} /\ \A v \in Workers : v # w => pc'[v] = pc[v]
    BY <1>5 DEF TypeOK, AfterClaim
  <2>2. \A v \in Workers : pc[v] = "handled" /\ current[v] = j => v = w
    BY <1>1 DEF TypeOK, Leased
  <2>3. \A i \in Jobs : (\E v \in Workers : pc'[v] = "handled" /\ current'[v] = i)
                          <=> i # j /\ \E v \in Workers : pc[v] = "handled" /\ current[v] = i
    BY <1>1, <1>5, <2>1, <2>2
  <2>4. QED BY <2>3 DEF Worked
<1>8. QED BY <1>1, <1>2, <1>4, <1>5, <1>6, <1>7 DEF Tasks!Report

LEMMA OutcomeMaps ==
  ASSUME TypeOK, Leased, NEW w \in Workers,
         CompleteJob(w) \/ HandlerFails(w) \/ CompletionFails(w)
  PROVE  Tasks!Report(w, current[w])
<1>1. pc[w] \in {"handling", "handled"} /\ due[current[w]] \in BOOLEAN
  BY OutcomeShape DEF TypeOK
<1>2. CASE CompleteJob(w)
  <2>1. pc[w] = "handled" /\ Settle(w, "COMPLETED", due[current[w]])
    BY <1>2 DEF CompleteJob
  <2>2. QED BY <1>1, <2>1, SettleMaps
<1>3. CASE FailOrRetry(w)
  <2>1. CASE Exhausted(w)
    <3>1. Settle(w, "FAILED", due[current[w]])
      BY <1>3, <2>1 DEF FailOrRetry
    <3>2. QED BY <1>1, <2>1, <3>1, SettleMaps
  <2>2. CASE ~Exhausted(w)
    <3>1. Settle(w, "PENDING", FALSE)
      BY <1>3, <2>2 DEF FailOrRetry
    <3>2. QED BY <1>1, <2>2, <3>1, SettleMaps
  <2>3. QED BY <2>1, <2>2
<1>4. QED BY <1>2, <1>3 DEF HandlerFails, CompletionFails

LEMMA CrashMaps ==
  ASSUME TypeOK, Leased, NEW w \in Workers, Crash(w)
  PROVE  Tasks!Die(w)
<1>1. /\ batch' = [batch EXCEPT ![w] = {}] /\ pc' = [pc EXCEPT ![w] = "idle"]
      /\ current' = current /\ UNCHANGED <<status, payload, attempts>>
  BY DEF Crash, rowVars
<1>2. Holders' = [j \in Jobs |-> Holders[j] \ {w}]
  <2>1. \A v \in Workers : batch'[v] = IF v = w THEN {} ELSE batch[v]
    BY <1>1 DEF TypeOK
  <2>2. \A j \in Jobs : { v \in Workers : j \in batch'[v] } = Holders[j] \ {w}
    BY <2>1 DEF Holders
  <2>3. QED BY <2>2 DEF Holders
<1>3. Worked' = { j \in Worked : w \notin Holders[j] }
  <2>1. \A v \in Workers : pc'[v] = IF v = w THEN "idle" ELSE pc[v]
    BY <1>1 DEF TypeOK
  <2>2. \A j \in Jobs, v \in Workers : pc[v] = "handled" /\ current[v] = j =>
          (w \in Holders[j] <=> v = w)
    <3>1. ASSUME NEW j \in Jobs, NEW v \in Workers, pc[v] = "handled", current[v] = j
          PROVE  Holders[j] = {v}
      <4>1. j \in batch[v]
        BY <3>1 DEF TypeOK
      <4>2. QED BY <4>1, HolderIs
    <3>2. QED BY <3>1
  <2>3. \A j \in Jobs : (\E v \in Workers : pc'[v] = "handled" /\ current'[v] = j)
                          <=> j \in Worked /\ w \notin Holders[j]
    BY <1>1, <2>1, <2>2 DEF Worked
  <2>4. QED BY <2>3 DEF Worked
<1>4. QED BY <1>1, <1>2, <1>3 DEF Tasks!Die

LEMMA CancelMaps ==
  ASSUME TypeOK, Leased, NEW j \in Jobs, CancelJob(j)
  PROVE  Tasks!Withdraw(j)
<1>1. status[j] = "PENDING" /\ \A v \in Workers : j \notin batch[v]
  BY DEF CancelJob, Leased
<1>2. Holders[j] = {}
  BY <1>1 DEF Holders
<1>3. Holders' = Holders /\ Worked' = Worked
  BY DEF CancelJob, workerVars, Holders, Worked
<1>4. QED BY <1>1, <1>2, <1>3 DEF Tasks!Withdraw, CancelJob

LEMMA ChangeMaps ==
  ASSUME TypeOK, Keyed, NEW k \in Keys, Change(k)
  PROVE  \/ UNCHANGED <<status, payload, attempts>>
         \/ \E j \in Jobs : Tasks!Ask(j, k)
<1>1. CASE UNCHANGED rowVars
  BY <1>1 DEF rowVars
<1>2. CASE OpenJobs(k) = {} /\ \E j \in Jobs : CreateJob(j, k)
  <2>1. PICK j \in Jobs : CreateJob(j, k)
    BY <1>2
  <2>2. Tasks!OpenFor(k) = {}
    BY <1>2 DEF Tasks!OpenFor, OpenJobs, Open, Keyed
  <2>3. Holders' = Holders /\ Worked' = Worked
    BY DEF Change, workerVars, Holders, Worked
  <2>4. QED BY <2>1, <2>2, <2>3 DEF Tasks!Ask, CreateJob
<1>3. QED BY <1>1, <1>2 DEF Change

LEMMA LeasesInit == Init => Tasks!Init
<1> SUFFICES ASSUME Init PROVE Tasks!Init
  OBVIOUS
<1>1. Holders = [j \in Jobs |-> {}] /\ Worked = {}
  BY DEF Init, Holders, Worked
<1>2. (requeued = 0) = TRUE
  BY DEF Init
<1>3. QED BY <1>1, <1>2 DEF Init, Tasks!Init

LEMMA LeasesStep ==
  ASSUME Punctual, TypeOK, requeued = 0 => Leased /\ Keyed, [Next]_vars
  PROVE  Tasks!Next \/ UNCHANGED Tasks!vars
<1> USE DEF rowVars, workerVars, dataVars, requeueVars
<1>1. CASE requeued' # 0
  <2>1. (requeued' = 0) = FALSE
    BY <1>1
  <2>2. QED BY <2>1 DEF Tasks!Next
<1>2. CASE requeued' = 0
  <2>1. requeued = 0 /\ requeued' = requeued /\ Leased /\ Keyed
    BY <1>2, RequeuedGrows
  <2>2. (requeued' = 0) = (requeued = 0)
    BY <1>2, <2>1
  <2>3. ASSUME Tasks!KeepPromise PROVE Tasks!Next
    BY <2>2, <2>3 DEF Tasks!Next
  <2>4. ASSUME NEW k \in Keys, Change(k)
        PROVE  Tasks!KeepPromise \/ UNCHANGED Tasks!vars
    <3>1. CASE UNCHANGED <<status, payload, attempts>>
      <4>1. batch' = batch /\ requeued' = requeued /\ Worked' = Worked
        BY <2>4 DEF Change, Worked
      <4>2. QED BY <3>1, <4>1, Stutters
    <3>2. CASE \E j \in Jobs : Tasks!Ask(j, k)
      BY <3>2 DEF Tasks!KeepPromise
    <3>3. QED BY <2>1, <2>4, <3>1, <3>2, ChangeMaps
  <2>5. ASSUME NEW w \in Workers, ReleaseStaleLocks(w)
        PROVE  Tasks!KeepPromise
    <3>1. Tasks!FallBack(Orphans) /\ Orphans \in SUBSET Jobs
      BY <2>1, <2>5, ReleaseMaps DEF Orphans
    <3>2. QED BY <3>1 DEF Tasks!KeepPromise
  <2>6. ASSUME NEW w \in Workers, NEW S \in Batches, ClaimJobs(w, S)
        PROVE  Tasks!KeepPromise
    <3>1. Tasks!Lease(w, S) /\ S \in SUBSET Jobs
      BY <2>1, <2>6, ClaimMaps DEF Batches
    <3>2. QED BY <3>1 DEF Tasks!KeepPromise
  <2>7. ASSUME NEW w \in Workers, NEW j \in Jobs, StartHandler(w, j)
        PROVE  UNCHANGED Tasks!vars
    <3>1. UNCHANGED <<status, payload, attempts, batch, requeued>>
      BY <2>7 DEF StartHandler
    <3>2. Worked' = Worked
      BY <2>7 DEF StartHandler, Worked, TypeOK
    <3>3. QED BY <3>1, <3>2, Stutters
  <2>8. ASSUME NEW w \in Workers, HandlerSucceeds(w)
        PROVE  Tasks!KeepPromise
    BY <2>1, <2>8, WorkMaps DEF Tasks!KeepPromise
  <2>9. ASSUME NEW w \in Workers, CompleteJob(w) \/ HandlerFails(w) \/ CompletionFails(w)
        PROVE  Tasks!KeepPromise
    <3>1. Tasks!Report(w, current[w]) /\ current[w] \in Jobs
      BY <2>1, <2>9, OutcomeMaps DEF TypeOK
    <3>2. QED BY <3>1 DEF Tasks!KeepPromise
  <2>10. ASSUME NEW w \in Workers, Crash(w)
         PROVE  Tasks!KeepPromise
    BY <2>1, <2>10, CrashMaps DEF Tasks!KeepPromise
  <2>11. ASSUME NEW j \in Jobs, BackoffEnds(j) \/ LockAges(j)
         PROVE  UNCHANGED Tasks!vars
    <3>1. UNCHANGED <<status, payload, attempts, batch, requeued>> /\ Worked' = Worked
      BY <2>11 DEF BackoffEnds, LockAges, Worked
    <3>2. QED BY <3>1, Stutters
  <2>12. ASSUME NEW j \in Jobs, CancelJob(j)
         PROVE  Tasks!KeepPromise
    BY <2>1, <2>12, CancelMaps DEF Tasks!KeepPromise
  <2>13. ASSUME NEW j \in Jobs, RequeueRead(j) \/ RequeueWrite(j)
         PROVE  FALSE
    BY <1>2, <2>1, <2>13 DEF RequeueRead, RequeueWrite, Leased, TypeOK
  <2>14. CASE UNCHANGED vars
    <3>1. UNCHANGED <<status, payload, attempts, batch, requeued>> /\ Worked' = Worked
      BY <2>14 DEF vars, Worked
    <3>2. QED BY <3>1, Stutters
  <2>15. QED
    BY <2>3, <2>4, <2>5, <2>6, <2>7, <2>8, <2>9, <2>10, <2>11, <2>12, <2>13, <2>14
    DEF Next, WorkerStep
<1>3. QED BY <1>1, <1>2

\* Locks, retries, backoff and keys implement leases: as long as batches are
\* punctual and until an operator requeues a job, a worker is alone with the
\* jobs it claimed, only a death lets them fall back, and a change waits for one
\* open job at most.
THEOREM ImplementsLeases == Punctual => (Spec => JobsAreLeased)
<1> SUFFICES ASSUME Punctual PROVE Spec => JobsAreLeased
  OBVIOUS
<1> DEFINE IInv == requeued = 0 => Leased /\ Keyed
<1>1. Init => IInv
  BY DEF Init, Leased, Keyed, Open
<1>2. TypeOK /\ IInv /\ [Next]_vars => IInv'
  BY LeasedStep, KeyedStep, RequeuedGrows
<1>3. Init => Tasks!Init
  BY LeasesInit
<1>4. TypeOK /\ IInv /\ [Next]_vars => [Tasks!Next]_(Tasks!vars)
  BY LeasesStep
<1>5. QED BY <1>1, <1>2, <1>3, <1>4, TypeCorrect, PTL DEF Spec, JobsAreLeased, Tasks!Spec
=============================================================================
