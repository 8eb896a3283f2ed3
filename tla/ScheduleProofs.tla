--------------------------- MODULE ScheduleProofs ---------------------------
(***************************************************************************)
(* Once per period, for every number of schedulers, workers, jobs, buckets  *)
(* and faults.                                                              *)
(***************************************************************************)
EXTENDS Schedule, FiniteSetTheorems, TLAPS

\* What is needed of the types.
Rows ==
  /\ status \in [Jobs -> Open \cup Finished \cup {"ABSENT"}]
  /\ payload \in [Jobs -> Keys]
  /\ key \in [Jobs -> Keys \cup {NoKey}]
  /\ batch \in [Workers -> SUBSET Jobs]
  /\ current \in [Workers -> Jobs]
  /\ pc \in [Workers -> PC]
  /\ requeues \subseteq Jobs
  /\ at \in [Schedulers -> {"idle", "check", "lookup", "release", "insert"}]
  /\ bucket \in [Schedulers -> Keys]
  /\ found \in [Schedulers -> SUBSET Jobs]
  /\ overtaken \subseteq Keys

\* Nobody works on a row that does not exist.
OnlyRealRows ==
  /\ \A w \in Workers : \A j \in batch[w] : status[j] # "ABSENT"
  /\ \A w \in Workers : pc[w] \in {"handling", "handled"} => current[w] \in batch[w]
  /\ \A j \in requeues : status[j] # "ABSENT"

\* A key is only ever carried by an existing row of that bucket.
KeyNamesBucket ==
  \A j \in Jobs : key[j] # NoKey => key[j] = payload[j] /\ status[j] # "ABSENT"

\* Only an overtaken call ever takes a key away.
OnlyOvertakenRelease ==
  \A s \in Schedulers :
    /\ at[s] = "release" => bucket[s] \in overtaken
    /\ \A j \in found[s] : payload[j] \in overtaken /\ status[j] # "ABSENT"

\* A bucket nobody was overtaken on has one row at most, which carries its key
\* and is not finished as long as some call believes that there is none.
Calm ==
  \A k \in Keys \ overtaken :
    /\ \A j \in JobsOfPeriod(k) : key[j] = k
    /\ \A i, j \in JobsOfPeriod(k) : i = j
    /\ \A s \in Schedulers, j \in JobsOfPeriod(k) :
         Trusting(s, k) => status[j] \notin Finished

PeriodInv == Rows /\ OnlyRealRows /\ KeyNamesBucket /\ OnlyOvertakenRelease /\ Calm

----------------------------------------------------------------------------
\* The tables are empty at first.
LEMMA PeriodInit == ScheduleInit => PeriodInv
<1> SUFFICES ASSUME ScheduleInit PROVE PeriodInv
  OBVIOUS
<1>1. Rows
  BY DEF ScheduleInit, Init, Rows, PC
<1>2. OnlyRealRows
  BY DEF ScheduleInit, Init, OnlyRealRows
<1>3. KeyNamesBucket
  BY DEF ScheduleInit, Init, KeyNamesBucket
<1>4. OnlyOvertakenRelease
  BY DEF ScheduleInit, Init, OnlyOvertakenRelease
<1>5. \A k \in Keys : JobsOfPeriod(k) = {}
  BY DEF ScheduleInit, Init, JobsOfPeriod
<1>6. Calm
  BY <1>5 DEF Calm
<1> QED BY <1>1, <1>2, <1>3, <1>4, <1>6 DEF PeriodInv

----------------------------------------------------------------------------
(* What every step of the queue itself leaves alone.                        *)

RowsStand ==
  /\ payload' = payload /\ key' = key
  /\ status' \in [Jobs -> Open \cup Finished \cup {"ABSENT"}]
  /\ \A j \in Jobs : status'[j] = "ABSENT" <=> status[j] = "ABSENT"
  /\ batch' \in [Workers -> SUBSET Jobs]
  /\ current' \in [Workers -> Jobs]
  /\ pc' \in [Workers -> PC]
  /\ requeues' \subseteq Jobs
  /\ OnlyRealRows'

\* Writing the outcome of the running job and going on to the next.
LEMMA SettleStands ==
  ASSUME Rows, OnlyRealRows, NEW w \in Workers, pc[w] \in {"handling", "handled"},
         NEW st \in {"PENDING", "COMPLETED", "FAILED"}, NEW d, Settle(w, st, d),
         UNCHANGED requeueVars
  PROVE  RowsStand
<1> DEFINE j == current[w]
<1>1. j \in batch[w] /\ j \in Jobs /\ status[j] # "ABSENT"
  BY DEF Rows, OnlyRealRows
<1>2. st \in Open \cup Finished /\ st # "ABSENT"
  BY DEF Open, Finished
<1>3. /\ status' = [status EXCEPT ![j] = st]
      /\ batch' = [batch EXCEPT ![w] = @ \ {j}]
      /\ pc' = [pc EXCEPT ![w] = AfterClaim(batch[w] \ {j})]
      /\ payload' = payload /\ key' = key /\ current' = current
      /\ requeues' = requeues
  BY DEF Settle, requeueVars
<1>4. AfterClaim(batch[w] \ {j}) \in {"idle", "next"}
  BY DEF AfterClaim
<1> HIDE DEF j
<1>5. /\ status' \in [Jobs -> Open \cup Finished \cup {"ABSENT"}]
      /\ \A i \in Jobs : status'[i] = "ABSENT" <=> status[i] = "ABSENT"
  BY <1>1, <1>2, <1>3 DEF Rows
<1>6. /\ batch' \in [Workers -> SUBSET Jobs]
      /\ current' \in [Workers -> Jobs]
      /\ pc' \in [Workers -> PC]
      /\ requeues' \subseteq Jobs
  BY <1>1, <1>3, <1>4 DEF Rows, PC
<1>7. OnlyRealRows'
  <2>1. \A v \in Workers : \A i \in batch'[v] : status'[i] # "ABSENT"
    <3> SUFFICES ASSUME NEW v \in Workers, NEW i \in batch'[v] PROVE status'[i] # "ABSENT"
      OBVIOUS
    <3>1. i \in batch[v] /\ i \in Jobs
      BY <1>1, <1>3 DEF Rows
    <3>2. status[i] # "ABSENT"
      BY <3>1 DEF OnlyRealRows
    <3> QED BY <3>1, <3>2, <1>5
  <2>2. \A v \in Workers : pc'[v] \in {"handling", "handled"} => current'[v] \in batch'[v]
    <3> SUFFICES ASSUME NEW v \in Workers, pc'[v] \in {"handling", "handled"}
                 PROVE  current'[v] \in batch'[v]
      OBVIOUS
    <3>1. v # w
      BY <1>3, <1>4 DEF Rows
    <3>2. pc'[v] = pc[v] /\ batch'[v] = batch[v] /\ current'[v] = current[v]
      BY <1>3, <3>1 DEF Rows
    <3> QED BY <3>2 DEF OnlyRealRows
  <2>3. \A i \in requeues' : status'[i] # "ABSENT"
    BY <1>3, <1>5 DEF OnlyRealRows, Rows
  <2> QED BY <2>1, <2>2, <2>3 DEF OnlyRealRows
<1> QED BY <1>3, <1>5, <1>6, <1>7 DEF RowsStand

\* The steps of runPendingJobs.
LEMMA WorkerStands ==
  ASSUME Rows, OnlyRealRows, NEW w \in Workers,
         \/ ReleaseStaleLocks(w)
         \/ \E S \in Batches : ClaimJobs(w, S)
         \/ \E j \in Jobs : StartHandler(w, j)
         \/ HandlerSucceeds(w) \/ CompleteJob(w) \/ HandlerFails(w)
         \/ CompletionFails(w) \/ Crash(w)
  PROVE  RowsStand
<1>1. CASE ReleaseStaleLocks(w)
  <2>1. /\ status' = [j \in Jobs |-> IF j \in Orphans THEN "PENDING" ELSE status[j]]
        /\ pc' = [pc EXCEPT ![w] = "claim"]
        /\ UNCHANGED <<payload, key, batch, current, requeues>>
    BY <1>1 DEF ReleaseStaleLocks, requeueVars
  <2>2. \A j \in Orphans : status[j] # "ABSENT"
    BY DEF Orphans
  <2>3. /\ status' \in [Jobs -> Open \cup Finished \cup {"ABSENT"}]
        /\ \A j \in Jobs : status'[j] = "ABSENT" <=> status[j] = "ABSENT"
    BY <2>1, <2>2 DEF Rows, Open
  <2>4. pc' \in [Workers -> PC]
    BY <2>1 DEF Rows, PC
  <2>5. OnlyRealRows'
    BY <2>1, <2>3 DEF OnlyRealRows, Rows
  <2> QED BY <2>1, <2>3, <2>4, <2>5 DEF RowsStand, Rows
<1>2. CASE \E S \in Batches : ClaimJobs(w, S)
  <2>1. PICK S \in Batches : ClaimJobs(w, S)
    BY <1>2
  <2>2. S \subseteq Jobs /\ \A j \in S : status[j] # "ABSENT"
    BY <2>1 DEF Batches, ClaimJobs, Claimable
  <2>3. /\ status' = [j \in Jobs |-> IF j \in S THEN "RUNNING" ELSE status[j]]
        /\ batch' = [batch EXCEPT ![w] = S]
        /\ pc' = [pc EXCEPT ![w] = AfterClaim(S)]
        /\ UNCHANGED <<payload, key, current, requeues>>
    BY <2>1 DEF ClaimJobs, requeueVars
  <2>4. AfterClaim(S) \in {"idle", "next"}
    BY DEF AfterClaim
  <2>5. /\ status' \in [Jobs -> Open \cup Finished \cup {"ABSENT"}]
        /\ \A j \in Jobs : status'[j] = "ABSENT" <=> status[j] = "ABSENT"
    BY <2>2, <2>3 DEF Rows, Open
  <2>6. batch' \in [Workers -> SUBSET Jobs] /\ pc' \in [Workers -> PC]
    BY <2>2, <2>3, <2>4 DEF Rows, PC
  <2>7. OnlyRealRows'
    <3>1. \A v \in Workers : \A i \in batch'[v] : status'[i] # "ABSENT"
      BY <2>2, <2>3, <2>5, <2>6 DEF OnlyRealRows, Rows
    <3>2. \A v \in Workers : pc'[v] \in {"handling", "handled"} => current'[v] \in batch'[v]
      BY <2>3, <2>4 DEF OnlyRealRows, Rows
    <3>3. \A i \in requeues' : status'[i] # "ABSENT"
      BY <2>3, <2>5 DEF OnlyRealRows, Rows
    <3> QED BY <3>1, <3>2, <3>3 DEF OnlyRealRows
  <2> QED BY <2>3, <2>5, <2>6, <2>7 DEF RowsStand, Rows
<1>3. CASE \E j \in Jobs : StartHandler(w, j)
  <2>1. PICK j \in Jobs : StartHandler(w, j)
    BY <1>3
  <2>2. /\ j \in batch[w]
        /\ current' = [current EXCEPT ![w] = j]
        /\ pc' = [pc EXCEPT ![w] = "handling"]
        /\ UNCHANGED <<status, payload, key, batch, requeues>>
    BY <2>1 DEF StartHandler, rowVars, requeueVars
  <2>3. OnlyRealRows'
    BY <2>2 DEF OnlyRealRows, Rows
  <2> QED BY <2>2, <2>3 DEF RowsStand, Rows, PC
<1>4. CASE HandlerSucceeds(w)
  <2>1. /\ pc[w] = "handling"
        /\ pc' = [pc EXCEPT ![w] = "handled"]
        /\ UNCHANGED <<status, payload, key, batch, current, requeues>>
    BY <1>4 DEF HandlerSucceeds, rowVars, requeueVars
  <2>2. OnlyRealRows'
    BY <2>1 DEF OnlyRealRows, Rows
  <2> QED BY <2>1, <2>2 DEF RowsStand, Rows, PC
<1>5. CASE CompleteJob(w)
  BY <1>5, SettleStands DEF CompleteJob
<1>6. CASE HandlerFails(w)
  BY <1>6, SettleStands DEF HandlerFails, FailOrRetry
<1>7. CASE CompletionFails(w)
  BY <1>7, SettleStands DEF CompletionFails, FailOrRetry
<1>8. CASE Crash(w)
  <2>1. /\ batch' = [batch EXCEPT ![w] = {}]
        /\ pc' = [pc EXCEPT ![w] = "idle"]
        /\ UNCHANGED <<status, payload, key, current, requeues>>
    BY <1>8 DEF Crash, rowVars, requeueVars
  <2>2. OnlyRealRows'
    BY <2>1 DEF OnlyRealRows, Rows
  <2> QED BY <2>1, <2>2 DEF RowsStand, Rows, PC
<1> QED BY <1>1, <1>2, <1>3, <1>4, <1>5, <1>6, <1>7, <1>8

\* Time and the operator.
LEMMA OperatorStands ==
  ASSUME Rows, OnlyRealRows, NEW j \in Jobs,
         \/ BackoffEnds(j) \/ LockAges(j) \/ CancelJob(j)
         \/ RequeueRead(j) \/ RequeueWrite(j)
  PROVE  RowsStand
<1>1. CASE BackoffEnds(j) \/ LockAges(j)
  <2>1. UNCHANGED <<status, payload, key, batch, current, pc, requeues>>
    BY <1>1 DEF BackoffEnds, LockAges, workerVars, requeueVars
  <2> QED BY <2>1 DEF RowsStand, Rows, OnlyRealRows
<1>2. CASE CancelJob(j)
  <2>1. /\ status[j] = "PENDING"
        /\ status' = [status EXCEPT ![j] = "CANCELLED"]
        /\ UNCHANGED <<payload, key, batch, current, pc, requeues>>
    BY <1>2 DEF CancelJob, workerVars, requeueVars
  <2>2. /\ status' \in [Jobs -> Open \cup Finished \cup {"ABSENT"}]
        /\ \A i \in Jobs : status'[i] = "ABSENT" <=> status[i] = "ABSENT"
    BY <2>1 DEF Rows, Finished
  <2>3. OnlyRealRows'
    BY <2>1, <2>2 DEF OnlyRealRows, Rows
  <2> QED BY <2>1, <2>2, <2>3 DEF RowsStand, Rows
<1>3. CASE RequeueRead(j)
  <2>1. /\ status[j] # "ABSENT"
        /\ requeues' = requeues \cup {j}
        /\ UNCHANGED <<status, payload, key, batch, current, pc>>
    BY <1>3 DEF RequeueRead, rowVars, workerVars
  <2>2. OnlyRealRows'
    BY <2>1 DEF OnlyRealRows
  <2> QED BY <2>1, <2>2 DEF RowsStand, Rows
<1>4. CASE RequeueWrite(j)
  <2>1. /\ j \in requeues
        /\ requeues' = requeues \ {j}
        /\ status' = [status EXCEPT ![j] = "PENDING"]
        /\ UNCHANGED <<payload, key, batch, current, pc>>
    BY <1>4 DEF RequeueWrite, workerVars
  <2>2. /\ status' \in [Jobs -> Open \cup Finished \cup {"ABSENT"}]
        /\ \A i \in Jobs : status'[i] = "ABSENT" <=> status[i] = "ABSENT"
    BY <2>1 DEF Rows, Open, OnlyRealRows
  <2>3. OnlyRealRows'
    BY <2>1, <2>2 DEF OnlyRealRows, Rows
  <2> QED BY <2>1, <2>2, <2>3 DEF RowsStand, Rows
<1> QED BY <1>1, <1>2, <1>3, <1>4

----------------------------------------------------------------------------
\* A step of the queue keeps the invariant: a bucket one of whose jobs finishes
\* under a call that believes there is none is overtaken from then on.
LEMMA QueueKeepsPeriods ==
  ASSUME PeriodInv, NEW A, A => RowsStand, QueueStep(A)
  PROVE  PeriodInv'
<1>1. /\ payload' = payload /\ key' = key
      /\ status' \in [Jobs -> Open \cup Finished \cup {"ABSENT"}]
      /\ \A j \in Jobs : status'[j] = "ABSENT" <=> status[j] = "ABSENT"
      /\ batch' \in [Workers -> SUBSET Jobs]
      /\ current' \in [Workers -> Jobs]
      /\ pc' \in [Workers -> PC]
      /\ requeues' \subseteq Jobs
      /\ OnlyRealRows'
  BY DEF QueueStep, RowsStand
<1>2. /\ at' = at /\ bucket' = bucket /\ found' = found
      /\ overtaken \subseteq overtaken' /\ overtaken' \subseteq overtaken \cup Keys
      /\ \A k \in Keys \ overtaken', s \in Schedulers, j \in Jobs :
           Trusting(s, k) /\ payload[j] = k => status'[j] \notin Finished
  BY DEF QueueStep
<1>3. Rows'
  BY <1>1, <1>2 DEF PeriodInv, Rows
<1>4. KeyNamesBucket'
  BY <1>1 DEF PeriodInv, KeyNamesBucket
<1>5. OnlyOvertakenRelease'
  BY <1>1, <1>2 DEF PeriodInv, OnlyOvertakenRelease, Rows
<1>6. \A k : JobsOfPeriod(k)' = JobsOfPeriod(k)
  BY <1>1 DEF JobsOfPeriod
<1>7. Calm'
  <2> SUFFICES ASSUME NEW k \in Keys \ overtaken'
               PROVE  /\ \A j \in JobsOfPeriod(k)' : key'[j] = k
                      /\ \A i, j \in JobsOfPeriod(k)' : i = j
                      /\ \A s \in Schedulers, j \in JobsOfPeriod(k)' :
                           Trusting(s, k)' => status'[j] \notin Finished
    BY <1>6 DEF Calm
  <2>1. k \in Keys \ overtaken
    BY <1>2
  <2>2. /\ \A j \in JobsOfPeriod(k) : key[j] = k
        /\ \A i, j \in JobsOfPeriod(k) : i = j
    BY <2>1 DEF PeriodInv, Calm
  <2>3. \A s \in Schedulers : Trusting(s, k)' = Trusting(s, k)
    BY <1>2 DEF Trusting
  <2>4. \A j \in JobsOfPeriod(k) : j \in Jobs /\ payload[j] = k
    BY DEF JobsOfPeriod
  <2>5. \A s \in Schedulers, j \in JobsOfPeriod(k) :
          Trusting(s, k) => status'[j] \notin Finished
    BY <1>2, <2>4
  <2> QED BY <1>1, <1>6, <2>2, <2>3, <2>5
<1> QED BY <1>1, <1>3, <1>4, <1>5, <1>7 DEF PeriodInv

----------------------------------------------------------------------------
(* The schedulers' steps.                                                   *)

\* Looking changes nobody's row.
LEMMA LookingKeepsPeriods ==
  ASSUME PeriodInv, NEW s \in Schedulers,
         (\E k \in Keys : Begin(s, k)) \/ PreCheck(s) \/ Lookup(s)
  PROVE  PeriodInv'
<1>1. UNCHANGED <<status, payload, key, batch, current, pc, requeues, overtaken>>
  BY DEF Begin, PreCheck, Lookup, QueueStands, vars, rowVars, workerVars, requeueVars
<1>2. \A k : JobsOfPeriod(k)' = JobsOfPeriod(k) /\ Carriers(k)' = Carriers(k)
  BY <1>1 DEF JobsOfPeriod, Carriers
<1>3. OnlyRealRows' /\ KeyNamesBucket'
  BY <1>1 DEF PeriodInv, OnlyRealRows, KeyNamesBucket
<1>4. CASE \E k \in Keys : Begin(s, k)
  <2>1. PICK k \in Keys : Begin(s, k)
    BY <1>4
  <2>2. /\ at' = [at EXCEPT ![s] = "check"]
        /\ bucket' = [bucket EXCEPT ![s] = k]
        /\ found' = found
    BY <2>1 DEF Begin, Go
  <2>3. \A r \in Schedulers : \A l : Trusting(r, l)' => Trusting(r, l)
    BY <2>2 DEF Trusting, PeriodInv, Rows
  <2>4. Rows'
    BY <1>1, <2>2 DEF PeriodInv, Rows
  <2>5. OnlyOvertakenRelease'
    BY <1>1, <2>2 DEF PeriodInv, OnlyOvertakenRelease, Rows
  <2>6. Calm'
    BY <1>1, <1>2, <2>3 DEF PeriodInv, Calm
  <2> QED BY <1>3, <2>4, <2>5, <2>6 DEF PeriodInv
<1>5. CASE PreCheck(s)
  <2>1. /\ at' = [at EXCEPT ![s] = IF Served(bucket[s]) THEN "idle" ELSE "lookup"]
        /\ bucket' = bucket /\ found' = found
    BY <1>5 DEF PreCheck, Go
  <2>2. Rows'
    BY <1>1, <2>1 DEF PeriodInv, Rows
  <2>3. OnlyOvertakenRelease'
    BY <1>1, <2>1 DEF PeriodInv, OnlyOvertakenRelease, Rows
  <2>4. Calm'
    <3> SUFFICES ASSUME NEW k \in Keys \ overtaken, NEW r \in Schedulers,
                        NEW j \in JobsOfPeriod(k), Trusting(r, k)'
                 PROVE  status[j] \notin Finished
      BY <1>1, <1>2 DEF PeriodInv, Calm
    <3>1. CASE Trusting(r, k)
      BY <3>1 DEF PeriodInv, Calm
    <3>2. CASE ~Trusting(r, k)
      <4>1. r = s /\ bucket[s] = k /\ ~Served(k)
        BY <3>2, <2>1 DEF Trusting, PeriodInv, Rows
      <4>2. key[j] = k
        BY DEF PeriodInv, Calm
      <4> QED BY <4>1, <4>2 DEF Served, Carriers, JobsOfPeriod
    <3> QED BY <3>1, <3>2
  <2> QED BY <1>3, <2>2, <2>3, <2>4 DEF PeriodInv
<1>6. CASE Lookup(s)
  <2>1. /\ at[s] = "lookup" /\ bucket' = bucket
        /\ \/ /\ at' = [at EXCEPT ![s] = "insert"] /\ found' = found
           \/ /\ at' = [at EXCEPT ![s] = "idle"] /\ found' = found
           \/ \E j \in Carriers(bucket[s]) :
                /\ status[j] \notin Open
                /\ at' = [at EXCEPT ![s] = "release"]
                /\ found' = [found EXCEPT ![s] = {j}]
    BY <1>6 DEF Lookup, Go
  <2>2. Rows'
    BY <1>1, <2>1 DEF PeriodInv, Rows, Carriers
  <2>3. \A r \in Schedulers : \A l : Trusting(r, l)' => Trusting(r, l)
    BY <2>1 DEF Trusting, PeriodInv, Rows
  <2>4. Calm'
    BY <1>1, <1>2, <2>3 DEF PeriodInv, Calm
  <2>5. OnlyOvertakenRelease'
    <3>1. CASE \E j \in Carriers(bucket[s]) :
                /\ status[j] \notin Open
                /\ at' = [at EXCEPT ![s] = "release"]
                /\ found' = [found EXCEPT ![s] = {j}]
      <4>1. PICK j \in Carriers(bucket[s]) :
                /\ status[j] \notin Open
                /\ at' = [at EXCEPT ![s] = "release"]
                /\ found' = [found EXCEPT ![s] = {j}]
        BY <3>1
      <4>2. j \in Jobs /\ key[j] = bucket[s] /\ bucket[s] \in Keys /\ key[j] # NoKey
        BY RowsAssumption DEF Carriers, PeriodInv, Rows
      <4>3. payload[j] = bucket[s] /\ status[j] # "ABSENT"
        BY <4>2 DEF PeriodInv, KeyNamesBucket
      <4>4. status[j] \in Finished
        BY <4>1, <4>2, <4>3 DEF PeriodInv, Rows
      <4>5. Trusting(s, bucket[s]) /\ j \in JobsOfPeriod(bucket[s])
        BY <2>1, <4>2, <4>3 DEF Trusting, JobsOfPeriod
      <4>6. bucket[s] \in overtaken
        BY <4>2, <4>4, <4>5 DEF PeriodInv, Calm
      <4> QED BY <1>1, <2>1, <4>1, <4>3, <4>6 DEF PeriodInv, OnlyOvertakenRelease, Rows
    <3>2. CASE at' \in {[at EXCEPT ![s] = "insert"], [at EXCEPT ![s] = "idle"]} /\ found' = found
      BY <1>1, <2>1, <3>2 DEF PeriodInv, OnlyOvertakenRelease, Rows
    <3> QED BY <2>1, <3>1, <3>2
  <2> QED BY <1>3, <2>2, <2>4, <2>5 DEF PeriodInv
<1> QED BY <1>4, <1>5, <1>6

\* A death forgets what the call was about.
LEMMA DeathKeepsPeriods ==
  ASSUME PeriodInv, NEW s \in Schedulers, SchedulerDies(s)
  PROVE  PeriodInv'
<1>1. /\ UNCHANGED <<status, payload, key, batch, current, pc, requeues, bucket, overtaken>>
      /\ at' = [at EXCEPT ![s] = "idle"]
      /\ found' = [found EXCEPT ![s] = {}]
  BY DEF SchedulerDies, Go, rowVars, workerVars, requeueVars
<1>2. \A r \in Schedulers : \A l : Trusting(r, l)' => Trusting(r, l)
  BY <1>1 DEF Trusting, PeriodInv, Rows
<1>3. \A k : JobsOfPeriod(k)' = JobsOfPeriod(k)
  BY <1>1 DEF JobsOfPeriod
<1>4. Rows'
  BY <1>1 DEF PeriodInv, Rows
<1>5. OnlyRealRows' /\ KeyNamesBucket'
  BY <1>1 DEF PeriodInv, OnlyRealRows, KeyNamesBucket
<1>6. OnlyOvertakenRelease'
  BY <1>1 DEF PeriodInv, OnlyOvertakenRelease, Rows
<1>7. Calm'
  BY <1>1, <1>2, <1>3 DEF PeriodInv, Calm
<1> QED BY <1>4, <1>5, <1>6, <1>7 DEF PeriodInv

\* A key is taken from a row of an overtaken bucket only.
LEMMA ReleaseKeepsPeriods ==
  ASSUME PeriodInv, NEW s \in Schedulers, ReleaseKey(s)
  PROVE  PeriodInv'
<1>1. /\ UNCHANGED <<status, payload, batch, current, pc, requeues, bucket, overtaken>>
      /\ at[s] = "release"
      /\ at' = [at EXCEPT ![s] = "insert"]
      /\ found' = [found EXCEPT ![s] = {}]
      /\ key' = [j \in Jobs |-> IF j \in found[s] THEN NoKey ELSE key[j]]
  BY DEF ReleaseKey, Go, workerVars, requeueVars
<1>2. \A r \in Schedulers : \A l : Trusting(r, l)' => Trusting(r, l)
  BY <1>1 DEF Trusting, PeriodInv, Rows
<1>3. \A k : JobsOfPeriod(k)' = JobsOfPeriod(k)
  BY <1>1 DEF JobsOfPeriod
<1>4. Rows'
  BY <1>1 DEF PeriodInv, Rows
<1>5. OnlyRealRows' /\ KeyNamesBucket'
  BY <1>1 DEF PeriodInv, OnlyRealRows, KeyNamesBucket
<1>6. OnlyOvertakenRelease'
  BY <1>1 DEF PeriodInv, OnlyOvertakenRelease, Rows
<1>7. \A k \in Keys \ overtaken : \A j \in JobsOfPeriod(k) : key'[j] = key[j]
  <2> SUFFICES ASSUME NEW k \in Keys \ overtaken, NEW j \in JobsOfPeriod(k)
               PROVE  key'[j] = key[j]
    OBVIOUS
  <2>1. j \in Jobs /\ payload[j] = k
    BY DEF JobsOfPeriod
  <2>2. j \notin found[s]
    BY <2>1 DEF PeriodInv, OnlyOvertakenRelease
  <2> QED BY <1>1, <2>1, <2>2
<1>8. Calm'
  BY <1>1, <1>2, <1>3, <1>7 DEF PeriodInv, Calm
<1> QED BY <1>4, <1>5, <1>6, <1>8 DEF PeriodInv

\* The unique index lets a row in only where the bucket has none, or where its
\* rows have lost their key to an overtaken call.
LEMMA InsertKeepsPeriods ==
  ASSUME PeriodInv, NEW s \in Schedulers, Insert(s)
  PROVE  PeriodInv'
<1>1. /\ UNCHANGED <<batch, current, pc, requeues, bucket, found, overtaken>>
      /\ at' = [at EXCEPT ![s] = "idle"]
  BY DEF Insert, Go, workerVars, requeueVars
<1>2. \A r \in Schedulers : \A l : Trusting(r, l)' => Trusting(r, l)
  BY <1>1 DEF Trusting, PeriodInv, Rows
<1>3. CASE Refused(bucket[s])
  <2>1. UNCHANGED <<status, payload, key>>
    BY <1>3 DEF Insert, rowVars
  <2>2. \A k : JobsOfPeriod(k)' = JobsOfPeriod(k)
    BY <2>1 DEF JobsOfPeriod
  <2>3. Rows'
    BY <1>1, <2>1 DEF PeriodInv, Rows
  <2>4. OnlyRealRows' /\ KeyNamesBucket'
    BY <1>1, <2>1 DEF PeriodInv, OnlyRealRows, KeyNamesBucket
  <2>5. OnlyOvertakenRelease'
    BY <1>1, <2>1 DEF PeriodInv, OnlyOvertakenRelease, Rows
  <2>6. Calm'
    BY <1>1, <1>2, <2>1, <2>2 DEF PeriodInv, Calm
  <2> QED BY <2>3, <2>4, <2>5, <2>6 DEF PeriodInv
<1>4. CASE ~Refused(bucket[s])
  <2>1. PICK j \in Jobs :
          /\ status[j] = "ABSENT"
          /\ status' = [status EXCEPT ![j] = "PENDING"]
          /\ payload' = [payload EXCEPT ![j] = bucket[s]]
          /\ key' = [key EXCEPT ![j] = bucket[s]]
    BY <1>4 DEF Insert
  <2>2. bucket[s] \in Keys
    BY DEF PeriodInv, Rows
  <2>3. /\ status'[j] = "PENDING" /\ payload'[j] = bucket[s] /\ key'[j] = bucket[s]
        /\ \A i \in Jobs \ {j} :
             status'[i] = status[i] /\ payload'[i] = payload[i] /\ key'[i] = key[i]
    BY <2>1 DEF PeriodInv, Rows
  <2>4. Rows'
    BY <1>1, <2>1, <2>2 DEF PeriodInv, Rows, Open
  <2>5. OnlyRealRows'
    BY <1>1, <2>1, <2>3 DEF PeriodInv, OnlyRealRows, Rows
  <2>6. KeyNamesBucket'
    BY <2>3 DEF PeriodInv, KeyNamesBucket
  <2>7. \A r \in Schedulers : \A i \in found[r] : i # j /\ i \in Jobs
    BY <2>1 DEF PeriodInv, OnlyOvertakenRelease, Rows
  <2>8. OnlyOvertakenRelease'
    BY <1>1, <2>3, <2>7 DEF PeriodInv, OnlyOvertakenRelease, Rows
  <2>9. \A k \in Keys : JobsOfPeriod(k)' = JobsOfPeriod(k) \cup {i \in {j} : bucket[s] = k}
    BY <2>1, <2>3 DEF JobsOfPeriod
  <2>10. Calm'
    <3> SUFFICES ASSUME NEW k \in Keys \ overtaken
                 PROVE  /\ \A i \in JobsOfPeriod(k)' : key'[i] = k
                        /\ \A h, i \in JobsOfPeriod(k)' : h = i
                        /\ \A r \in Schedulers, i \in JobsOfPeriod(k)' :
                             Trusting(r, k)' => status'[i] \notin Finished
      BY <1>1 DEF Calm
    <3>1. CASE bucket[s] = k
      <4>1. \A i \in Jobs : key[i] # k
        BY <1>4, <3>1 DEF Refused, Carriers
      <4>2. JobsOfPeriod(k) = {}
        BY <4>1 DEF PeriodInv, Calm, JobsOfPeriod
      <4>3. JobsOfPeriod(k)' = {j}
        BY <4>2, <2>9, <3>1
      <4> QED BY <4>3, <2>3, <3>1 DEF Finished
    <3>2. CASE bucket[s] # k
      <4>1. JobsOfPeriod(k)' = JobsOfPeriod(k)
        BY <2>9, <3>2
      <4>2. \A i \in JobsOfPeriod(k) : i \in Jobs \ {j}
        BY <2>1 DEF JobsOfPeriod
      <4> QED BY <4>1, <4>2, <2>3, <1>2 DEF PeriodInv, Calm
    <3> QED BY <3>1, <3>2
  <2> QED BY <2>4, <2>5, <2>6, <2>8, <2>10 DEF PeriodInv
<1> QED BY <1>3, <1>4

----------------------------------------------------------------------------
\* Every step of the schedule and of the queue under it.
LEMMA PeriodStep == PeriodInv /\ [ScheduleNext]_allVars => PeriodInv'
<1> SUFFICES ASSUME PeriodInv, [ScheduleNext]_allVars PROVE PeriodInv'
  OBVIOUS
<1>0. Rows /\ OnlyRealRows
  BY DEF PeriodInv
<1>1. CASE \E s \in Schedulers :
             \/ \E k \in Keys : Begin(s, k)
             \/ PreCheck(s) \/ Lookup(s) \/ ReleaseKey(s) \/ Insert(s) \/ SchedulerDies(s)
  BY <1>1, LookingKeepsPeriods, ReleaseKeepsPeriods, InsertKeepsPeriods, DeathKeepsPeriods
<1>2. ASSUME NEW w \in Workers,
             \/ QueueStep(ReleaseStaleLocks(w))
             \/ \E S \in Batches : QueueStep(ClaimJobs(w, S))
             \/ \E j \in Jobs : QueueStep(StartHandler(w, j))
             \/ QueueStep(HandlerSucceeds(w)) \/ QueueStep(CompleteJob(w))
             \/ QueueStep(HandlerFails(w)) \/ QueueStep(CompletionFails(w))
             \/ QueueStep(Crash(w))
      PROVE  PeriodInv'
  <2> DEFINE A == \/ ReleaseStaleLocks(w)
                  \/ \E S \in Batches : ClaimJobs(w, S)
                  \/ \E j \in Jobs : StartHandler(w, j)
                  \/ HandlerSucceeds(w) \/ CompleteJob(w) \/ HandlerFails(w)
                  \/ CompletionFails(w) \/ Crash(w)
  <2>1. QueueStep(A)
    BY <1>2 DEF QueueStep
  <2>2. A => RowsStand
    BY <1>0, WorkerStands
  <2> HIDE DEF A
  <2> QED BY <2>1, <2>2, QueueKeepsPeriods
<1>3. ASSUME NEW j \in Jobs,
             \/ QueueStep(BackoffEnds(j)) \/ QueueStep(LockAges(j)) \/ QueueStep(CancelJob(j))
             \/ QueueStep(RequeueRead(j)) \/ QueueStep(RequeueWrite(j))
      PROVE  PeriodInv'
  <2> DEFINE A == \/ BackoffEnds(j) \/ LockAges(j) \/ CancelJob(j)
                  \/ RequeueRead(j) \/ RequeueWrite(j)
  <2>1. QueueStep(A)
    BY <1>3 DEF QueueStep
  <2>2. A => RowsStand
    BY <1>0, OperatorStands
  <2> HIDE DEF A
  <2> QED BY <2>1, <2>2, QueueKeepsPeriods
<1>4. CASE UNCHANGED allVars
  <2>1. UNCHANGED <<status, payload, key, batch, current, pc, requeues, at, bucket, found,
                    overtaken>>
    BY <1>4 DEF allVars, vars, rowVars, workerVars, requeueVars, scheduleVars
  <2>2. \A k : JobsOfPeriod(k)' = JobsOfPeriod(k)
    BY <2>1 DEF JobsOfPeriod
  <2>3. \A r, l : Trusting(r, l)' = Trusting(r, l)
    BY <2>1 DEF Trusting
  <2>4. Rows'
    BY <2>1 DEF PeriodInv, Rows
  <2>5. OnlyRealRows' /\ KeyNamesBucket' /\ OnlyOvertakenRelease'
    BY <2>1 DEF PeriodInv, OnlyRealRows, KeyNamesBucket, OnlyOvertakenRelease
  <2>6. Calm'
    BY <2>1, <2>2, <2>3 DEF PeriodInv, Calm
  <2> QED BY <2>4, <2>5, <2>6 DEF PeriodInv
<1> QED BY <1>1, <1>2, <1>3, <1>4 DEF ScheduleNext

\* At most one of anything is a set of cardinality one at most.
LEMMA AtMostOne ==
  ASSUME NEW S, \A x, y \in S : x = y
  PROVE  Cardinality(S) <= 1
<1>1. CASE S = {}
  BY <1>1, FS_EmptySet
<1>2. CASE S # {}
  <2>1. PICK x \in S : TRUE
    BY <1>2
  <2>2. S = {x}
    BY <2>1
  <2> QED BY <2>2, FS_Singleton
<1> QED BY <1>1, <1>2

\* enqueueOncePerPeriod keeps its promise to any number of overlapping calls, on
\* every bucket where none of them was overtaken by the job's end.
THEOREM OncePerPeriodAlways == ScheduleSpec => []OncePerPeriod
<1>1. PeriodInv => OncePerPeriod
  <2> SUFFICES ASSUME PeriodInv, NEW k \in Keys \ overtaken
               PROVE  Cardinality(JobsOfPeriod(k)) <= 1
    BY DEF OncePerPeriod
  <2>1. \A i, j \in JobsOfPeriod(k) : i = j
    BY DEF PeriodInv, Calm
  <2> QED BY <2>1, AtMostOne
<1> QED BY <1>1, PeriodInit, PeriodStep, PTL DEF ScheduleSpec
=============================================================================
