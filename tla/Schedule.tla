------------------------------ MODULE Schedule ------------------------------
(***************************************************************************)
(* The recurring schedule (src/src/lib/queue/handlers/schedule.ts) on top   *)
(* of the job queue: once a minute a worker, and with every request to      *)
(* /api/internal/jobs/run a cron, asks for each entry's job of the current  *)
(* period.  A key is an entry's period bucket (periodKey).                  *)
(*                                                                         *)
(* enqueueOncePerPeriod runs outside any transaction, so each statement is  *)
(* a step: it looks for any row with the bucket's key, then calls enqueue,  *)
(* which looks again, takes the key from a finished row, and inserts.       *)
(***************************************************************************)
EXTENDS JobQueue

CONSTANT Schedulers   \* overlapping calls of scheduleRecurringJobs

VARIABLES
  at,       \* where each scheduler is in enqueueOncePerPeriod
  bucket,   \* the key it is about
  found,    \* the finished row whose key it takes, if any
  overtaken \* history: buckets whose job finished after a scheduler saw none

scheduleVars == <<at, bucket, found, overtaken>>
allVars == <<vars, scheduleVars>>

----------------------------------------------------------------------------
ScheduleInit ==
  /\ Init
  /\ at = [s \in Schedulers |-> "idle"]
  /\ bucket \in [Schedulers -> Keys]
  /\ found = [s \in Schedulers |-> {}]
  /\ overtaken = {}

\* The column is unique: at most one row carries a key.
Carriers(k) == { j \in Jobs : key[j] = k }

\* A scheduler that has passed the pre-check.
Trusting(s, k) == at[s] \in {"lookup", "release", "insert"} /\ bucket[s] = k

Go(s, where) == at' = [at EXCEPT ![s] = where]

QueueStands == UNCHANGED <<vars, overtaken>>

Begin(s, k) ==
  /\ at[s] = "idle"
  /\ Go(s, "check")
  /\ bucket' = [bucket EXCEPT ![s] = k]
  /\ UNCHANGED found /\ QueueStands

\* Mutant: only an open job counts for the period.
Served_Open(k) == OpenJobs(k) # {}

\* "any row for this bucket - finished or not"
Served(k) == Carriers(k) # {}

PreCheck(s) ==
  /\ at[s] = "check"
  /\ Go(s, IF Served(bucket[s]) THEN "idle" ELSE "lookup")
  /\ UNCHANGED <<bucket, found>> /\ QueueStands

\* enqueue: an open job will do; a finished one gives its key away first.
Lookup(s) ==
  /\ at[s] = "lookup"
  /\ \/ /\ Carriers(bucket[s]) = {}
        /\ Go(s, "insert")
        /\ UNCHANGED found
     \/ \E j \in Carriers(bucket[s]) :
          IF status[j] \in Open THEN Go(s, "idle") /\ UNCHANGED found
          ELSE Go(s, "release") /\ found' = [found EXCEPT ![s] = {j}]
  /\ UNCHANGED bucket /\ QueueStands

ReleaseKey(s) ==
  /\ at[s] = "release"
  /\ key' = [j \in Jobs |-> IF j \in found[s] THEN NoKey ELSE key[j]]
  /\ found' = [found EXCEPT ![s] = {}]
  /\ Go(s, "insert")
  /\ UNCHANGED <<status, payload, attempts, due, stale, workerVars, dataVars,
                 effects, faults, requeueVars, bucket, overtaken>>

\* Mutant: without the unique index both callers insert.
Refused_Never(k) == FALSE

\* The unique index: the other caller's row wins and is returned.
Refused(k) == Carriers(k) # {}

Insert(s) ==
  /\ at[s] = "insert"
  /\ IF Refused(bucket[s]) THEN UNCHANGED rowVars
     ELSE \E j \in Jobs :
            /\ status[j] = "ABSENT"
            /\ status' = [status EXCEPT ![j] = "PENDING"]
            /\ payload' = [payload EXCEPT ![j] = bucket[s]]
            /\ key' = [key EXCEPT ![j] = bucket[s]]
            /\ due' = [due EXCEPT ![j] = TRUE]
            /\ UNCHANGED <<attempts, stale>>
  /\ Go(s, "idle")
  /\ UNCHANGED <<workerVars, dataVars, effects, faults, requeueVars, bucket, found,
                 overtaken>>

\* The process dies between two statements.
SchedulerDies(s) ==
  /\ at[s] # "idle"
  /\ faults < MaxFaults
  /\ faults' = faults + 1
  /\ Go(s, "idle")
  /\ found' = [found EXCEPT ![s] = {}]
  /\ UNCHANGED <<rowVars, workerVars, dataVars, effects, requeueVars, bucket, overtaken>>

SchedulerStep(s) == PreCheck(s) \/ Lookup(s) \/ ReleaseKey(s) \/ Insert(s)

----------------------------------------------------------------------------
\* The queue's own steps; a job they finish may have been waited for above.
QueueStep(A) ==
  /\ A
  /\ overtaken' = overtaken \cup
       { k \in Keys : /\ \E s \in Schedulers : Trusting(s, k)
                      /\ \E j \in Jobs : payload[j] = k /\ status'[j] \in Finished }
  /\ UNCHANGED <<at, bucket, found>>

ScheduleNext ==
  \/ \E s \in Schedulers :
       \/ \E k \in Keys : Begin(s, k)
       \/ PreCheck(s) \/ Lookup(s) \/ ReleaseKey(s) \/ Insert(s) \/ SchedulerDies(s)
  \/ \E w \in Workers :
       \/ QueueStep(ReleaseStaleLocks(w))
       \/ \E S \in Batches : QueueStep(ClaimJobs(w, S))
       \/ \E j \in Jobs : QueueStep(StartHandler(w, j))
       \/ QueueStep(HandlerSucceeds(w)) \/ QueueStep(CompleteJob(w))
       \/ QueueStep(HandlerFails(w)) \/ QueueStep(CompletionFails(w))
       \/ QueueStep(Crash(w))
  \/ \E j \in Jobs :
       \/ QueueStep(BackoffEnds(j)) \/ QueueStep(LockAges(j)) \/ QueueStep(CancelJob(j))
       \/ QueueStep(RequeueRead(j)) \/ QueueStep(RequeueWrite(j))

\* A call goes on to its end unless its process dies, and the worker calls every
\* minute for every entry, of which the shortest period is fifteen minutes.
ScheduleFairness ==
  /\ \A s \in Schedulers : WF_allVars(SchedulerStep(s))
  /\ \A k \in Keys : SF_allVars(\E s \in Schedulers : Begin(s, k))

ScheduleSpec == ScheduleInit /\ [][ScheduleNext]_allVars /\ Fairness /\ ScheduleFairness

----------------------------------------------------------------------------
(* Properties.                                                              *)

JobsOfPeriod(k) == { j \in Jobs : payload[j] = k /\ status[j] # "ABSENT" }

\* "each entry gets at most one Job row per period bucket", however many calls
\* overlap and whoever dies; the exception is a call that was overtaken by a job
\* of the bucket finishing between its look at the bucket and its insert: the
\* finished row's key is taken from it and the period's work is done again.
OncePerPeriod == \A k \in Keys : Cardinality(JobsOfPeriod(k)) <= 1 \/ k \in overtaken

\* Every period gets its job and the job comes to an end, although schedulers
\* race for it and die between their statements and workers die over it.
PeriodIsServed ==
  \A k \in Keys : <>(\E j \in JobsOfPeriod(k) : status[j] \in Finished)
=============================================================================
