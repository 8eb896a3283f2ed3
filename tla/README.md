# DIY Baazar: a TLA+ model of the money and job paths

DIY Baazar is the back office and storefront API of a marketplace: a Next.js
application over PostgreSQL (Prisma), with a payment gateway and a separate
worker process.  This directory models the parts in which several requests, the
gateway and the worker act on the same rows: orders with their stock and coupons,
payments and their settlement, parcels, returns, refunds, the seller ledger and
its payouts, the job queue and the recurring schedule.  TLC checks each
module on small instances; TLAPS proves the main properties for every value of
the constants.

Paths below are relative to the repository: `features/` stands for
`src/features/`, `lib/` for `src/lib/`.

## 1. The system

Every module of the application talks to one PostgreSQL database at the default
isolation level, READ COMMITTED.  Services take a transaction handle `tx`; server
actions, API routes and job handlers open the transactions.  Components interact
through rows, through jobs enqueued in the transaction of the change they follow,
and through the gateway's HTTP API.  Nothing is kept in memory across requests.

| Component | State | Operations | What is hard | What makes it correct |
|---|---|---|---|---|
| Payments (`lib/payments`, `features/orders/payments.ts`, webhook and verify routes) | `OrderPayment`, `WebhookEvent`, `Order.status/paymentStatus` | open an attempt, receive a webhook or callback, settle, record a manual payment | duplicated and reordered news; reads before locks; a crash between the event row and the settlement | money shown is money captured; a success is never undone; every capture is settled; nobody is charged twice |
| Refunds (`features/refunds`) | `Refund`, REFUND echoes in `OrderPayment`, `Order.refundedPaise` | create, approve, process through the gateway, complete, fail, cancel, retry | status read before the lock; gateway call between two transactions; lost answers | no more is given back than was paid; a refund is settled once; the order's columns follow the rows |
| Seller ledger and payouts (`features/finance`) | `SellerLedgerEntry`, `SellerPayout`, `SellerBalance` | earn, reverse, adjust, end the hold, generate a statement, move it to paid or failed | decisions from unlocked reads, writes by id, a derived balance | what is paid is what the rows add up to; one open statement per seller; the balance is the ledger's |
| Job queue (`lib/queue/index.ts`, `scripts/worker.ts`) | `Job` | enqueue with a dedupe key, release stale locks, claim, run, retry, requeue, cancel | several workers, crashes, locks that expire under a live worker | a job never runs twice at once; a key has one open job; every job finishes; no change is lost |
| Schedule (`lib/queue/handlers/schedule.ts`) | `Job` | enqueue the recurring jobs once per period | two schedulers | a period's job runs once |
| Inventory (`features/inventory`) | `InventoryItem`, `StockMovement` | reserve, release, commit, restock, adjust | partial failure within a bulk operation | balances equal the movements; stock is never negative |
| Orders (`features/orders`) | `Order`, `OrderItem` | place, transition, cancel items, bulk transitions | caps counted before the insert | the transition table; what is reserved is released or committed |
| Shipments, returns (`features/orders/shipments.ts`, `features/returns`) | `Shipment`, `ReturnRequest` | ship, deliver, return to origin, restock | units cancelled, returned and refunded by different paths | a unit is restocked and refunded once |
| Coupons (`features/coupons`) | `Coupon`, `CouponUsage` | redeem, release | per-customer count read before the insert | limits hold |
| Accounts (`lib/auth`, `features/account`, `lib/rate-limit.ts`) | `Session`, tokens, recovery codes | log in, reset, two-factor | single use under overlap | a token is used once |
| Money arithmetic (`features/finance/math.ts`, `features/refunds/cap.ts`) | none | pro rata, commission, shares of a line | rounding | parts add up to the whole |
| Catalog, content, customers, users, settings, shipping rates, media, e-mail, reports, UI | rows of their own | CRUD and read-only queries | no protocol; derived prices and ratings are recomputed by jobs | see the job queue |

How they meet: a gateway event is inserted, then settled, and the settlement
enqueues `orders.after_payment`, whose job confirms the order.  A cancellation
closes the open attempts and creates a refund.  A refund's completion reverses the
seller's earnings and recomputes the order's money columns.  Delivery records
earnings; `markEarningsAvailable` (a job) ends their hold; a statement schedules
and pays them.  PROJECT.json lists each component with its status, and, under
`hazards`, each place in the code where one of these can go wrong.

## 2. The modules

| Module | Models | Composes |
|---|---|---|
| `Sums` | the SQL aggregate: the sum of a column over a set of rows | |
| `Refunds` | the refunds of one order | `Sums` |
| `PaymentSettlement` | the payments of one online order up to confirmation, cancellation or expiry | `Sums` |
| `Leases` | the abstract promise of the queue: who may work on which task | |
| `JobQueue` | the queue, its workers and recomputation jobs; implements `Leases` | `Leases` |
| `Schedule` | the recurring schedule, statement by statement, over the queue | `JobQueue` |
| `SellerPayouts` | one seller's ledger, statements and balance | `Sums` |
| `StockCustody` | the abstract promise of the inventory: where each unit is | |
| `OrderStock` | orders up to the packing table with stock and coupon; implements `StockCustody` | `Sums`, `StockCustody` |
| `Fulfilment` | one confirmed order: parcels, cancellations, returns, their refunds, the derived status | `Sums` |
| `MC...` | small instances for TLC: symmetry, constraints and constants that a .cfg cannot write | the module named |
| `SumsProofs`, `RefundsProofs`, `PaymentSettlementProofs`, `JobQueueProofs`, `ScheduleProofs`, `SellerPayoutsProofs`, `OrderStockProofs`, `FulfilmentProofs` | theorems | the module named |

### How transactions become actions

READ COMMITTED gives each statement the rows committed before it.  What matters
is therefore where a transaction reads relative to where it first takes the lock
that orders it with the others:

* A transaction that locks the order's row before it reads anything
  (`createRefund`, `applyCancellation`, `recordManualPayment`, `transitionOrder`)
  is **one action**.
* A transaction that reads first and locks later is **two or three**: what it read
  is carried in the call's record and may be stale when it is used.  The three
  refund transitions load the refund before the lock (`LoadRefund`, then the
  write); settlement reads the attempt, updates it by id, sums up, and only then
  touches the order (`SettleRead`, `SettleWrite`, `SettleCommit`); a payout
  transition loads the status (`LoadPayout`), writes by id and commits.
* Between a write and its commit the rows are **locked** and the write is visible
  to its own transaction only.  `PaymentSettlement` carries the derived status in
  the call; `SellerPayouts` carries the staged rows (`tx[t].rows`), sees them
  through `OwnView` and forbids another transaction to stage the same rows.
* A blocked UPDATE re-evaluates its condition when it is unblocked.  The models
  reach the same outcomes by letting it happen only once it is unlocked.
* A gateway call between two transactions is an action of its own; a crash, a
  time-out or a lost answer can come before or after it.
* `Abort`, `Crash` and `CompletionFails` lose a transaction or a process at
  any point.  A statement that the code retries reads again.

Deadlock victims, unique-index violations and time-outs all end a transaction with
nothing kept: they are `Abort`.

### `Refunds`

State: `status`, `amount` and `online` are columns of `Refund`; `earned` says that
the delivery has written the SALE row of the order's seller line, and `reversed` is
what each refund has taken out of it; `echoes` counts the REFUND rows of
`OrderPayment`; `orderRefunded` and `paymentStatus` are the order's columns; `moved` counts what
the gateway did (external).  `call[o]` is a request thread: `loaded` holds the
status it read before the lock, `gateway` means that PROCESSING is committed and
the answer is out.  `createRefund` is `CreateRefund`; `simpleTransition`,
`processRefund`, `completeRefundManually` and their helpers are the actions
after `LoadRefund`.  A completion calls `ReverseEarnings`
(`reverseEarningsForRefund`), which writes nothing before the delivery
(`RecordEarnings`), when nothing is left of the sale, or when the refund's marker is
in the ledger already; else the `proRata` share, as far as that much is left.  The
refunds are order-level ones and the order has one seller line (none, if `LineTotal`
is 0); the reversal of the commission mirrors that of the sale and is left out.
`retries`, `revived`, `clashed` (refunds that two calls were about at once) and
`early` (refunds that were COMPLETED before the delivery) are history.

### `PaymentSettlement`

One order; each attempt is an `OrderPayment` of the gateway and stands for its
`providerOrderId` as well.  `events` is what the gateway has to say, in any order
and any number of times: failures before and after a capture, one capture per
provider order.  `received` holds the `WebhookEvent` rows, `acked` the ones
answered 2xx.  The webhook route is `ReceiveWebhook` (insert first), `/verify` is
`ReceiveCallback`; both continue with the three settlement actions.  `jobs` are
the unfinished `orders.after_payment` jobs; the queue itself is `JobQueue`.
`tries` are their `Job.attempts`, and `gaveUp` those that failed for good.
`Confirm` may be refused, because the stock it commits may have been counted away
(what refuses it is in `OrderStock`); the caller of a manual payment then leaves the
order PENDING, and the job is retried until its attempts are used up.
`ExpireUnpaid` is the reservation running out at any time.  `late` (attempts settled
on a dead order), `crossed` (a failure and a success of one attempt were settled
at once) and `expired` are history.

### `JobQueue` and `Leases`

`status`, `key`, `attempts`, `due` (`runAt <= now()`) and `stale` (`lockedAt`
older than STALE_LOCK_MINUTES) are the `Job` columns; `pc`, `batch`, `current`,
`claimed` are where each worker is in `runPendingJobs`.  A change and its
`enqueue` commit together, as the header of the module promises, so `Change` is one
action.  The handler reads the source when it starts and writes what it derived
when it ends: the hazard of the recomputation jobs (prices, ratings, counters).
Time is two actions, `BackoffEnds` and `LockAges`.  `LateBatches` says whether a
lock may go stale under a worker that lives.

`Leases` has neither keys, locks nor clocks: a task is asked for unless an open one
stands for the same thing, leased by a worker that is alone with it and that reports
what became of it, and falls back only from a worker that died.  `JobsAreLeased` is
the refinement: a job's holders are the workers that have it in their batch, it is
worked while its handler has ended and its outcome is not written yet
(`HandlerSucceeds` up to `CompleteJob`), and its thing is its payload.  Looking for
stale locks is `FallBack`, a claim `Lease`, an outcome `Report`.  The promise ends
(`exact`) when an operator requeues a job, since `requeueJob` writes by id under
whatever happened since it read the row.

### `SellerPayouts`

`ledger`, `payout` and `balance` are the three tables for one seller.  The SALE,
COMMISSION and CHARGE rows of an item are written, released, scheduled and paid
together, so they are one EARNING row with their sum; `Charge` is what a refund
never reverses.  Every transaction ends with `recomputeSellerBalance`, summed over
what it sees when it has written and stored when it commits.  `overlapped` is
history: two transactions were open at once.

### `Schedule`

`enqueueOncePerPeriod` runs outside any transaction, so each of its statements is
an action of a scheduler: the look at the period's key (`PreCheck`), then those of
`enqueue` (`Lookup`, `ReleaseKey`, `Insert`).  A period bucket is a key of
`JobQueue`, whose every step, requeue and cancellation included, interleaves with
them; the next period is another key.  `overtaken` is history: buckets whose job
finished after a scheduler had found none.

### `OrderStock` and `StockCustody`

`stock` is `InventoryItem`, `line` the `OrderItem` of each order and variant,
`usages`, `usageCount` and `usageLimit` the coupon.  Every movement goes through
`Move`, which is `applyStockMovement`: its refusals disable the action, because an
exception rolls the caller's transaction back.  The one caller that catches is the
batch: `SkipInBulk` commits any subset of the lines that could be committed.  A
checkout is three steps with its variants locked from the second on; everything
else locks the order first and is one step.  `StockCustody` has a unit free, held
or sold, and `UnitsInCustody` is the refinement: free is `onHand - reserved`, held
is `reserved`, sold is what lines of confirmed orders have taken.  `torn` (orders a
batch has half confirmed) and `raced` (checkouts that overlapped) are history.

### `Fulfilment`

`line`, `parcel` and `rma` are the rows of one order, two lines in the instance;
`rma[r]` carries the refund of the return as `amount` and `repaid`, and the
refunds of cancellations are the sums `promised` and `settled`.  Every handler
locks the order and then reads, so it is one action that ends, as the code does,
in `Recompute` of the derived status; only `transitionReturnInTx` loads its return
first (`LoadReturn`) and acts on that row (`ReviewReturn`, `InspectReturn`,
`RefundReturn`, `ReplaceReturn`).  A return's refund is born in `createRefundInTx`
(`BearRefund`), which has two callers: the return's own REFUND_INITIATED
(`RefundReturn`), and the operator's "create refund" (`CreateRefund`), which asks the
return neither how far it has come nor whether it was called off.  `putBack`,
`restocks` and `stale` are history.

## 3. The runs

Twelve runs; each `.cfg` names its module, and each property of a passing run has
a mutant (a plausible bug in the code) that breaks it.

| Run | Instance | Shows |
|---|---|---|
| `refunds` | 2 refunds, 2 threads, paid 2, a line of 2 with a sale of 3, 1 retry | a refund takes its share of the sale once; creation never over-refunds; columns follow the rows; the gateway pays once per decision; legal transitions |
| `payments_concurrent` | 2 attempts, 2 payment ids, 2 threads, 1 abort | only captured money is shown; cancellation refunds all; manual payments fit; PAID means paid; a success stays one |
| `payments_fair` | 1 attempt, 1 payment id, 2 threads, fair, nothing dies | automatic CONFIRMED means paid; captures are settled; paid orders are confirmed, or cancelled, expired or refused |
| `payments_double_charge` (violation) | 2 attempts, 1 thread | both widgets are paid |
| `payments_lost_webhook` (violation) | 1 attempt, 1 abort | a capture is acknowledged and never settled |
| `queue_punctual` | 3 jobs, 1 key, 2 workers, 2 faults, 3 changes, 1 requeue | never twice at once; one open job per key; only faults and requeues buy runs; `Leases` implemented |
| `queue_lost_change` (violation) | 2 jobs, 1 worker, no faults | a change is dropped |
| `schedule_fair` | 2 jobs, 1 bucket, 2 schedulers, 1 worker, 1 fault or requeue, fair | one job per period; every period is served; every job finishes |
| `payouts` | 4 rows, 2 statements, 2 threads, 2 days | no row in limbo; one open statement; what is shown as paid is paid; paid once; statement = rows; balance = ledger |
| `payouts_paid_twice` (violation) | 3 rows, 2 statements, 2 threads | two PAYOUT rows for one statement |
| `orders` | 2 orders, 2 variants, 1 customer, 2 checkouts, 2 counts or switches | reservations and coupon accounted for; nothing oversold; `StockCustody` implemented; caps |
| `fulfilment` | 2 lines (2 units + 1), 2 parcels, 2 returns, 2 requests (see below) | parcels, returns, restocks, cash and refunds stay within the order; the status is that of the rows |

Some properties are false when calls overlap in a way that section 6 names.  They
are not checked under one thread, which would hide every other overlap: a history
variable records the overlap, and the property speaks of the behaviours, or the
refunds, that it has not touched.

The type invariants of the modules are theorems (section 4), and the runs do not
repeat them.

### Bounds

* Two refunds are enough for a cap to be shared wrongly; two threads for every
  read-then-write race, because each race has one reader and one writer; `Paid` =
  2 lets refunds be full, partial and jointly too large.  `OneRetried` and
  `OneClash` keep to one refund that is retried and one that two calls are about:
  refunds interact through the cap and the columns alone, so the second one that
  does the same adds no new kind.  `Sale` = 3 over a line of 2 makes half a refund's
  share round up, so that two halves ask for more than the sale.  `OneOnline` sends
  one refund through the gateway; `DeliveredInTime` takes the delivery before the
  first refund or after a completion, because nothing but a completion reads it.
* Two attempts make the abandoned widget and the new one; two payment ids a second
  payment on one attempt and a payment id on two attempts.  `Total` = 2 admits a
  part payment.  `MaxAborts` = 1 is one death; a second adds no new kind.
  The view `Effective` of `payments_concurrent` leaves out `gaveUp` and `expired`,
  which no action reads and no property of that run mentions.  `JobAttempts` = 2 in
  `payments_fair` is a retry and the end.
  `payments_fair` has one attempt and one payment, which may fail, be captured and be
  reported again in two calls at once; that is what liveness is about, and a larger
  instance without symmetry does not end in time.
* Three jobs and one key give a finished, an open and a fresh row for the key; a
  batch limit of 2 makes the second job wait while the first runs; `MaxAttempts` =
  2 has a retry and an end; two faults exhaust a job;
  `AfterRequeue` leaves a behaviour with a requeue one fault, and three faults and
  changes together.  `Schedule` has two rows, the
  period's job and the one that must not be, and one bucket, because buckets meet
  only in a worker's batch.  `OneIncident` allows one fault or one requeue; neither
  is a fair action, so leaving out the second weakens nothing.
* Four rows hold two earnings, a reversal or debit and a PAYOUT row.  Two statements
  are one closed and one open.  Two days separate a hold that ends later from one
  that is over.  Once transactions have overlapped, `Room` leaves the last row and the
  second day out.
* Two orders compete for three units of two variants; carts of 2 and 1 let one order
  be partly cancelled and two be more than there is.  One coupon of one or two
  redemptions and a cap of one order make every limit bite with two checkouts.  Two
  stock counts or switches of allowBackorder: on, and off again.
* Two lines, one of two units at an odd price, so that parcels split it and halves
  are rounded.  `Fits` takes the shapes 2 parcels with 1 return, 1 parcel with 2
  returns, and 2 requests in flight with one of each: the union is checked, all
  three at once would not end.  COD orders, whose parcels collect, are taken in the
  first shape, and replacements, which need a parcel of their own, not in the second.  It also stops at the first move on a stale row,
  after which the properties promise nothing.  `RefundsFit`: a refund takes all that
  its cap allows, since less only leaves more room under every bound, and an operator
  creates one for the only return so far of a prepaid order with one parcel.  The
  theorems of section 4 have none of these bounds.
* Symmetry is used in runs that check safety only, over ids whose values no action
  compares with anything but each other.

`CHECK_DEADLOCK FALSE` is set where the system really stops: the bounds use up
rows, attempts or days, idle workers of a finished queue have nothing more to
claim, and an order that was cancelled, or returned and refunded, is done.

### Fairness

Liveness is checked under assumptions that the scheduling of the code justifies:

* a request that is running goes on (`WF` on the continuation of each call);
* the gateway repeats a webhook until it is answered 2xx, so its delivery is
  strongly fair: threads may be busy, but not for ever;
* `scripts/worker.ts` polls for ever, so a worker's steps are weakly fair, and
  `claimJobs` takes the oldest due jobs first, so a due job is not passed over
  for ever (`SF` on its being claimed; priorities, under which a flood of more
  urgent jobs could hold one back, are left out);
* time passes: a backoff ends and the lock of a dead worker ages; an operator's
  request that was read is written;
* a scheduler that is running goes on, and is called for every entry again and again
  (`SF` on `Begin`): the worker calls it every minute, the shortest period is
  fifteen (`scripts/worker.ts`, `period.ts`).

There is no fairness on changes, operators, callbacks, faults or the expiry of
reservations.

## 4. What is proved

`tlapm` checks every proof to the last leaf.  The constants are arbitrary: any
finite set of refunds, attempts, jobs or ledger rows, any set of threads and
workers, any bounds.  The assumptions are the ones named in the modules (the row
sets are finite, amounts are integers, NULL is not an id), and where a theorem
needs more it says so in its statement.

* **Sums.**  `SumOver` is defined by a recursive function on the rows that are
  left.  Induction over data is out of the provers' reach, so `SumsProofs` shows
  that such a function exists by a minimal counterexample over finite sets, and
  from that: the sum of the empty set, of a set with a row more or less, of equal
  columns, of a subset of non-negative columns, of columns added or scaled, of
  columns that bound each other, and of sums of sums, by rows or by columns
  (`SumOverSwap`).  The other proofs cite these.
* **Refunds.**  `TypeCorrect`; `SettlesOnce`: for any overlap, and wherever the
  delivery falls, all refunds together take at most the sale, one that is COMPLETED
  after the delivery has taken its whole share, or less if that leaves nothing of the
  sale, one that has taken anything has taken that, and each echoes once.  Its invariant also
  keeps apart the refunds that were COMPLETED before there was a sale (`early`), for
  which the code writes no reversal; `CreationKeepsCap`: the refunds
  that counted all along never exceed what was paid, because creation reads the sum
  under the order's lock and every other write only takes refunds out of the set.
  For the refunds that no two calls were about at once, `PaysOnce`,
  `TransitionsLegal` and `OrderAlwaysMatches` follow from an invariant that what a
  call has loaded is still true, that the status accounts for the money moved, and
  that the columns are the sums of the rows; none of the three is inductive alone.
* **PaymentSettlement.**  `TypeCorrect`; `SettledIsReal` from four invariants: what
  a call settles was reported, a payment belongs to one provider order, a row's
  payment id was reported for it, and a SUCCEEDED row was captured;
  `ManualPaymentFits` and `CancellationRefunds`, which rest on the monotonicity of
  sums.  Three more hold for any number of overlapping calls until a failure of an
  attempt is settled while a success of it is (`crossed`), so no other overlap can
  break them.  `SuccessStays`: what a settling call has decided still stands when it
  writes, and no two calls are about to write the opposite (`DecisionStands`); an
  attempt that is opened is not there yet and is opened once (`OpeningsFresh`), which
  is mutually inductive with the gateway knowing existing attempts only.  `PaidIsPaid`
  and `ConfirmedIsAlwaysPaid`: since a success stays one and cash only grows, what is
  paid never shrinks (`PaidGrows`), so the status that a call carries and its decision
  to confirm outlast the steps of the others (`PaidCallKept`) and still hold when they
  are written (`PaidInv`).
* **JobQueue.**  `TypeCorrect` for everything, late batches and requeues included.
  While batches are punctual (`Punctual`) and until something is requeued: `NeverTwice`,
  from `Leased` (a claimed job is RUNNING under a fresh lock and claimed once);
  `KeyMeansOneOpenJob`, from `Keyed` (an open row has its own key, and a key one
  row).  `ImplementsLeases`: from the same two, each step is a step of `Leases` or a
  stutter, until something is requeued.  `OnlyFaultsBuyAttempts` and
  `OnceButForFaults` hold with any number of requeues, those that write under a run
  included: a second worker is then at the job, so neither invariant is inductive
  alone.  `Tries` and `Effects` count what may still come (a claim that waits, the
  runs that open the job again when they fail, the runs that have not taken effect,
  a requeue that has read and not written) against the faults and requeues that
  paid for it.  That batches are punctual and, for the other three, that nothing was
  requeued, is necessary: section 6.
* **SellerPayouts.**  Every step but a commit either only reads or stages rows
  (`StepShape`), so the proofs have few cases.  `TypeCorrect`; `NoRowLeftBehind` and
  `WhatIsPaidWasPaidOut` from `LedgerInv`: what a transaction has staged is legal
  beside what is committed (it keeps the kind of rows and the figures of
  statements, closes a statement with all of its rows, pays with a PAYOUT row), the
  locks of two transactions are disjoint, and therefore the commit of one leaves
  what the other has staged legal (`LegalFrame`); `OneStatementAtATime` from
  `OneOpens`, which counts in the statements that are being opened.  None of the
  three needs the transactions to be serial.  Until two of them overlap,
  `BalanceIsLedgers` and `StatementsWorthwhile`; and, from `Accounts`, which says that
  every committed state and the one that is staged keep their books (a row is in a
  statement exactly while it is scheduled and once it is paid), `StatementsMatch` and
  `PaidOutOnce`: the rows of a statement that is paid are apart from those paid
  before, so the sums add.
* **Schedule.**  `OncePerPeriodAlways` for any number of schedulers, workers, requeues
  and deaths: `PeriodInv` says that a row of a bucket keeps its key until a scheduler
  that was overtaken takes it, so that whoever inserts without having been overtaken
  finds the bucket empty.
* **OrderStock.**  `TypeCorrect`; `HoldsAlwaysMatch` from the invariant that only
  pending orders hold (`HoldsArePending`), with sums over the orders; `PendingOrdersHold`;
  `CouponNeverOverspent`; `CapsHoldAlone`: while no two checkouts overlapped, what one
  has counted still holds when it places its order (`CapsInv`); `NeverOversold`; and
  the refinement `ImplementsCustody`:
  every step is a move of `StockCustody` or a stutter, which needs that a checkout
  between its second and third step has its variants locked, so that the units it
  found are still there.
* **Fulfilment.**  `TypeCorrect`.  `StatusAlwaysFollows`: deriving is idempotent, and
  every handler that touches the rows ends in it, or in CANCELLED, which is derived
  from itself; a manual step (`Advance`) is possible only where the rows derive
  nothing else.  `CancelledAlwaysWhole` needs that a line on the road has been stamped shipped
  (`ShippedIsHanded`).  `ParcelsAlwaysWithin` compares sums over parcels before and
  after each step.  `ReturnsAlwaysWithin` rests on three invariants of rows that were
  fresh: a line with a return was delivered and so is never shortened
  (`DeliveredFirst`), what a return has been through (`Stages`), and the sums
  (`UnitsAddUp`).  `RefundsAlwaysWithin` is about the returns that hold their
  units, because these came back or are still claimed, whoever created their refunds
  and at whatever stage.  The cap is on the refunds as they are created, the line may
  have other returns by then, and what was refunded before may or may not be
  COMPLETED; so the invariant (`WithinShare`) is of each return alone: its refund is
  within the floored share of its units, plus the shipping.  It is kept because a
  line with a return is never shortened or repriced (`MarkedDelivered`,
  `BearKeepsOpened`), and the sum follows: quantity times refunds is at most total
  times units (`SharesSummed`), units that are held are within the line
  (`UnitsAddUp`, and claims and what came back are disjoint), and the quantity divides
  out (`RefundsBounded`).  Returns that were refunded and then called off hold nothing
  and are left out, necessarily: section 6.
  `AlwaysRestockedOnce` rests on `RestockInv`: what cancellations put back is what the
  line is short of, a return restocks once and only if it came in, and a line that was
  cancelled though a return had been opened on it has two parcels that came to their
  end, which the property excludes.
  `CashAlwaysWithin` compares roundings: a share is bounded by multiplying out, each
  parcel collects once, and the roundings counted by lines are those counted by
  parcels.  Its invariant `CashInv` keeps aside lines that were cancelled before
  anything was collected; the total covers the others.

**Left to TLC.**  Liveness (`CaptureIsSettled`, `PaidIsConfirmed`, `JobsFinish`,
`PeriodIsServed`) and anything about ENABLED, which the provers do not reach.  Every
safety property that a passing run checks is a theorem.

## 5. Plan

What was planned is modelled and proved but for these, in order:

1. An abstract specification of the money of an order (captured, promised back,
   given back), with `PaymentSettlement` and `Refunds` shown to implement it.
2. `computeCommission` and the reversal of commissions against a reference.
3. Accounts: single use of reset tokens and codes.

## 6. Where the code and its documents disagree

Where the code breaks a promise only in some interleaving, the property that checks the
promise says, by a history variable, what it leaves out.  It does not catch what it
leaves out: it shows that nothing else breaks the promise.  `hazards` in PROJECT.json
names a property for a hazard only where the property would catch it.

Shown by a run:

* `payments_double_charge`: `settlePaymentEvent` falls back to any row of the
  provider order (`lib/payments/settle.ts`), so a capture on an attempt that a
  newer one CANCELLED is settled as well; `features/orders/payments.ts:53-58` says
  that a late callback cannot double-charge.
* `payments_lost_webhook`: the `WebhookEvent` row is committed before the settlement,
  and stays if the settlement dies; the gateway's repetition is answered as a
  duplicate.  `docs/MARKETPLACE_BLUEPRINT.md:856-858` wants 2xx only after commit.
* `queue_lost_change`: a change that finds its job RUNNING enqueues nothing, though
  the handler may have read the old state; `lib/queue/index.ts:22-24` says that such
  a job can never be lost.
* `payouts_paid_twice`: `transitionPayout` reads the status without a lock and
  writes it by id; two calls that both read PROCESSING append two PAYOUT rows.
  `features/finance/payouts.ts:199-200` promises a single one.

Met while modelling; no run is spent on them, but dropping the restriction named
in brackets shows them:

* `expireUnpaidOrdersJob` fails every PENDING online order whose reservation ran out,
  without a look at its payments (`orders/jobs.ts:89`), and only a confirmation takes
  the reservation's end away.  An order that was paid and waits, because
  auto-confirmation is off, because its job has not run yet or because stock refused
  it, is FAILED and nothing is refunded; `orders/jobs.ts:17` speaks of unpaid orders
  [`expired` left out of `PaidIsConfirmed`];
* the operator's "create refund" makes one for a return in any status
  (`refunds/service.ts:313`), one that was CANCELLED included, or one that is CANCELLED
  later.  The cap takes only what is COMPLETED off the line's share (`refunds/cap.ts:91`),
  and the units may be returned once more: the line is refunded twice, within what the
  order paid.  `refunds/cap.ts:12-13` says that the refunds of a line can never sum to
  more than its total, and `returns/service.ts:34-35` that a return's refund is born at
  REFUND_INITIATED only [all the returns of the line in `RefundsOn`: TLC shows it in
  nine states];
* a FAILED refund is retried without asking the cap again (`refunds/service.ts:421`)
  [`revived` left out of `OnlyRevivalExceedsPaid`, `MaxRetries` = 1];
* two overlapping transitions of a refund act on the same old status, so one may
  write over the other (`refunds/service.ts:393-409`) [`clashed` left out
  of `LegalTransitions`];
* a refund that is COMPLETED before the delivery finds no sale to reverse, and the
  delivery then credits the whole sale (`finance/service.ts:503`): the seller keeps
  what the customer got back [`early` left out of `SettledOnce`];
* a return that an operator has refunded on its way stays at QC_PASSED: its own
  REFUND_INITIATED is refused, because it has a refund (`refunds/service.ts:233`) [in
  `BearRefund`];
* a confirmation that stock refuses fails its job, which is retried a few times and
  then given up: the paid order stays PENDING (`orders/transitions.ts:86`) until the
  reservation runs out [`gaveUp` left out of `PaidIsConfirmed`];
* a lost answer of the gateway followed by an operator's retry pays twice
  (`refunds/service.ts:583`) [`retries` left out of `GatewayPaysOncePerAttempt`];
* a capture settles an order that was cancelled, and nothing refunds it
  (`lib/payments/settle.ts:110` and `:189`) [`late` left out of `CancelRefundsSettled`];
* a failure that was read while its attempt was open overwrites the success that
  commits before it, because the attempt is read without a lock and updated by id
  (`lib/payments/settle.ts:105` and `:189`; `:154` says that a SUCCEEDED attempt never
  regresses) [`crossed` left out of `NeverRegresses`];
* the payment status that settlement writes was derived before it locked the order's
  row and is written over what others derived meanwhile, so that an order which cash
  has paid in full may read as PENDING (`lib/payments/settle.ts:201`) [the converse of
  `PaidMeansPaid`];
* a capture that is settled after a manual payment takes the order over its total
  (`orders/payments.ts:160`) [the sum at all times instead of at the manual payment,
  in `ManualNeverOverpays`];
* a batch that outlives its lock has its jobs run by a second worker
  (`lib/queue/index.ts:149`) [`LateBatches = TRUE`]; a requeue of a finished job
  opens a second job for its key (`lib/queue/index.ts:304`) [`requeued` left out of `OneOpenPerKey`];
  a handler that kills its worker is retried beyond `maxAttempts`, because the
  release of stale locks does not look at the attempts (`lib/queue/index.ts:160-174`)
  [`faults` left out of `FaultsBuyAttempts`];
* PAID racing FAILED pays rows that were handed back; a reversal between the preview
  and the statement takes it below the minimum; `markEarningsAvailable` writes by id
  over rows scheduled meanwhile; two recomputations of a balance lose the earlier
  one [`overlapped` left out of the payouts properties];
* a scheduler that found no job for the period is overtaken by another whose job is
  created and finishes; it takes the key from the finished row and the period's work
  is done twice (`queue/handlers/schedule.ts:13` and `:60-66` say at most one row
  per period) [`overtaken` left out of `OncePerPeriod`];
* a batch that confirms an order whose second line is refused keeps the first line's
  movement, and the order stays PENDING with part of its units sold
  (`orders/transitions.ts:213-216`; `:184-186` says a skip leaves the transaction
  healthy) [`torn` left out of `PendingHoldsAll`].  A line is refused when
  allowBackorder was withdrawn while more was held than was there; for the same
  reason such an order can be neither cancelled nor expired, though the blueprint
  (`docs/MARKETPLACE_BLUEPRINT.md:545`) has cancellation and expiry release it;
* two overlapping checkouts both pass the caps and the per-customer limit
  (`orders/service.ts:70`, `coupons/service.ts:349`) [`raced` left out of
  `CapsHoldSerially`]; a guest whose e-mail belongs to an account with a password is
  not counted at all, because the order has no customer id;
* two requests on one return, or on two returns of one line, act on rows loaded before
  the lock: the units are restocked twice, or one return's units are forgotten
  (`returns/service.ts:438-440`) [`stale` left out of `RestockedOnce`,
  `ReturnsWithinLine` and `RefundsWithinLine`];
* a line is stamped delivered when the parcel that arrives brings it half-way,
  because that parcel is DELIVERED already and is counted twice
  (`orders/shipments.ts:210-218`, "once every unit of it has been delivered")
  [in `ReachedCustomer`];
* the parcel of an order that was cancelled can still be shipped and delivered, and
  collects its cash; a replacement parcel is charged again on delivery
  (`orders/shipments.ts:225-235`; "the customer is not charged again",
  `returns/service.ts:345-348`) [the condition left out of `CashWithinInvoice`];
* a parcel that comes back restocks its lines whole, though other units of them
  travel in another parcel, and promises back everything that was paid
  (`orders/shipments.ts:378-407`, `orders/cancellation.ts:127-136`) [the condition on
  `Carriers` left out of `RestockedOnce`];
* the cap of a return is the share of its own units less all that was refunded on the
  line, so the second of two equal partial returns has nothing left to refund
  (`refunds/cap.ts`); the message then says that the payment has been returned in
  full (`returns/service.ts:525-527`).

## 7. What is not modelled, and why

* **Within the modelled components.**  Asynchronous gateway refunds that are settled
  by hand, several seller lines, the reversal of the commission (`Refunds`); AUTHORIZED payments, which the order module never creates,
  attempts with different amounts, signature checks and the provider registry
  (`PaymentSettlement`); priorities and enqueue without a key (`JobQueue`); bank
  accounts, audit rows and domain events, several sellers in one call
  (`SellerPayouts`); the pricing of a draft, blocklist and captcha, the cap per IP
  address, stock states and alerts, coupon rules (`OrderStock`); failed deliveries,
  which are events only, the fulfilment and return columns, the return window, the
  pickup fee, refunds of returns that fail or are withdrawn, order-level refunds by
  hand (`Fulfilment`).  Events
  and e-mails follow the modelled writes and are not read by them.
* **Commission and prices**: look-ups and arithmetic on one row; their results are
  constants here.
* **Categories, accounts, rate limits**: one transaction or one statement each, on
  rows that nothing modelled here reads.
* **No protocol to check**: catalog forms, content, customers, users, settings,
  shipping rates, reports and the UI are edits of single rows, look-ups and
  presentation; media storage is file I/O.  The e-mail outbox is a row and its job,
  whose delivery is the queue's.
* **PostgreSQL** is taken at its documentation: row locks, unique indexes, statement
  snapshots at READ COMMITTED.  Amounts are unbounded integers: paise fit JavaScript
  safe integers by many orders of magnitude.
