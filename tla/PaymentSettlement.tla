------------------------- MODULE PaymentSettlement -------------------------
(***************************************************************************)
(* The payments of one ONLINE order, from the attempt to the confirmation: *)
(* createPaymentAttempt, the webhook and /verify routes, settlePaymentEvent,*)
(* recordManualPayment, the orders.after_payment and orders.expire_unpaid   *)
(* jobs and the operator's transitions.                                     *)
(*                                                                         *)
(* Transactions are READ COMMITTED.  Those that take the order's row lock   *)
(* first (manual payment, transitions, cancellation) are one action.        *)
(* settlePaymentEvent does not: it reads the attempt, updates it by id and  *)
(* sums up the order's payments, and only its last write touches the        *)
(* order's row.  It is three actions; between the second and the third it   *)
(* holds the attempt's row lock and its write is not visible yet.           *)
(* createPaymentAttempt reads the order, calls the gateway, then writes.    *)
(*                                                                         *)
(* Every attempt asks for the order's total.  Refunds stay PENDING here     *)
(* (their life is module Refunds), so refundedPaise is 0.                   *)
(***************************************************************************)
EXTENDS Naturals, FiniteSets, Sums

CONSTANTS
  Attempts,         \* OrderPayment rows of the gateway; the provider order id
  PaymentIds,       \* gateway payment ids
  Threads,          \* requests and job runs that may overlap
  Total,            \* Order.totalPaise
  AutoConfirm,      \* the setting orders.auto_confirm_prepaid
  OperatorTargets,  \* bound: the statuses operators set by hand
  JobAttempts,      \* Job.maxAttempts of orders.after_payment
  MaxAborts         \* bound: transactions that crash, time out or deadlock

ASSUME AttemptsAssumption == IsFiniteSet(Attempts)
ASSUME TotalAssumption == Total \in Nat \ {0}
ASSUME SettingsAssumption ==
  /\ AutoConfirm \in BOOLEAN
  /\ OperatorTargets \subseteq {"CONFIRMED", "CANCELLED", "FAILED"}
  /\ JobAttempts \in Nat \ {0} /\ MaxAborts \in Nat

VARIABLES
  orderStatus,    \* Order.status, up to CONFIRMED
  paymentStatus,  \* Order.paymentStatus
  attempt,        \* OrderPayment.status per attempt
  payId,          \* OrderPayment.providerPaymentId, {} or a singleton
  cash,           \* sum of the manual payments
  refund,         \* the cancellation's refund
  events,         \* what the gateway says happened (external)
  received,       \* WebhookEvent rows
  acked,          \* webhooks answered with 2xx
  jobs,           \* orders.after_payment jobs that have not finished
  tries,          \* their Job.attempts, 0 for the others
  gaveUp,         \* jobs that are FAILED: their last attempt was refused
  call,           \* requests and job runs in flight
  aborts,         \* history: calls that died
  late,           \* history: attempts settled on a dead order
  crossed,        \* history: a success and a failure of one attempt overlapped
  expired         \* history: orders.expire_unpaid has failed the order

orderVars == <<orderStatus, paymentStatus>>
moneyVars == <<attempt, payId, cash, refund>>
hookVars == <<events, received, acked>>
jobVars == <<jobs, tries, gaveUp>>
historyVars == <<aborts, late, crossed, expired>>
vars == <<orderVars, moneyVars, hookVars, jobVars, call, historyVars>>

----------------------------------------------------------------------------
OrderStatus == {"PENDING", "CONFIRMED", "CANCELLED", "FAILED"}
Dead == {"CANCELLED", "FAILED"}
AttemptStatus == {"ABSENT", "PENDING", "SUCCEEDED", "FAILED", "CANCELLED"}

\* MANUAL_ORDER_TRANSITIONS as far as CONFIRMED.
OrderTransitions ==
  { <<"PENDING", "CONFIRMED">>, <<"PENDING", "CANCELLED">>,
    <<"PENDING", "FAILED">>, <<"CONFIRMED", "CANCELLED">> }

\* The settleable events; the gateway's others are dropped on arrival.
Events ==
  [attempt : Attempts, payment : PaymentIds, status : {"SUCCEEDED", "FAILED"}]

Jobs == [attempt : Attempts, status : {"SUCCEEDED", "FAILED"}]

Succeeded(att) == { a \in Attempts : att[a] = "SUCCEEDED" }

\* The sum of the SUCCEEDED charges: the gateway's and the manual ones.
Paid(att, manual) == SumOver([a \in Attempts |-> Total], Succeeded(att)) + manual

\* Mutant: any payment makes the order PAID.
DerivePaymentStatus_AnyPayment(paid, ord) ==
  CASE paid > 0 -> "PAID"
    [] paid = 0 /\ ord \in Dead -> ord
    [] OTHER -> "PENDING"

\* Mutant: an unpaid order's payment status is its order status.
DerivePaymentStatus_OrderStatus(paid, ord) ==
  CASE paid >= Total -> "PAID"
    [] paid = 0 -> ord
    [] OTHER -> "PENDING"

\* derivePaymentStatus with nothing refunded and nothing authorised.
DerivePaymentStatus(paid, ord) ==
  CASE paid >= Total -> "PAID"
    [] paid = 0 /\ ord \in Dead -> ord
    [] OTHER -> "PENDING"

NoCall == [pc |-> "idle"]
Settling(pc, e, hook) == [pc |-> pc, event |-> e, webhook |-> hook]
Written(e, hook, ps) ==
  [pc |-> "written", event |-> e, webhook |-> hook, paymentStatus |-> ps]
Opening(a) == [pc |-> "opening", attempt |-> a]
Confirming == [pc |-> "confirm"]
Running(j) == [pc |-> "job", job |-> j]

Calls ==
  {NoCall, Confirming}
  \cup [pc : {"received", "seen"}, event : Events, webhook : BOOLEAN]
  \cup [pc : {"written"}, event : Events, webhook : BOOLEAN,
        paymentStatus : {"PENDING", "PAID", "CANCELLED", "FAILED"}]
  \cup [pc : {"opening"}, attempt : Attempts]
  \cup [pc : {"job"}, job : Jobs]

Return(t) == call' = [call EXCEPT ![t] = NoCall]

\* The row lock between settle's update and its commit.
Locked(a) == \E t \in Threads : call[t].pc = "written" /\ call[t].event.attempt = a

\* updateMany PENDING -> CANCELLED waits for the rows it would change.
OpenAttemptsFree == \A a \in Attempts : attempt[a] = "PENDING" => ~Locked(a)
Closed(att) == [a \in Attempts |-> IF att[a] = "PENDING" THEN "CANCELLED" ELSE att[a]]

Init ==
  /\ orderStatus = "PENDING"
  /\ paymentStatus = "PENDING"
  /\ attempt = [a \in Attempts |-> "ABSENT"]
  /\ payId = [a \in Attempts |-> {}]
  /\ cash = 0
  /\ refund = 0
  /\ events = {} /\ received = {} /\ acked = {}
  /\ jobs = {} /\ tries = [j \in Jobs |-> 0] /\ gaveUp = {}
  /\ call = [t \in Threads |-> NoCall]
  /\ aborts = 0
  /\ late = {}
  /\ crossed = FALSE
  /\ expired = FALSE

----------------------------------------------------------------------------
(* createPaymentAttempt.                                                    *)

\* The read outside the transaction; the provider order is created next.
BeginAttempt(t, a) ==
  /\ call[t] = NoCall
  /\ attempt[a] = "ABSENT"
  /\ \A u \in Threads : call[u] # Opening(a)
  /\ orderStatus = "PENDING"
  /\ paymentStatus # "PAID"
  /\ call' = [call EXCEPT ![t] = Opening(a)]
  /\ UNCHANGED <<orderVars, moneyVars, hookVars, jobVars, historyVars>>

\* The transaction: it does not look at the order again.
OpenAttempt(t) ==
  /\ call[t].pc = "opening"
  /\ OpenAttemptsFree
  /\ attempt' = [Closed(attempt) EXCEPT ![call[t].attempt] = "PENDING"]
  /\ Return(t)
  /\ UNCHANGED <<orderVars, payId, cash, refund, hookVars, jobVars, historyVars>>

----------------------------------------------------------------------------
(* The gateway (external) and the two routes its news comes in by.          *)

\* A payment belongs to one provider order, and a provider order is captured
\* once; failures may be reported before and after the capture.
GatewayReports(e) ==
  /\ attempt[e.attempt] # "ABSENT"
  /\ \A f \in events : f.payment = e.payment => f.attempt = e.attempt
  /\ e.status = "SUCCEEDED" =>
       \A f \in events : f.attempt = e.attempt => f.status # "SUCCEEDED"
  /\ e \notin events
  /\ events' = events \cup {e}
  /\ UNCHANGED <<orderVars, moneyVars, received, acked, jobVars, call, historyVars>>

\* Insert-first idempotency: a known event id is answered 200 at once.
ReceiveWebhook(t, e) ==
  /\ e \in events \ acked
  /\ call[t] = NoCall
  /\ received' = received \cup {e}
  /\ IF e \in received
     THEN acked' = acked \cup {e} /\ UNCHANGED call
     ELSE /\ call' = [call EXCEPT ![t] = Settling("received", e, TRUE)]
          /\ UNCHANGED acked
  /\ UNCHANGED <<orderVars, moneyVars, events, jobVars, historyVars>>

\* /verify: the customer's browser brings a success, any number of times.
ReceiveCallback(t, e) ==
  /\ e \in events
  /\ e.status = "SUCCEEDED"
  /\ call[t] = NoCall
  /\ call' = [call EXCEPT ![t] = Settling("received", e, FALSE)]
  /\ UNCHANGED <<orderVars, moneyVars, hookVars, jobVars, historyVars>>

Acknowledge(t) ==
  acked' = IF call[t].webhook THEN acked \cup {call[t].event} ELSE acked

----------------------------------------------------------------------------
(* settlePaymentEvent.                                                      *)

SamePayment(e) == payId[e.attempt] \in {{}, {e.payment}}

HeldElsewhere(e) == \E b \in Attempts \ {e.attempt} : e.payment \in payId[b]

\* Mutant: no conflict check, a later failure is written over a success.
Unsettled_Regresses(e) ==
  /\ ~(attempt[e.attempt] = e.status /\ SamePayment(e))
  /\ ~HeldElsewhere(e)

\* Mutant: only an open attempt is settled.
Unsettled_OpenOnly(e) == attempt[e.attempt] = "PENDING" /\ ~HeldElsewhere(e)

\* Neither a repetition, nor a conflict, nor settled through another row.
Unsettled(e) ==
  /\ ~(attempt[e.attempt] = e.status /\ SamePayment(e))
  /\ attempt[e.attempt] = "SUCCEEDED" => e.status = "SUCCEEDED" /\ SamePayment(e)
  /\ ~HeldElsewhere(e)

\* Another call has read the attempt too, and is about to write the opposite.
Crosses(t) ==
  \E u \in Threads \ {t} :
    /\ call[u].pc \in {"seen", "written"}
    /\ call[u].event.attempt = call[t].event.attempt
    /\ call[u].event.status # call[t].event.status

SettleRead(t) ==
  /\ call[t].pc = "received"
  /\ IF Unsettled(call[t].event)
     THEN /\ call' = [call EXCEPT ![t] = Settling("seen", @.event, @.webhook)]
          /\ crossed' = (crossed \/ Crosses(t))
          /\ UNCHANGED acked
     ELSE Return(t) /\ Acknowledge(t) /\ UNCHANGED crossed
  /\ UNCHANGED <<orderVars, moneyVars, events, received, jobVars, aborts, late, expired>>

\* The update by id, and the sums recomputeOrderPaymentStatus reads after it.
SettleWrite(t) ==
  LET e == call[t].event
      own == [attempt EXCEPT ![e.attempt] = e.status]
  IN  /\ call[t].pc = "seen"
      /\ ~Locked(e.attempt)
      /\ call' = [call EXCEPT ![t] =
           Written(e, @.webhook, DerivePaymentStatus(Paid(own, cash), orderStatus))]
      /\ UNCHANGED <<orderVars, moneyVars, hookVars, jobVars, historyVars>>

\* Mutant: the event lands on an attempt that is open, whichever it is.
Target_AnyOpen(e) ==
  IF \E a \in Attempts : attempt[a] = "PENDING"
  THEN CHOOSE a \in Attempts : attempt[a] = "PENDING" ELSE e.attempt

\* The row the event settles: found through our own providerOrderId.
Target(e) == e.attempt

\* Mutant: no job for a success.
JobsOf_FailuresOnly(e) ==
  IF e.status = "FAILED" THEN {[attempt |-> e.attempt, status |-> e.status]} ELSE {}

\* AFTER_PAYMENT_JOB, enqueued in the same transaction.
JobsOf(e) == {[attempt |-> e.attempt, status |-> e.status]}

SettleCommit(t) ==
  LET e == call[t].event
  IN  /\ call[t].pc = "written"
      /\ attempt' = [attempt EXCEPT ![Target(e)] = e.status]
      /\ payId' = [payId EXCEPT ![Target(e)] = {e.payment}]
      /\ paymentStatus' = call[t].paymentStatus
      /\ jobs' = jobs \cup JobsOf(e)
      /\ late' = IF orderStatus \in Dead /\ e.status = "SUCCEEDED"
                 THEN late \cup {e.attempt} ELSE late
      /\ Return(t)
      /\ Acknowledge(t)
      /\ UNCHANGED <<orderStatus, cash, refund, events, received, aborts, crossed, expired, tries, gaveUp>>

----------------------------------------------------------------------------
(* Writers that hold the order's lock.                                      *)

\* Mutant: what the gateway captured does not count.
Outstanding_CashOnly == IF cash >= Total THEN 0 ELSE Total - cash

Outstanding ==
  LET paid == Paid(attempt, cash) IN IF paid >= Total THEN 0 ELSE Total - paid

\* Mutant: an auto-confirmed order need not be paid in full.
ShouldConfirm_AnyPayment(ps) == orderStatus = "PENDING" /\ AutoConfirm

ShouldConfirm(ps) == orderStatus = "PENDING" /\ ps = "PAID" /\ AutoConfirm

\* recordManualPayment; its caller confirms the order in a transaction of its own.
RecordManualPayment(t, amt) ==
  /\ call[t] = NoCall
  /\ orderStatus \notin Dead
  /\ amt \in 1..Outstanding
  /\ cash' = cash + amt
  /\ paymentStatus' = DerivePaymentStatus(Paid(attempt, cash'), orderStatus)
  /\ call' = [call EXCEPT ![t] =
                IF ShouldConfirm(paymentStatus') THEN Confirming ELSE NoCall]
  /\ UNCHANGED <<orderStatus, attempt, payId, refund, hookVars, jobVars, historyVars>>

\* transitionOrder to CONFIRMED, if the order may still go there.  Committing its
\* reservation may be refused then, for stock that has been counted away.
MayConfirm == <<orderStatus, "CONFIRMED">> \in OrderTransitions

Confirm ==
  \/ MayConfirm /\ orderStatus' = "CONFIRMED"
  \/ UNCHANGED orderStatus

ConfirmAfterPayment(t) ==
  /\ call[t].pc = "confirm"
  /\ Confirm
  /\ Return(t)
  /\ UNCHANGED <<paymentStatus, moneyVars, hookVars, jobVars, historyVars>>

\* Mutant: a part payment is kept.
CancellationRefund_FullOnly(paid) == IF paid >= Total THEN paid ELSE 0

\* What the customer paid and no refund counts yet.
CancellationRefund(paid) == paid

\* applyCancellation for the whole order; only CANCELLED gives money back.
ApplyCancellation(to) ==
  /\ <<orderStatus, to>> \in OrderTransitions
  /\ OpenAttemptsFree
  /\ orderStatus' = to
  /\ attempt' = Closed(attempt)
  /\ paymentStatus' = DerivePaymentStatus(Paid(attempt, cash), to)
  /\ refund' = IF to = "CANCELLED" THEN CancellationRefund(Paid(attempt, cash))
               ELSE refund
  /\ UNCHANGED <<payId, cash, hookVars, jobVars, call, aborts, late, crossed>>

\* The operator's transitions.
OperatorConfirms ==
  /\ "CONFIRMED" \in OperatorTargets
  /\ orderStatus = "PENDING"
  /\ Confirm
  /\ UNCHANGED <<paymentStatus, moneyVars, hookVars, jobVars, call, historyVars>>

OperatorCancels(to) ==
  to \in OperatorTargets /\ ApplyCancellation(to) /\ UNCHANGED expired

\* expireUnpaidOrdersJob: any PENDING online order whose reservation ran out,
\* whatever has been paid for it.
ExpireUnpaid ==
  orderStatus = "PENDING" /\ ApplyCancellation("FAILED") /\ expired' = TRUE

----------------------------------------------------------------------------
(* afterPaymentJob: unlocked reads, then transitionOrder.                   *)

JobConfirms(j) ==
  /\ j.status = "SUCCEEDED" /\ attempt[j.attempt] = "SUCCEEDED"
  /\ orderStatus = "PENDING"
  /\ AutoConfirm

\* The job is over: COMPLETED, or FAILED for good.
Finish(j) == jobs' = jobs \ {j} /\ tries' = [tries EXCEPT ![j] = 0]

RunAfterPayment(t, j) ==
  /\ call[t] = NoCall
  /\ j \in jobs
  /\ \A u \in Threads : call[u] # Running(j)
  /\ IF JobConfirms(j)
     THEN /\ call' = [call EXCEPT ![t] = Running(j)]
          /\ tries' = [tries EXCEPT ![j] = @ + 1]
          /\ UNCHANGED jobs
     ELSE Finish(j) /\ UNCHANGED call
  /\ UNCHANGED <<orderVars, moneyVars, hookVars, gaveUp, historyVars>>

LastTry(j) == tries[j] >= JobAttempts

JobConfirmed(j) ==
  MayConfirm /\ orderStatus' = "CONFIRMED" /\ Finish(j) /\ UNCHANGED gaveUp

\* A refused transition fails the run; the job is retried and reads again, until
\* its attempts are used up.
JobRefused(j) ==
  /\ UNCHANGED orderStatus
  /\ IF LastTry(j) THEN Finish(j) /\ gaveUp' = gaveUp \cup {j}
     ELSE UNCHANGED jobVars

ConfirmByJob(t) ==
  /\ call[t].pc = "job"
  /\ JobConfirmed(call[t].job) \/ JobRefused(call[t].job)
  /\ Return(t)
  /\ UNCHANGED <<paymentStatus, moneyVars, hookVars, historyVars>>

\* The call dies (crash, time-out, deadlock victim); nothing of it is kept.
Abort(t) ==
  /\ call[t] # NoCall
  /\ aborts < MaxAborts
  /\ aborts' = aborts + 1
  /\ Return(t)
  /\ UNCHANGED <<orderVars, moneyVars, hookVars, jobVars, late, crossed, expired>>

----------------------------------------------------------------------------
Continue(t) ==
  \/ OpenAttempt(t) \/ SettleRead(t) \/ SettleWrite(t) \/ SettleCommit(t)
  \/ ConfirmAfterPayment(t) \/ ConfirmByJob(t)

Next ==
  \/ \E e \in Events : GatewayReports(e)
  \/ \E t \in Threads :
       \/ \E a \in Attempts : BeginAttempt(t, a)
       \/ \E e \in Events : ReceiveWebhook(t, e) \/ ReceiveCallback(t, e)
       \/ \E amt \in 1..Total : RecordManualPayment(t, amt)
       \/ \E j \in Jobs : RunAfterPayment(t, j)
       \/ Continue(t)
       \/ Abort(t)
  \/ OperatorConfirms
  \/ \E to \in Dead : OperatorCancels(to)
  \/ ExpireUnpaid

Spec == Init /\ [][Next]_vars

\* Requests that are running go on; the gateway repeats a webhook until it is
\* answered; the worker comes round to every job.
Fairness ==
  /\ \A t \in Threads : WF_vars(Continue(t))
  /\ \A e \in Events : SF_vars(\E t \in Threads : ReceiveWebhook(t, e))
  /\ \A j \in Jobs : SF_vars(\E t \in Threads : RunAfterPayment(t, j))

FairSpec == Spec /\ Fairness

----------------------------------------------------------------------------
(* Properties.                                                              *)

\* Every variable has its type.
TypeOK ==
  /\ orderStatus \in OrderStatus
  /\ paymentStatus \in {"PENDING", "PAID", "CANCELLED", "FAILED"}
  /\ attempt \in [Attempts -> AttemptStatus]
  /\ payId \in [Attempts -> SUBSET PaymentIds]
  /\ cash \in Nat /\ refund \in Nat /\ aborts \in Nat
  /\ events \subseteq Events /\ received \subseteq Events /\ acked \subseteq Events
  /\ jobs \subseteq Jobs /\ gaveUp \subseteq Jobs
  /\ tries \in [Jobs -> Nat]
  /\ call \in [Threads -> Calls]
  /\ late \subseteq Attempts
  /\ crossed \in BOOLEAN /\ expired \in BOOLEAN

\* Whatever is duplicated, reordered or interleaved, the order never shows
\* money the gateway did not capture: a SUCCEEDED attempt carries the payment
\* captured for its own provider order, and no payment is on two attempts.
SettledMoneyIsReal ==
  /\ \A a \in Attempts : attempt[a] = "SUCCEEDED" =>
       \E e \in events : e.attempt = a /\ e.status = "SUCCEEDED"
                         /\ payId[a] = {e.payment}
  /\ \A a, b \in Attempts : a # b => payId[a] \cap payId[b] = {}

\* Recording a manual payment never brings the order above its total, however
\* much the gateway has settled meanwhile (recordManualPayment, "Over-payment
\* is rejected").
ManualNeverOverpays == [][cash' > cash => Paid(attempt', cash') <= Total]_vars

\* A SUCCEEDED attempt never regresses (settlePaymentEvent), until a failure of
\* an attempt is settled while a success of it is: no other overlap matters.
NeverRegresses ==
  [][\A a \in Attempts :
       ~crossed /\ attempt[a] = "SUCCEEDED" => attempt'[a] = "SUCCEEDED"]_vars

\* An order that is shown as PAID is paid, even though settle writes a status
\* it computed before other writers committed.
PaidMeansPaid ==
  ~crossed /\ paymentStatus = "PAID" => Paid(attempt, cash) >= Total

\* An order nobody confirmed by hand is CONFIRMED only when it is paid in
\* full, whether the gateway's job or a manual payment did it.
ConfirmedIsPaid ==
  ~crossed /\ orderStatus = "CONFIRMED" /\ "CONFIRMED" \notin OperatorTargets
    => Paid(attempt, cash) >= Total

\* Cancelling gives back every payment that was settled before: none that
\* commits before the cancellation's lock is missed (applyCancellation).
CancelRefundsSettled ==
  orderStatus = "CANCELLED" =>
    refund >= cash + SumOver([a \in Attempts |-> Total], Succeeded(attempt) \ late)

\* While nothing crashes, a captured payment reaches the order's books.
CaptureIsSettled ==
  \A e \in Events :
    e \in events /\ e.status = "SUCCEEDED"
      ~> crossed \/ attempt[e.attempt] = "SUCCEEDED"

\* With auto-confirmation on, a paid order is confirmed (orders.after_payment):
\* unless an operator cancels it, or its reservation runs out first, or stock
\* refused the confirmation on every attempt of the job.
PaidIsConfirmed ==
  \A a \in Attempts :
    attempt[a] = "SUCCEEDED" /\ orderStatus = "PENDING" /\ AutoConfirm
      ~> \/ crossed
         \/ orderStatus \in {"CONFIRMED"} \cup OperatorTargets
         \/ expired
         \/ [attempt |-> a, status |-> "SUCCEEDED"] \in gaveUp

----------------------------------------------------------------------------
(* Statements of the code's comments and documents.                         *)

\* "a late callback for an abandoned widget cannot double-charge"
\* (createPaymentAttempt).
ChargedOnce == Cardinality(Succeeded(attempt)) <= 1

\* "2xx only after commit": a capture that is acknowledged is settled, or
\* still on its way.
AcknowledgedIsSettled ==
  \A e \in acked :
    e.status = "SUCCEEDED" =>
      \/ attempt[e.attempt] = "SUCCEEDED"
      \/ \E t \in Threads :
           call[t].pc \in {"received", "seen", "written"} /\ call[t].event = e
=============================================================================
