---------------------- MODULE PaymentSettlementProofs ----------------------
(***************************************************************************)
(* What the payments of an order guarantee for any number of attempts,      *)
(* gateway payments and overlapping requests, and any total.                *)
(***************************************************************************)
EXTENDS PaymentSettlement, SumsProofs

LEMMA ChargesNat ==
  ASSUME NEW S \in SUBSET Attempts
  PROVE  SumOver([a \in Attempts |-> Total], S) \in Nat
<1>1. IsFiniteSet(S)
  BY AttemptsAssumption, FS_Subset
<1>2. \A a \in S : [b \in Attempts |-> Total][a] \in Nat
  BY TotalAssumption
<1> HIDE DEF SumOver
<1>3. QED BY <1>1, <1>2, SumOverNat

LEMMA ChargesSubset ==
  ASSUME NEW S \in SUBSET Attempts, NEW R \in SUBSET S
  PROVE  SumOver([a \in Attempts |-> Total], R) <= SumOver([a \in Attempts |-> Total], S)
<1>1. IsFiniteSet(S)
  BY AttemptsAssumption, FS_Subset
<1>2. \A a \in S : [b \in Attempts |-> Total][a] \in Nat
  BY TotalAssumption
<1> HIDE DEF SumOver
<1>3. QED BY <1>1, <1>2, SumOverSubset

LEMMA PaidNat ==
  ASSUME NEW att, NEW manual \in Nat
  PROVE  Paid(att, manual) \in Nat
<1>1. Succeeded(att) \in SUBSET Attempts
  BY DEF Succeeded
<1>2. QED BY <1>1, ChargesNat DEF Paid

PaymentStatuses == {"PENDING", "PAID", "CANCELLED", "FAILED"}

LEMMA DerivedType ==
  ASSUME NEW paid, NEW ord
  PROVE  DerivePaymentStatus(paid, ord) \in PaymentStatuses
BY DEF DerivePaymentStatus, Dead, PaymentStatuses

LEMMA CallShape ==
  ASSUME TypeOK, NEW t \in Threads
  PROVE  /\ call[t].pc \in {"received", "seen", "written"} =>
              /\ call[t].event \in Events
              /\ call[t].webhook \in BOOLEAN
         /\ call[t].pc = "written" => call[t].paymentStatus \in PaymentStatuses
         /\ call[t].pc = "opening" => call[t].attempt \in Attempts
         /\ call[t].pc = "job" => call[t].job \in Jobs
BY DEF TypeOK, Calls, NoCall, Confirming, PaymentStatuses

LEMMA EventShape ==
  ASSUME NEW e \in Events
  PROVE  /\ e.attempt \in Attempts /\ e.payment \in PaymentIds
         /\ e.status \in {"SUCCEEDED", "FAILED"}
         /\ JobsOf(e) \subseteq Jobs
BY DEF Events, Jobs, JobsOf

LEMMA NewCalls ==
  /\ NoCall \in Calls /\ Confirming \in Calls
  /\ \A a \in Attempts : Opening(a) \in Calls
  /\ \A j \in Jobs : Running(j) \in Calls
  /\ \A e \in Events, hook \in BOOLEAN :
       /\ Settling("received", e, hook) \in Calls
       /\ Settling("seen", e, hook) \in Calls
       /\ \A ps \in PaymentStatuses : Written(e, hook, ps) \in Calls
BY DEF Calls, NoCall, Confirming, Opening, Running, Settling, Written, PaymentStatuses

----------------------------------------------------------------------------
\* Type correctness of the order's payments under every interleaving.
THEOREM TypeCorrect == Spec => []TypeOK
<1>1. Init => TypeOK
  <2> SUFFICES ASSUME Init PROVE TypeOK
    OBVIOUS
  <2>1. crossed \in BOOLEAN
    BY DEF Init
  <2>2. call \in [Threads -> Calls]
    BY NewCalls DEF Init
  <2>3. QED BY <2>1, <2>2 DEF Init, TypeOK, OrderStatus, AttemptStatus
<1>2. TypeOK /\ [Next]_vars => TypeOK'
  <2> SUFFICES ASSUME TypeOK, [Next]_vars PROVE TypeOK'
    OBVIOUS
  <2> USE DEF orderVars, moneyVars, hookVars, jobVars, historyVars, Return
  <2>1. ASSUME NEW e \in Events, GatewayReports(e)
        PROVE  TypeOK'
    BY <2>1 DEF GatewayReports, TypeOK
  <2>2. ASSUME NEW t \in Threads, NEW a \in Attempts, BeginAttempt(t, a)
        PROVE  TypeOK'
    BY <2>2, NewCalls DEF BeginAttempt, TypeOK
  <2>3. ASSUME NEW t \in Threads, NEW e \in Events, ReceiveWebhook(t, e)
        PROVE  TypeOK'
    <3>1. Settling("received", e, TRUE) \in Calls
      BY NewCalls
    <3>2. QED BY <2>3, <3>1 DEF ReceiveWebhook, TypeOK
  <2>4. ASSUME NEW t \in Threads, NEW e \in Events, ReceiveCallback(t, e)
        PROVE  TypeOK'
    <3>1. Settling("received", e, FALSE) \in Calls
      BY NewCalls
    <3>2. QED BY <2>4, <3>1 DEF ReceiveCallback, TypeOK
  <2>5. ASSUME NEW t \in Threads, NEW amt \in 1..Total, RecordManualPayment(t, amt)
        PROVE  TypeOK'
    <3>1. cash' \in Nat
      BY <2>5, TotalAssumption DEF RecordManualPayment, TypeOK
    <3>2. paymentStatus' \in PaymentStatuses
      BY <2>5, DerivedType DEF RecordManualPayment
    <3>3. call' \in [Threads -> Calls]
      BY <2>5, NewCalls DEF RecordManualPayment, TypeOK
    <3>4. QED
      BY <2>5, <3>1, <3>2, <3>3 DEF RecordManualPayment, TypeOK, PaymentStatuses
  <2>6. ASSUME NEW t \in Threads, NEW j \in Jobs, RunAfterPayment(t, j)
        PROVE  TypeOK'
    <3>1. /\ jobs' \subseteq Jobs /\ tries' \in [Jobs -> Nat]
          /\ call' \in [Threads -> Calls]
      BY <2>6, NewCalls DEF RunAfterPayment, Finish, TypeOK
    <3>2. QED BY <2>6, <3>1 DEF RunAfterPayment, TypeOK
  <2>7. ASSUME NEW t \in Threads, OpenAttempt(t)
        PROVE  TypeOK'
    <3>1. attempt' \in [Attempts -> AttemptStatus]
      BY <2>7 DEF OpenAttempt, Closed, TypeOK, AttemptStatus
    <3>2. QED BY <2>7, <3>1, NewCalls DEF OpenAttempt, TypeOK
  <2>8. ASSUME NEW t \in Threads, SettleRead(t)
        PROVE  TypeOK'
    <3>1. call[t].event \in Events /\ call[t].webhook \in BOOLEAN
      BY <2>8, CallShape DEF SettleRead
    <3>2. Settling("seen", call[t].event, call[t].webhook) \in Calls
      BY <3>1, NewCalls
    <3>3. QED
      BY <2>8, <3>1, <3>2, NewCalls DEF SettleRead, Acknowledge, TypeOK
  <2>9. ASSUME NEW t \in Threads, SettleWrite(t)
        PROVE  TypeOK'
    <3>1. call[t].event \in Events /\ call[t].webhook \in BOOLEAN
      BY <2>9, CallShape DEF SettleWrite
    <3>2. PICK paid, ord :
            call' = [call EXCEPT ![t] =
              Written(call[t].event, call[t].webhook, DerivePaymentStatus(paid, ord))]
      BY <2>9 DEF SettleWrite
    <3>3. Written(call[t].event, call[t].webhook, DerivePaymentStatus(paid, ord)) \in Calls
      BY <3>1, NewCalls, DerivedType
    <3>4. QED BY <2>9, <3>2, <3>3 DEF SettleWrite, TypeOK
  <2>10. ASSUME NEW t \in Threads, SettleCommit(t)
         PROVE  TypeOK'
    <3>1. /\ call[t].event \in Events /\ call[t].webhook \in BOOLEAN
          /\ call[t].paymentStatus \in PaymentStatuses
      BY <2>10, CallShape DEF SettleCommit
    <3>2. /\ call[t].event.attempt \in Attempts /\ call[t].event.payment \in PaymentIds
          /\ call[t].event.status \in AttemptStatus
          /\ JobsOf(call[t].event) \subseteq Jobs
      BY <3>1, EventShape DEF AttemptStatus
    <3>3. QED
      BY <2>10, <3>1, <3>2, NewCalls
      DEF SettleCommit, Target, Acknowledge, TypeOK, PaymentStatuses
  <2>11. ASSUME NEW t \in Threads, ConfirmAfterPayment(t) \/ ConfirmByJob(t)
         PROVE  TypeOK'
    <3>1. CASE ConfirmAfterPayment(t)
      BY <3>1, NewCalls DEF ConfirmAfterPayment, Confirm, TypeOK, OrderStatus
    <3>2. CASE ConfirmByJob(t)
      <4>1. PICK j \in Jobs : j = call[t].job
        BY <3>2, CallShape DEF ConfirmByJob
      <4>2. /\ jobs' \subseteq Jobs /\ gaveUp' \subseteq Jobs
            /\ tries' \in [Jobs -> Nat] /\ orderStatus' \in OrderStatus
        BY <3>2, <4>1 DEF ConfirmByJob, JobConfirmed, JobRefused, Finish, TypeOK, OrderStatus
      <4>3. QED BY <3>2, <4>2, NewCalls DEF ConfirmByJob, TypeOK
    <3>3. QED BY <2>11, <3>1, <3>2
  <2>12. ASSUME NEW t \in Threads, Abort(t)
         PROVE  TypeOK'
    BY <2>12, NewCalls DEF Abort, TypeOK
  <2>13. ASSUME OperatorConfirms
         PROVE  TypeOK'
    BY <2>13 DEF OperatorConfirms, Confirm, TypeOK, OrderStatus
  <2>14. ASSUME NEW to \in Dead, ApplyCancellation(to), expired' \in BOOLEAN
         PROVE  TypeOK'
    <3>1. refund' \in Nat
      BY <2>14, PaidNat DEF ApplyCancellation, CancellationRefund, TypeOK
    <3>2. paymentStatus' \in PaymentStatuses
      BY <2>14, DerivedType DEF ApplyCancellation
    <3>3. attempt' \in [Attempts -> AttemptStatus]
      BY <2>14 DEF ApplyCancellation, Closed, TypeOK, AttemptStatus
    <3>4. QED
      BY <2>14, <3>1, <3>2, <3>3
      DEF ApplyCancellation, TypeOK, PaymentStatuses, OrderStatus, Dead
  <2>15. CASE UNCHANGED vars
    BY <2>15 DEF vars, TypeOK
  <2>16. expired \in BOOLEAN
    BY DEF TypeOK
  <2>17. ASSUME NEW to \in Dead, OperatorCancels(to) PROVE TypeOK'
    BY <2>14, <2>16, <2>17 DEF OperatorCancels
  <2>18. CASE ExpireUnpaid
    BY <2>14, <2>18 DEF ExpireUnpaid, Dead
  <2>19. QED
    BY <2>1, <2>2, <2>3, <2>4, <2>5, <2>6, <2>7, <2>8, <2>9, <2>10, <2>11, <2>12,
       <2>13, <2>15, <2>17, <2>18
    DEF Next, Continue
<1>3. QED BY <1>1, <1>2, PTL DEF Spec

----------------------------------------------------------------------------
(* Money on the books is money the gateway captured.                        *)

\* What a call is settling was reported by the gateway.
CallsAreReal ==
  \A t \in Threads :
    call[t].pc \in {"received", "seen", "written"} => call[t].event \in events

PaymentsBelong ==
  \A e, f \in events : e.payment = f.payment => e.attempt = f.attempt

\* A payment id on a row was reported for that row's provider order.
PayIdsReported ==
  \A a \in Attempts : \A p \in payId[a] :
    \E e \in events : e.attempt = a /\ e.payment = p

SuccessIsCaptured ==
  \A a \in Attempts : attempt[a] = "SUCCEEDED" =>
    \E e \in events : e.attempt = a /\ e.status = "SUCCEEDED" /\ payId[a] = {e.payment}

RealInv == CallsAreReal /\ PaymentsBelong /\ PayIdsReported /\ SuccessIsCaptured

LEMMA RealStep ==
  ASSUME TypeOK, RealInv, [Next]_vars
  PROVE  RealInv'
<1> USE DEF orderVars, moneyVars, hookVars, jobVars, historyVars, Return, RealInv
<1>1. ASSUME NEW e \in Events, GatewayReports(e)
      PROVE  RealInv'
  <2>1. CallsAreReal' /\ SuccessIsCaptured' /\ PayIdsReported'
    BY <1>1 DEF GatewayReports, CallsAreReal, SuccessIsCaptured, PayIdsReported
  <2>2. PaymentsBelong'
    BY <1>1 DEF GatewayReports, PaymentsBelong
  <2>3. QED BY <2>1, <2>2
<1>2. ASSUME events' = events, payId' = payId, CallsAreReal',
             \A a \in Attempts : attempt'[a] = "SUCCEEDED" => attempt[a] = "SUCCEEDED"
      PROVE  RealInv'
  BY <1>2 DEF PaymentsBelong, PayIdsReported, SuccessIsCaptured
<1>3. ASSUME NEW t \in Threads, NEW e \in Events,
             ReceiveWebhook(t, e) \/ ReceiveCallback(t, e)
      PROVE  RealInv'
  <2>1. CallsAreReal'
    BY <1>3 DEF ReceiveWebhook, ReceiveCallback, CallsAreReal, Settling, NoCall, TypeOK
  <2>2. QED BY <1>2, <1>3, <2>1 DEF ReceiveWebhook, ReceiveCallback
<1>4. ASSUME NEW t \in Threads, SettleRead(t) \/ SettleWrite(t)
      PROVE  RealInv'
  <2>1. CallsAreReal'
    BY <1>4 DEF SettleRead, SettleWrite, CallsAreReal, Settling, Written, NoCall, TypeOK
  <2>2. QED BY <1>2, <1>4, <2>1 DEF SettleRead, SettleWrite
<1>5. ASSUME NEW t \in Threads, SettleCommit(t)
      PROVE  RealInv'
  <2> DEFINE e == call[t].event
  <2>1. e \in events /\ e \in Events /\ e.attempt \in Attempts
    BY <1>5, CallShape, EventShape DEF SettleCommit, CallsAreReal
  <2>2. /\ attempt' = [attempt EXCEPT ![e.attempt] = e.status]
        /\ payId' = [payId EXCEPT ![e.attempt] = {e.payment}]
        /\ events' = events
        /\ call' = [call EXCEPT ![t] = NoCall]
    BY <1>5 DEF SettleCommit, Target
  <2> HIDE DEF e
  <2>3. CallsAreReal'
    BY <2>2 DEF CallsAreReal, NoCall, TypeOK
  <2>4. PayIdsReported' /\ SuccessIsCaptured'
    BY <2>1, <2>2 DEF PayIdsReported, SuccessIsCaptured, TypeOK
  <2>5. QED BY <2>2, <2>3, <2>4 DEF PaymentsBelong
<1>6. ASSUME NEW t \in Threads, OpenAttempt(t)
      PROVE  RealInv'
  <2>1. call[t].attempt \in Attempts
    BY <1>6, CallShape DEF OpenAttempt
  <2>2. \A a \in Attempts : attempt'[a] = "SUCCEEDED" => attempt[a] = "SUCCEEDED"
    BY <1>6, <2>1 DEF OpenAttempt, Closed, TypeOK
  <2>3. CallsAreReal'
    BY <1>6 DEF OpenAttempt, CallsAreReal, NoCall, TypeOK
  <2>4. QED BY <1>2, <1>6, <2>2, <2>3 DEF OpenAttempt
<1>7. ASSUME NEW to, ApplyCancellation(to)
      PROVE  RealInv'
  <2>1. \A a \in Attempts : attempt'[a] = "SUCCEEDED" => attempt[a] = "SUCCEEDED"
    BY <1>7 DEF ApplyCancellation, Closed, TypeOK
  <2>2. QED BY <1>2, <1>7, <2>1 DEF ApplyCancellation, CallsAreReal
<1>8. ASSUME NEW t \in Threads,
             \/ \E a \in Attempts : BeginAttempt(t, a)
             \/ \E amt \in 1..Total : RecordManualPayment(t, amt)
             \/ \E j \in Jobs : RunAfterPayment(t, j)
             \/ ConfirmAfterPayment(t) \/ ConfirmByJob(t) \/ Abort(t)
      PROVE  RealInv'
  <2>1. events' = events /\ payId' = payId /\ attempt' = attempt
    BY <1>8
    DEF BeginAttempt, RecordManualPayment, RunAfterPayment, ConfirmAfterPayment,
        ConfirmByJob, Abort
  <2>2. CallsAreReal'
    BY <1>8, <2>1
    DEF BeginAttempt, RecordManualPayment, RunAfterPayment, ConfirmAfterPayment,
        ConfirmByJob, Abort, CallsAreReal, NoCall, Opening, Confirming, Running, TypeOK
  <2>3. QED BY <1>2, <2>1, <2>2
<1>9. ASSUME OperatorConfirms \/ UNCHANGED vars
      PROVE  RealInv'
  BY <1>2, <1>9 DEF OperatorConfirms, vars, CallsAreReal
<1>10. QED
  BY <1>1, <1>3, <1>4, <1>5, <1>6, <1>7, <1>8, <1>9
  DEF Next, Continue, OperatorCancels, ExpireUnpaid

LEMMA RealCorrect == Spec => []RealInv
<1>1. Init => RealInv
  BY DEF Init, RealInv, CallsAreReal, PaymentsBelong, PayIdsReported,
         SuccessIsCaptured, NoCall
<1>2. TypeOK /\ RealInv /\ [Next]_vars => RealInv'
  BY RealStep
<1>3. QED BY <1>1, <1>2, TypeCorrect, PTL DEF Spec

\* However events are duplicated, reordered and interleaved, a SUCCEEDED
\* attempt carries the payment captured for its own provider order, and no
\* payment is on two attempts (settlePaymentEvent).
THEOREM SettledIsReal == Spec => []SettledMoneyIsReal
<1>1. RealInv => SettledMoneyIsReal
  <2> SUFFICES ASSUME RealInv PROVE SettledMoneyIsReal
    OBVIOUS
  <2>1. \A a, b \in Attempts : a # b => payId[a] \cap payId[b] = {}
    BY DEF RealInv, PayIdsReported, PaymentsBelong
  <2>2. QED BY <2>1 DEF RealInv, SuccessIsCaptured, SettledMoneyIsReal
<1>2. QED BY <1>1, RealCorrect, PTL

----------------------------------------------------------------------------
\* A manual payment is taken only up to what is outstanding, whatever the
\* gateway has settled before (recordManualPayment).
THEOREM ManualPaymentFits == Spec => ManualNeverOverpays
<1>1. TypeOK /\ [Next]_vars => [cash' > cash => Paid(attempt', cash') <= Total]_vars
  <2> SUFFICES ASSUME TypeOK, Next, cash' # cash
               PROVE  Paid(attempt', cash') <= Total
    BY DEF TypeOK
  <2> USE DEF orderVars, moneyVars, hookVars, jobVars, historyVars, Return
  <2>1. PICK t \in Threads, amt \in 1..Total : RecordManualPayment(t, amt)
    BY DEF Next, Continue, GatewayReports, BeginAttempt, ReceiveWebhook,
           ReceiveCallback, RunAfterPayment, OpenAttempt, SettleRead, SettleWrite,
           SettleCommit, ConfirmAfterPayment, ConfirmByJob, Abort, OperatorConfirms,
           OperatorCancels, ApplyCancellation, ExpireUnpaid
  <2> DEFINE charged == SumOver([a \in Attempts |-> Total], Succeeded(attempt))
  <2>2. charged \in Nat
    BY ChargesNat DEF Succeeded
  <2>3. /\ cash \in Nat /\ Total \in Nat /\ amt \in Nat /\ amt >= 1
        /\ cash' = cash + amt /\ attempt' = attempt
    BY <2>1, TotalAssumption DEF RecordManualPayment, TypeOK
  <2>4. Paid(attempt, cash) = charged + cash /\ Paid(attempt', cash') = charged + cash'
    BY <2>3 DEF Paid
  <2>5. amt <= Outstanding
    BY <2>1, <2>2, <2>3, <2>4 DEF RecordManualPayment, Outstanding
  <2> HIDE DEF charged
  <2>6. QED BY <2>2, <2>3, <2>4, <2>5 DEF Outstanding
<1>2. QED BY <1>1, TypeCorrect, PTL DEF Spec, ManualNeverOverpays

----------------------------------------------------------------------------
\* Cancelling gives back every payment that was settled before it, and only
\* payments that arrive on the dead order are left out (applyCancellation).
THEOREM CancellationRefunds == Spec => []CancelRefundsSettled
<1> DEFINE Before == Succeeded(attempt) \ late
           Sum(S) == SumOver([a \in Attempts |-> Total], S)
<1>1. Init => CancelRefundsSettled
  BY DEF Init, CancelRefundsSettled
<1>2. TypeOK /\ CancelRefundsSettled /\ [Next]_vars => CancelRefundsSettled'
  <2> SUFFICES ASSUME TypeOK, CancelRefundsSettled, [Next]_vars, orderStatus' = "CANCELLED"
               PROVE  refund' >= cash' + Sum(Before')
    BY DEF CancelRefundsSettled
  <2> USE DEF orderVars, moneyVars, hookVars, jobVars, historyVars, Return
  <2>1. /\ Sum(Before) \in Nat /\ Sum(Succeeded(attempt)) \in Nat
        /\ Before \in SUBSET Attempts /\ Succeeded(attempt) \in SUBSET Attempts
        /\ cash \in Nat /\ refund \in Nat
    BY ChargesNat DEF Succeeded, TypeOK
  <2>2. ASSUME NEW to, ApplyCancellation(to)
        PROVE  refund' >= cash' + Sum(Before')
    <3>1. refund' = Sum(Succeeded(attempt)) + cash /\ cash' = cash
      BY <2>2 DEF ApplyCancellation, CancellationRefund, Paid
    <3>2. Before' \in SUBSET Succeeded(attempt)
      BY <2>2 DEF ApplyCancellation, Closed, Succeeded
    <3>3. Sum(Before') <= Sum(Succeeded(attempt)) /\ Sum(Before') \in Nat
      <4> HIDE DEF Before
      <4>1. QED BY <2>1, <3>2, ChargesSubset, ChargesNat
    <3> HIDE DEF Before, Sum
    <3>4. QED BY <2>1, <3>1, <3>3
  <2>3. ASSUME orderStatus = "CANCELLED", refund' = refund, cash' = cash,
               Before' \in SUBSET Before
        PROVE  refund' >= cash' + Sum(Before')
    <3>1. Sum(Before') <= Sum(Before) /\ Sum(Before') \in Nat
      <4> HIDE DEF Before
      <4>1. QED BY <2>1, <2>3, ChargesSubset, ChargesNat
    <3>2. refund >= cash + Sum(Before)
      BY <2>3 DEF CancelRefundsSettled
    <3> HIDE DEF Before, Sum
    <3>3. QED BY <2>1, <2>3, <3>1, <3>2
  <2>4. ASSUME NEW t \in Threads, SettleCommit(t)
        PROVE  refund' >= cash' + Sum(Before')
    <3>1. orderStatus = "CANCELLED" /\ refund' = refund /\ cash' = cash
      BY <2>4 DEF SettleCommit
    <3>2. call[t].event \in Events /\ call[t].event.attempt \in Attempts
          /\ call[t].event.status \in {"SUCCEEDED", "FAILED"}
      BY <2>4, CallShape, EventShape DEF SettleCommit
    <3>3. Before' \in SUBSET Before
      BY <2>4, <3>1, <3>2 DEF SettleCommit, Target, Succeeded, Dead, TypeOK
    <3>4. QED BY <2>3, <3>1, <3>3
  <2>5. ASSUME NEW t \in Threads, OpenAttempt(t)
        PROVE  refund' >= cash' + Sum(Before')
    <3>1. Before' \in SUBSET Before
      BY <2>5 DEF OpenAttempt, Closed, Succeeded, TypeOK
    <3>2. QED BY <2>3, <2>5, <3>1 DEF OpenAttempt
  <2>6. ASSUME UNCHANGED <<orderStatus, attempt, cash, refund, late>>
        PROVE  refund' >= cash' + Sum(Before')
    BY <2>3, <2>6 DEF Succeeded
  <2>7. ASSUME NEW t \in Threads, NEW amt, RecordManualPayment(t, amt)
        PROVE  FALSE
    BY <2>7 DEF RecordManualPayment, Dead
  <2>8. ASSUME NEW t \in Threads,
               ConfirmAfterPayment(t) \/ ConfirmByJob(t) \/ OperatorConfirms
        PROVE  refund' >= cash' + Sum(Before')
    <3>1. UNCHANGED <<attempt, cash, refund, late>> /\ orderStatus' \in {orderStatus, "CONFIRMED"}
      BY <2>8 DEF ConfirmAfterPayment, ConfirmByJob, OperatorConfirms, Confirm,
                  JobConfirmed, JobRefused
    <3>2. QED BY <2>6, <3>1
  <2>9. QED
    BY <2>2, <2>4, <2>5, <2>6, <2>7, <2>8
    DEF Next, vars, Continue, GatewayReports, BeginAttempt, ReceiveWebhook,
        ReceiveCallback, RunAfterPayment, SettleRead, SettleWrite, Abort,
        OperatorConfirms, Confirm, OperatorCancels, ExpireUnpaid
<1>3. QED
  <2> HIDE DEF Before, Sum
  <2>1. QED BY <1>1, <1>2, TypeCorrect, PTL DEF Spec

----------------------------------------------------------------------------
(* Overlapping settlements.                                                 *)

\* An attempt that is being opened is not there yet, and nobody else opens it.
OpeningsFresh ==
  \A t \in Threads : call[t].pc = "opening" =>
    /\ attempt[call[t].attempt] = "ABSENT"
    /\ \A u \in Threads \ {t} : call[u] # call[t]

\* The gateway knows of attempts that are there.
ReportedExist == \A e \in events : attempt[e.attempt] # "ABSENT"

LEMMA OpeningStep ==
  ASSUME TypeOK, CallsAreReal, OpeningsFresh, ReportedExist, [Next]_vars
  PROVE  OpeningsFresh' /\ ReportedExist'
<1> USE DEF orderVars, moneyVars, hookVars, jobVars, historyVars, Return
\* Steps that bring no attempt back to ABSENT and open none.
<1>1. ASSUME NEW t \in Threads, UNCHANGED events, call' = [call EXCEPT ![t] = call'[t]],
             call'[t].pc # "opening",
             \A a \in Attempts : attempt[a] = "ABSENT" <=> attempt'[a] = "ABSENT"
      PROVE  OpeningsFresh' /\ ReportedExist'
  <2>1. OpeningsFresh'
    <3>1. \A u \in Threads : u # t => call'[u] = call[u]
      BY <1>1 DEF TypeOK
    <3>2. QED BY <1>1, <3>1, CallShape DEF OpeningsFresh
  <2>2. ReportedExist'
    BY <1>1 DEF ReportedExist, Events, TypeOK
  <2>3. QED BY <2>1, <2>2
<1>2. ASSUME NEW t \in Threads, NEW a \in Attempts, BeginAttempt(t, a)
      PROVE  OpeningsFresh' /\ ReportedExist'
  <2>1. /\ attempt' = attempt /\ events' = events /\ attempt[a] = "ABSENT"
        /\ call' = [call EXCEPT ![t] = Opening(a)]
        /\ \A u \in Threads : call[u] # Opening(a)
    BY <1>2 DEF BeginAttempt
  <2>2. /\ call'[t] = Opening(a)
        /\ \A u \in Threads : u # t => call'[u] = call[u]
    BY <2>1 DEF TypeOK
  <2>3. OpeningsFresh'
    <3>1. ASSUME NEW u \in Threads, call'[u].pc = "opening"
          PROVE  /\ attempt'[call'[u].attempt] = "ABSENT"
                 /\ \A v \in Threads \ {u} : call'[v] # call'[u]
      <4>1. CASE u = t
        BY <2>1, <2>2, <4>1 DEF Opening
      <4>2. CASE u # t
        BY <2>1, <2>2, <3>1, <4>2 DEF OpeningsFresh
      <4>3. QED BY <4>1, <4>2
    <3>2. QED BY <3>1 DEF OpeningsFresh
  <2>4. QED BY <2>1, <2>3 DEF ReportedExist
<1>3. ASSUME NEW t \in Threads, OpenAttempt(t)
      PROVE  OpeningsFresh' /\ ReportedExist'
  <2>1. PICK a \in Attempts : a = call[t].attempt
    BY <1>3, CallShape DEF OpenAttempt
  <2>2. /\ attempt' = [Closed(attempt) EXCEPT ![a] = "PENDING"] /\ events' = events
        /\ call[t].pc = "opening" /\ call' = [call EXCEPT ![t] = NoCall]
    BY <1>3, <2>1 DEF OpenAttempt
  <2>3. /\ call'[t] = NoCall
        /\ \A u \in Threads : u # t => call'[u] = call[u]
    BY <2>2 DEF TypeOK
  <2>4. \A b \in Attempts : b # a => (attempt[b] = "ABSENT" <=> attempt'[b] = "ABSENT")
    BY <2>2 DEF Closed, TypeOK
  <2>5. \A u \in Threads : u # t /\ call[u].pc = "opening" =>
          call[u].attempt \in Attempts /\ call[u].attempt # a
    <3>1. ASSUME NEW u \in Threads, u # t, call[u].pc = "opening"
          PROVE  call[u].attempt \in Attempts /\ call[u].attempt # a
      <4>1. call[u] = Opening(call[u].attempt) /\ call[t] = Opening(a)
        BY <2>1, <2>2, <3>1 DEF TypeOK, Calls, Opening, NoCall, Confirming
      <4>2. call[u] # call[t]
        BY <2>2, <3>1 DEF OpeningsFresh
      <4>3. QED BY <3>1, <4>1, <4>2, CallShape
    <3>2. QED BY <3>1
  <2>6. OpeningsFresh'
    BY <2>3, <2>4, <2>5 DEF OpeningsFresh, NoCall
  <2>7. attempt'[a] # "ABSENT"
    BY <2>2 DEF Closed
  <2>8. ReportedExist'
    BY <2>2, <2>4, <2>7 DEF ReportedExist, Events, TypeOK
  <2>9. QED BY <2>6, <2>8
<1>4. ASSUME NEW t \in Threads, SettleCommit(t)
      PROVE  OpeningsFresh' /\ ReportedExist'
  <2>1. PICK e \in events : e = call[t].event
    BY <1>4 DEF SettleCommit, CallsAreReal
  <2>2. /\ attempt' = [attempt EXCEPT ![e.attempt] = e.status] /\ events' = events
        /\ call' = [call EXCEPT ![t] = NoCall]
    BY <1>4, <2>1 DEF SettleCommit, Target
  <2>3. attempt[e.attempt] # "ABSENT" /\ e.status # "ABSENT"
    BY <2>1 DEF ReportedExist, Events, TypeOK
  <2>4. \A a \in Attempts : attempt[a] = "ABSENT" <=> attempt'[a] = "ABSENT"
    BY <2>2, <2>3 DEF TypeOK
  <2>5. call'[t] = NoCall
    BY <2>2 DEF TypeOK
  <2>6. call' = [call EXCEPT ![t] = call'[t]]
    BY <2>2, <2>5, Zenon
  <2>7. call'[t].pc # "opening"
    BY <2>5 DEF NoCall
  <2>8. UNCHANGED events
    BY <2>2
  <2>9. QED BY <1>1, <2>4, <2>6, <2>7, <2>8, Zenon
<1>5. ASSUME NEW e \in Events, GatewayReports(e)
      PROVE  OpeningsFresh' /\ ReportedExist'
  BY <1>5 DEF GatewayReports, OpeningsFresh, ReportedExist
<1>6. ASSUME UNCHANGED <<events, call>>,
             \A a \in Attempts : attempt[a] = "ABSENT" <=> attempt'[a] = "ABSENT"
      PROVE  OpeningsFresh' /\ ReportedExist'
  BY <1>6, CallShape DEF OpeningsFresh, ReportedExist, Events, TypeOK
<1>7. ASSUME NEW to, ApplyCancellation(to)
      PROVE  OpeningsFresh' /\ ReportedExist'
  <2>1. \A a \in Attempts : attempt[a] = "ABSENT" <=> attempt'[a] = "ABSENT"
    BY <1>7 DEF ApplyCancellation, Closed
  <2>2. QED BY <1>6, <1>7, <2>1 DEF ApplyCancellation
<1>8. ASSUME NEW t \in Threads,
             \/ \E e \in Events : ReceiveWebhook(t, e) \/ ReceiveCallback(t, e)
             \/ \E amt \in 1..Total : RecordManualPayment(t, amt)
             \/ \E j \in Jobs : RunAfterPayment(t, j)
             \/ SettleRead(t) \/ SettleWrite(t)
             \/ ConfirmAfterPayment(t) \/ ConfirmByJob(t) \/ Abort(t)
      PROVE  OpeningsFresh' /\ ReportedExist'
  <2>1. UNCHANGED <<events, attempt>>
    BY <1>8
    DEF ReceiveWebhook, ReceiveCallback, RecordManualPayment, RunAfterPayment,
        SettleRead, SettleWrite, ConfirmAfterPayment, ConfirmByJob, Abort
  <2>2. /\ call' = [call EXCEPT ![t] = call'[t]]
        /\ call'[t].pc # "opening" \/ call' = call
    BY <1>8
    DEF ReceiveWebhook, ReceiveCallback, RecordManualPayment, RunAfterPayment,
        SettleRead, SettleWrite, ConfirmAfterPayment, ConfirmByJob, Abort, TypeOK,
        NoCall, Confirming, Running, Settling, Written
  <2>3. QED BY <1>1, <1>6, <2>1, <2>2
<1>9. CASE OperatorConfirms \/ UNCHANGED vars
  BY <1>6, <1>9 DEF OperatorConfirms, vars
<1>10. QED
  BY <1>2, <1>3, <1>4, <1>5, <1>7, <1>8, <1>9
  DEF Next, Continue, OperatorCancels, ExpireUnpaid

LEMMA OpeningsCorrect == Spec => [](OpeningsFresh /\ ReportedExist)
<1>1. Init => OpeningsFresh /\ ReportedExist
  BY DEF Init, OpeningsFresh, ReportedExist, NoCall
<1>2. TypeOK /\ RealInv /\ OpeningsFresh /\ ReportedExist /\ [Next]_vars
        => OpeningsFresh' /\ ReportedExist'
  BY OpeningStep DEF RealInv
<1>3. QED BY <1>1, <1>2, RealCorrect, TypeCorrect, PTL DEF Spec

\* What a settling call has decided is still justified when it writes, and no
\* two calls are about to write the opposite.
Deciding(t) == call[t].pc \in {"seen", "written"}

DecisionStands ==
  \A t \in Threads : Deciding(t) =>
    /\ attempt[call[t].event.attempt] = "SUCCEEDED" => call[t].event.status = "SUCCEEDED"
    /\ \A u \in Threads :
         Deciding(u) /\ call[u].event.attempt = call[t].event.attempt
           => call[u].event.status = call[t].event.status

LEMMA DecisionStep ==
  ASSUME TypeOK, ~crossed', ~crossed => DecisionStands, [Next]_vars
  PROVE  DecisionStands'
<1> USE DEF orderVars, moneyVars, hookVars, jobVars, historyVars, Return
<1>0. ~crossed
  BY DEF Next, vars, Continue, GatewayReports, BeginAttempt, ReceiveWebhook, ReceiveCallback,
         RecordManualPayment, RunAfterPayment, OpenAttempt, SettleRead, SettleWrite,
         SettleCommit, ConfirmAfterPayment, ConfirmByJob, Abort, OperatorConfirms,
         OperatorCancels, ExpireUnpaid, ApplyCancellation
\* No call decides that had not, and no attempt succeeds.
<1>1. ASSUME \A t \in Threads : Deciding(t)' => Deciding(t) /\ call'[t].event = call[t].event,
             \A a \in Attempts : attempt'[a] = "SUCCEEDED" => attempt[a] = "SUCCEEDED"
      PROVE  DecisionStands'
  <2>1. \A t \in Threads : Deciding(t) => call[t].event.attempt \in Attempts
    BY CallShape, EventShape DEF Deciding
  <2>2. QED BY <1>0, <1>1, <2>1 DEF DecisionStands
<1>2. ASSUME NEW t \in Threads, SettleRead(t)
      PROVE  DecisionStands'
  <2>1. PICK e \in Events, hook \in BOOLEAN : e = call[t].event /\ hook = call[t].webhook
    BY <1>2, CallShape DEF SettleRead
  <2>2. CASE ~Unsettled(e)
    <3>1. call' = [call EXCEPT ![t] = NoCall] /\ attempt' = attempt
      BY <1>2, <2>1, <2>2 DEF SettleRead
    <3>2. QED BY <1>1, <3>1 DEF Deciding, NoCall, TypeOK
  <2>3. CASE Unsettled(e)
    <3>1. /\ call' = [call EXCEPT ![t] = Settling("seen", e, hook)] /\ attempt' = attempt
          /\ ~Crosses(t)
      BY <1>2, <2>1, <2>3 DEF SettleRead
    <3>2. /\ call'[t] = Settling("seen", e, hook)
          /\ \A u \in Threads : u # t => call'[u] = call[u]
      BY <3>1 DEF TypeOK
    <3>3. call'[t].event = e
      BY <3>2 DEF Settling
    <3>4. attempt[e.attempt] = "SUCCEEDED" => e.status = "SUCCEEDED"
      BY <2>3 DEF Unsettled
    <3>5. \A u \in Threads \ {t} :
            Deciding(u) /\ call[u].event.attempt = e.attempt => call[u].event.status = e.status
      BY <2>1, <3>1 DEF Crosses, Deciding
    <3>6. QED BY <1>0, <3>1, <3>2, <3>3, <3>4, <3>5 DEF DecisionStands, Deciding
  <2>4. QED BY <2>2, <2>3
<1>3. ASSUME NEW t \in Threads, SettleCommit(t)
      PROVE  DecisionStands'
  <2>1. PICK e \in Events : e = call[t].event
    BY <1>3, CallShape DEF SettleCommit
  <2>2. /\ attempt' = [attempt EXCEPT ![e.attempt] = e.status]
        /\ call' = [call EXCEPT ![t] = NoCall]
        /\ Deciding(t)
    BY <1>3, <2>1 DEF SettleCommit, Target, Deciding
  <2>3. \A u \in Threads : Deciding(u)' => u # t /\ Deciding(u) /\ call'[u] = call[u]
    BY <2>2 DEF Deciding, NoCall, TypeOK
  <2>4. \A u \in Threads : Deciding(u) /\ call[u].event.attempt = e.attempt
                             => call[u].event.status = e.status
    BY <1>0, <2>1, <2>2 DEF DecisionStands
  <2>5. \A a : a # e.attempt /\ attempt'[a] = "SUCCEEDED" /\ a \in Attempts
                 => attempt[a] = "SUCCEEDED"
    BY <2>2 DEF TypeOK
  <2>6. attempt'[e.attempt] = e.status
    BY <2>2, EventShape DEF TypeOK
  <2>7. \A u \in Threads : Deciding(u) => call[u].event.attempt \in Attempts
    BY CallShape, EventShape DEF Deciding
  <2>8. QED BY <1>0, <2>3, <2>4, <2>5, <2>6, <2>7 DEF DecisionStands
<1>4. ASSUME NEW t \in Threads, OpenAttempt(t)
      PROVE  DecisionStands'
  <2>1. \A a \in Attempts : attempt'[a] = "SUCCEEDED" => attempt[a] = "SUCCEEDED"
    BY <1>4 DEF OpenAttempt, Closed, TypeOK
  <2>2. QED BY <1>1, <1>4, <2>1 DEF OpenAttempt, Deciding, NoCall, TypeOK
<1>5. ASSUME NEW to, ApplyCancellation(to)
      PROVE  DecisionStands'
  <2>1. \A a \in Attempts : attempt'[a] = "SUCCEEDED" => attempt[a] = "SUCCEEDED"
    BY <1>5 DEF ApplyCancellation, Closed
  <2>2. QED BY <1>1, <1>5, <2>1 DEF ApplyCancellation, Deciding
<1>6. ASSUME NEW t \in Threads,
             \/ \E a \in Attempts : BeginAttempt(t, a)
             \/ \E e \in Events : ReceiveWebhook(t, e) \/ ReceiveCallback(t, e)
             \/ \E amt \in 1..Total : RecordManualPayment(t, amt)
             \/ \E j \in Jobs : RunAfterPayment(t, j)
             \/ ConfirmAfterPayment(t) \/ ConfirmByJob(t) \/ Abort(t)
      PROVE  DecisionStands'
  <2>1. attempt' = attempt
    BY <1>6
    DEF BeginAttempt, ReceiveWebhook, ReceiveCallback, RecordManualPayment,
        RunAfterPayment, ConfirmAfterPayment, ConfirmByJob, Abort
  <2>2. \A u \in Threads : Deciding(u)' => Deciding(u) /\ call'[u].event = call[u].event
    BY <1>6
    DEF BeginAttempt, ReceiveWebhook, ReceiveCallback, RecordManualPayment,
        RunAfterPayment, ConfirmAfterPayment, ConfirmByJob, Abort, Deciding, TypeOK,
        NoCall, Opening, Confirming, Running, Settling
  <2>3. QED BY <1>1, <2>1, <2>2
<1>7. ASSUME NEW t \in Threads, SettleWrite(t)
      PROVE  DecisionStands'
  <2>1. attempt' = attempt
    BY <1>7 DEF SettleWrite
  <2>2. \A u \in Threads : Deciding(u)' => Deciding(u) /\ call'[u].event = call[u].event
    BY <1>7 DEF SettleWrite, Deciding, TypeOK, Written
  <2>3. QED BY <1>1, <2>1, <2>2
<1>8. ASSUME UNCHANGED <<attempt, call>>
      PROVE  DecisionStands'
  BY <1>1, <1>8 DEF Deciding
<1>9. CASE OperatorConfirms \/ UNCHANGED vars \/ \E e \in Events : GatewayReports(e)
  BY <1>8, <1>9 DEF OperatorConfirms, vars, GatewayReports
<1>10. QED
  BY <1>2, <1>3, <1>4, <1>5, <1>6, <1>7, <1>9
  DEF Next, Continue, OperatorCancels, ExpireUnpaid

LEMMA DecisionsStand == Spec => [](~crossed => DecisionStands)
<1>1. Init => DecisionStands
  BY DEF Init, DecisionStands, Deciding, NoCall
<1>2. TypeOK /\ (~crossed => DecisionStands) /\ [Next]_vars => (~crossed => DecisionStands)'
  BY DecisionStep
<1>3. QED BY <1>1, <1>2, TypeCorrect, PTL DEF Spec

\* Every step keeps the SUCCEEDED attempts.
Keeps == \A a \in Attempts : attempt[a] = "SUCCEEDED" => attempt'[a] = "SUCCEEDED"

LEMMA KeepsStep ==
  ASSUME TypeOK, OpeningsFresh, DecisionStands, [Next]_vars
  PROVE  Keeps
<1> USE DEF orderVars, moneyVars, hookVars, jobVars, historyVars, Return
<1>1. ASSUME NEW t \in Threads, SettleCommit(t)
      PROVE  Keeps
  BY <1>1, CallShape, EventShape
  DEF SettleCommit, Target, DecisionStands, Deciding, Keeps, TypeOK
<1>2. ASSUME NEW t \in Threads, OpenAttempt(t)
      PROVE  Keeps
  BY <1>2, CallShape DEF OpenAttempt, Closed, OpeningsFresh, Keeps, TypeOK
<1>3. ASSUME NEW to, ApplyCancellation(to)
      PROVE  Keeps
  BY <1>3 DEF ApplyCancellation, Closed, Keeps
<1>4. CASE attempt' = attempt
  BY <1>4 DEF Keeps
<1>5. QED
  BY <1>1, <1>2, <1>3, <1>4
  DEF Next, vars, Continue, GatewayReports, BeginAttempt, ReceiveWebhook, ReceiveCallback,
      RecordManualPayment, RunAfterPayment, SettleRead, SettleWrite,
      ConfirmAfterPayment, ConfirmByJob, Abort, OperatorConfirms,
      OperatorCancels, ExpireUnpaid

\* However many calls overlap a SUCCEEDED attempt stays SUCCEEDED, until a
\* failure of an attempt is settled while a success of it is: the conflict
\* check of settlePaymentEvent misses nothing else.
THEOREM SuccessStays == Spec => NeverRegresses
<1>1. TypeOK /\ OpeningsFresh /\ ReportedExist /\ (~crossed => DecisionStands) /\ [Next]_vars
        => [\A a \in Attempts :
              ~crossed /\ attempt[a] = "SUCCEEDED" => attempt'[a] = "SUCCEEDED"]_vars
  BY KeepsStep DEF Keeps
<1>2. QED
  BY <1>1, DecisionsStand, OpeningsCorrect, TypeCorrect, PTL DEF Spec, NeverRegresses

----------------------------------------------------------------------------
(* What is paid never shrinks while a success stays one, so what a call was *)
(* told of it (a status to write, an order to confirm) still holds when it  *)
(* acts on it, whatever other calls have committed meanwhile.               *)

LEMMA PaidGrows ==
  ASSUME NEW att, NEW own, NEW c \in Nat, NEW d \in Nat, c <= d,
         Succeeded(att) \subseteq Succeeded(own)
  PROVE  Paid(att, c) <= Paid(own, d) /\ Paid(att, c) \in Nat /\ Paid(own, d) \in Nat
<1>1. PICK R \in SUBSET Attempts, S \in SUBSET Attempts : R = Succeeded(att) /\ S = Succeeded(own)
  BY DEF Succeeded
<1>2. /\ SumOver([a \in Attempts |-> Total], R) <= SumOver([a \in Attempts |-> Total], S)
      /\ SumOver([a \in Attempts |-> Total], R) \in Nat
      /\ SumOver([a \in Attempts |-> Total], S) \in Nat
  BY <1>1, ChargesNat, ChargesSubset
<1>3. QED BY <1>1, <1>2 DEF Paid

\* One attempt is worth the order's total.
LEMMA OnePays ==
  ASSUME NEW att, NEW c \in Nat, NEW a \in Attempts, att[a] = "SUCCEEDED"
  PROVE  Paid(att, c) >= Total
<1>1. PICK S \in SUBSET Attempts : S = Succeeded(att)
  BY DEF Succeeded
<1>2. PICK f : f = [b \in Attempts |-> Total]
  OBVIOUS
<1>3. IsFiniteSet(S) /\ (\A b \in S : f[b] \in Nat) /\ a \in S /\ f[a] = Total
  BY <1>1, <1>2, AttemptsAssumption, FS_Subset, TotalAssumption DEF Succeeded
<1>4. Total <= SumOver(f, S)
  BY <1>3, SumOverAtLeast
<1>5. SumOver(f, S) \in Nat
  BY <1>2, ChargesNat
<1>6. QED BY <1>1, <1>2, <1>4, <1>5, TotalAssumption DEF Paid

LEMMA DerivedPaid ==
  ASSUME NEW paid, NEW ord, DerivePaymentStatus(paid, ord) = "PAID"
  PROVE  paid >= Total
BY DEF DerivePaymentStatus, Dead

\* What a call goes by.
PaidCall(t) ==
  /\ call[t].pc = "written" /\ call[t].paymentStatus = "PAID" =>
       Paid([attempt EXCEPT ![call[t].event.attempt] = call[t].event.status], cash) >= Total
  /\ call[t].pc = "confirm" => Paid(attempt, cash) >= Total
  /\ call[t].pc = "job" => attempt[call[t].job.attempt] = "SUCCEEDED"

PaidInv ==
  /\ paymentStatus = "PAID" => Paid(attempt, cash) >= Total
  /\ orderStatus = "CONFIRMED" /\ "CONFIRMED" \notin OperatorTargets
       => Paid(attempt, cash) >= Total
  /\ \A t \in Threads : PaidCall(t)

LEMMA CashGrows ==
  ASSUME TypeOK, TypeOK', [Next]_vars
  PROVE  cash \in Nat /\ cash' \in Nat /\ cash <= cash'
<1>1. cash \in Nat /\ cash' \in Nat
  BY DEF TypeOK
<1>2. ASSUME NEW t \in Threads, NEW amt \in 1..Total, RecordManualPayment(t, amt)
      PROVE  cash <= cash'
  BY <1>1, <1>2, TotalAssumption DEF RecordManualPayment
<1>3. CASE cash' = cash
  BY <1>1, <1>3
<1>4. QED
  BY <1>1, <1>2, <1>3
  DEF Next, vars, moneyVars, Continue, GatewayReports, BeginAttempt, OpenAttempt,
      ReceiveWebhook, ReceiveCallback, RunAfterPayment, SettleRead, SettleWrite,
      SettleCommit, ConfirmAfterPayment, ConfirmByJob, Abort, OperatorConfirms,
      OperatorCancels, ExpireUnpaid, ApplyCancellation

LEMMA PaidKept ==
  ASSUME TypeOK, TypeOK', Keeps, [Next]_vars
  PROVE  /\ Paid(attempt, cash) <= Paid(attempt', cash')
         /\ Paid(attempt, cash) \in Nat /\ Paid(attempt', cash') \in Nat
<1>1. Succeeded(attempt) \subseteq Succeeded(attempt')
  BY DEF Succeeded, Keeps
<1>2. QED BY <1>1, CashGrows, PaidGrows

\* What a call goes by outlasts the steps of the others.
LEMMA PaidCallKept ==
  ASSUME TypeOK, TypeOK', Keeps, [Next]_vars,
         NEW t \in Threads, PaidCall(t), call'[t] = call[t]
  PROVE  PaidCall(t)'
<1>0. /\ Paid(attempt, cash) <= Paid(attempt', cash')
      /\ Paid(attempt, cash) \in Nat /\ Paid(attempt', cash') \in Nat
      /\ Total \in Nat
  BY PaidKept, TotalAssumption
<1>1. ASSUME call[t].pc = "written", call[t].paymentStatus = "PAID"
      PROVE  Paid([attempt' EXCEPT ![call'[t].event.attempt] = call'[t].event.status], cash')
               >= Total
  <2>1. PICK own, new :
          /\ own = [attempt EXCEPT ![call[t].event.attempt] = call[t].event.status]
          /\ new = [attempt' EXCEPT ![call[t].event.attempt] = call[t].event.status]
    OBVIOUS
  <2>2. Paid(own, cash) >= Total
    BY <1>1, <2>1 DEF PaidCall
  <2>3. Succeeded(own) \subseteq Succeeded(new)
    BY <2>1 DEF Succeeded, Keeps, TypeOK
  <2>4. /\ Paid(own, cash) <= Paid(new, cash')
        /\ Paid(own, cash) \in Nat /\ Paid(new, cash') \in Nat
    BY <2>3, CashGrows, PaidGrows
  <2>5. Paid(new, cash') >= Total
    BY <1>0, <2>2, <2>4
  <2>6. new = [attempt' EXCEPT ![call'[t].event.attempt] = call'[t].event.status]
    BY <2>1
  <2>7. QED BY <2>5, <2>6
<1>2. call[t].pc = "confirm" => Paid(attempt', cash') >= Total
  BY <1>0 DEF PaidCall
<1>3. call[t].pc = "job" => attempt'[call[t].job.attempt] = "SUCCEEDED"
  BY CallShape DEF PaidCall, Keeps, Jobs
<1>4. QED BY <1>1, <1>2, <1>3 DEF PaidCall

\* The order's columns and the calls, step by step.
LEMMA PaidStep ==
  ASSUME TypeOK, TypeOK', PaidInv, Keeps, [Next]_vars
  PROVE  PaidInv'
<1> USE DEF orderVars, moneyVars, hookVars, jobVars, historyVars, Return
<1>0. /\ Paid(attempt, cash) <= Paid(attempt', cash')
      /\ Paid(attempt, cash) \in Nat /\ Paid(attempt', cash') \in Nat
      /\ Total \in Nat /\ cash \in Nat
  BY PaidKept, TotalAssumption DEF TypeOK
<1>1. Paid(attempt, cash) >= Total => Paid(attempt', cash') >= Total
  BY <1>0
\* The columns stand where nobody writes them, and the other calls stand.
<1>2. ASSUME paymentStatus' = "PAID" => paymentStatus = "PAID" \/ Paid(attempt', cash') >= Total,
             orderStatus' = "CONFIRMED" => \/ orderStatus = "CONFIRMED"
                                           \/ "CONFIRMED" \in OperatorTargets
                                           \/ Paid(attempt', cash') >= Total,
             \A t \in Threads : call'[t] = call[t] \/ PaidCall(t)'
      PROVE  PaidInv'
  <2>1. \A t \in Threads : PaidCall(t)'
    BY <1>2, PaidCallKept DEF PaidInv
  <2>2. QED BY <1>1, <1>2, <2>1 DEF PaidInv
<1>3. ASSUME UNCHANGED orderVars,
             \A t \in Threads :
               call'[t] = call[t] \/ call'[t].pc \notin {"written", "confirm", "job"}
      PROVE  PaidInv'
  BY <1>2, <1>3 DEF PaidCall
<1>6. ASSUME NEW t \in Threads,
             \/ \E a \in Attempts : BeginAttempt(t, a)
             \/ \E e \in Events : ReceiveWebhook(t, e) \/ ReceiveCallback(t, e)
             \/ OpenAttempt(t) \/ SettleRead(t) \/ Abort(t)
      PROVE  PaidInv'
  BY <1>3, <1>6 DEF BeginAttempt, ReceiveWebhook, ReceiveCallback, OpenAttempt, SettleRead,
       Abort, TypeOK, Opening, Settling, NoCall
<1>7. ASSUME NEW t \in Threads, SettleWrite(t)
      PROVE  PaidInv'
  <2>1. PICK e \in Events, hook \in BOOLEAN : e = call[t].event /\ hook = call[t].webhook
    BY <1>7, CallShape DEF SettleWrite
  <2>2. PICK own : own = [attempt EXCEPT ![e.attempt] = e.status]
    OBVIOUS
  <2>3. PICK ps : ps = DerivePaymentStatus(Paid(own, cash), orderStatus)
    OBVIOUS
  <2>4. /\ call' = [call EXCEPT ![t] = Written(e, hook, ps)]
        /\ UNCHANGED <<orderStatus, paymentStatus, attempt, cash>>
    BY <1>7, <2>1, <2>2, <2>3 DEF SettleWrite
  <2>5. /\ call'[t] = Written(e, hook, ps)
        /\ \A u \in Threads : u # t => call'[u] = call[u]
    BY <2>4 DEF TypeOK
  <2>6. ps = "PAID" => Paid(own, cash) >= Total
    BY <2>3, DerivedPaid
  <2>7. call'[t].pc = "written" /\ call'[t].event = e /\ call'[t].paymentStatus = ps
    BY <2>5 DEF Written
  <2>8. own = [attempt' EXCEPT ![call'[t].event.attempt] = call'[t].event.status]
    BY <2>2, <2>4, <2>7
  <2>9. ps = "PAID" => Paid(own, cash') >= Total
    BY <2>4, <2>6
  <2>10. PaidCall(t)'
    BY <2>7, <2>8, <2>9 DEF PaidCall
  <2>11. QED BY <1>2, <2>4, <2>5, <2>10
<1>8. ASSUME NEW t \in Threads, SettleCommit(t)
      PROVE  PaidInv'
  <2>1. /\ call[t].pc = "written" /\ paymentStatus' = call[t].paymentStatus
        /\ attempt' = [attempt EXCEPT ![call[t].event.attempt] = call[t].event.status]
        /\ call' = [call EXCEPT ![t] = NoCall]
        /\ UNCHANGED <<orderStatus, cash>>
    BY <1>8 DEF SettleCommit, Target
  <2>2. paymentStatus' = "PAID" => Paid(attempt', cash') >= Total
    BY <2>1 DEF PaidInv, PaidCall
  <2>3. call'[t] = NoCall /\ \A u \in Threads : u # t => call'[u] = call[u]
    BY <2>1 DEF TypeOK
  <2>4. PaidCall(t)'
    BY <2>3 DEF PaidCall, NoCall
  <2>5. QED BY <1>2, <2>1, <2>2, <2>3, <2>4
<1>10. ASSUME NEW t \in Threads, NEW amt \in 1..Total, RecordManualPayment(t, amt)
       PROVE  PaidInv'
  <2>1. /\ UNCHANGED <<orderStatus, attempt>>
        /\ paymentStatus' = DerivePaymentStatus(Paid(attempt, cash'), orderStatus)
        /\ call' = [call EXCEPT ![t] = IF ShouldConfirm(paymentStatus') THEN Confirming ELSE NoCall]
    BY <1>10 DEF RecordManualPayment
  <2>2. paymentStatus' = "PAID" => Paid(attempt', cash') >= Total
    BY <2>1, DerivedPaid
  <2>3. /\ call'[t] \in {Confirming, NoCall}
        /\ call'[t] = Confirming => paymentStatus' = "PAID"
        /\ \A u \in Threads : u # t => call'[u] = call[u]
    BY <2>1 DEF TypeOK, ShouldConfirm, Confirming, NoCall
  <2>4. PaidCall(t)'
    BY <2>2, <2>3 DEF PaidCall, Confirming, NoCall
  <2>5. QED BY <1>2, <2>1, <2>2, <2>3, <2>4
<1>11. ASSUME NEW t \in Threads, NEW j \in Jobs, RunAfterPayment(t, j)
       PROVE  PaidInv'
  <2>1. UNCHANGED <<orderVars, attempt, cash>>
    BY <1>11 DEF RunAfterPayment
  <2>2. CASE JobConfirms(j)
    <3>1. /\ call'[t] = Running(j) /\ attempt[j.attempt] = "SUCCEEDED"
          /\ \A u \in Threads : u # t => call'[u] = call[u]
      BY <1>11, <2>2 DEF RunAfterPayment, JobConfirms, TypeOK
    <3>2. PaidCall(t)'
      BY <2>1, <3>1 DEF PaidCall, Running
    <3>3. QED BY <1>2, <2>1, <3>1, <3>2
  <2>3. CASE ~JobConfirms(j)
    BY <1>3, <1>11, <2>1, <2>3 DEF RunAfterPayment
  <2>4. QED BY <2>2, <2>3
<1>12. ASSUME NEW t \in Threads, ConfirmAfterPayment(t) \/ ConfirmByJob(t)
       PROVE  PaidInv'
  <2>1. /\ UNCHANGED <<paymentStatus, attempt, cash>>
        /\ call'[t] = NoCall /\ \A u \in Threads : u # t => call'[u] = call[u]
    BY <1>12 DEF ConfirmAfterPayment, ConfirmByJob, TypeOK
  <2>2. Paid(attempt, cash) >= Total
    <3>1. CASE ConfirmAfterPayment(t)
      BY <3>1 DEF ConfirmAfterPayment, PaidInv, PaidCall
    <3>2. CASE ConfirmByJob(t)
      <4>1. call[t].job.attempt \in Attempts /\ attempt[call[t].job.attempt] = "SUCCEEDED"
        BY <3>2, CallShape DEF ConfirmByJob, PaidInv, PaidCall, Jobs
      <4>2. QED BY <1>0, <4>1, OnePays
    <3>3. QED BY <1>12, <3>1, <3>2
  <2>3. PaidCall(t)'
    BY <2>1 DEF PaidCall, NoCall
  <2>4. QED BY <1>1, <1>2, <2>1, <2>2, <2>3
<1>13. ASSUME NEW to \in Dead, ApplyCancellation(to)
       PROVE  PaidInv'
  <2>1. /\ orderStatus' = to /\ call' = call /\ to # "CONFIRMED"
        /\ paymentStatus' = DerivePaymentStatus(Paid(attempt, cash), to)
    BY <1>13 DEF ApplyCancellation, Dead
  <2>2. paymentStatus' = "PAID" => Paid(attempt', cash') >= Total
    BY <1>1, <2>1, DerivedPaid
  <2>3. QED BY <1>2, <2>1, <2>2
<1>14. CASE OperatorConfirms
  <2>1. "CONFIRMED" \in OperatorTargets /\ UNCHANGED <<paymentStatus, call>>
    BY <1>14 DEF OperatorConfirms
  <2>2. QED BY <1>2, <2>1
<1>16. CASE UNCHANGED vars \/ \E e \in Events : GatewayReports(e)
  BY <1>3, <1>16 DEF vars, GatewayReports
<1>17. QED
  BY <1>6, <1>7, <1>8, <1>10, <1>11, <1>12, <1>13, <1>14, <1>16
  DEF Next, Continue, OperatorCancels, ExpireUnpaid, Dead

\* Nothing takes a crossing back.
LEMMA CrossedStays ==
  ASSUME [Next]_vars, crossed
  PROVE  crossed'
BY DEF Next, vars, historyVars, Continue, GatewayReports, BeginAttempt, ReceiveWebhook,
       ReceiveCallback, RecordManualPayment, RunAfterPayment, OpenAttempt, SettleRead,
       SettleWrite, SettleCommit, ConfirmAfterPayment, ConfirmByJob, Abort,
       OperatorConfirms, OperatorCancels, ExpireUnpaid, ApplyCancellation

LEMMA PaidAlways == Spec => [](~crossed => PaidInv)
<1>1. Init => PaidInv
  BY DEF Init, PaidInv, PaidCall, NoCall
<1>2. /\ TypeOK /\ TypeOK' /\ OpeningsFresh /\ ReportedExist
      /\ (~crossed => DecisionStands) /\ (~crossed => PaidInv) /\ [Next]_vars
      => (~crossed => PaidInv)'
  BY CrossedStays, KeepsStep, PaidStep
<1>3. QED BY <1>1, <1>2, DecisionsStand, OpeningsCorrect, TypeCorrect, PTL DEF Spec

\* Whatever calls overlap, an order that is shown as PAID is paid in full: the
\* status settle writes, computed before other writers committed, is still true
\* when it commits (settlePaymentEvent).  The one overlap that undoes it is a
\* failure settled while a success of the same attempt is.
THEOREM PaidIsPaid == Spec => []PaidMeansPaid
<1>1. (~crossed => PaidInv) => PaidMeansPaid
  BY DEF PaidInv, PaidMeansPaid
<1>2. QED BY <1>1, PaidAlways, PTL

\* With the same exception nothing but an operator confirms an order that is not
\* paid in full, however late a job or the caller of a manual payment does it
\* (afterPaymentJob, recordManualPayment).
THEOREM ConfirmedIsAlwaysPaid == Spec => []ConfirmedIsPaid
<1>1. (~crossed => PaidInv) => ConfirmedIsPaid
  BY DEF PaidInv, ConfirmedIsPaid
<1>2. QED BY <1>1, PaidAlways, PTL
=============================================================================
