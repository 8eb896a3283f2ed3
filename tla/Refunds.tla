------------------------------ MODULE Refunds ------------------------------
(***************************************************************************)
(* The refunds of one order (src/src/features/refunds/service.ts).          *)
(*                                                                         *)
(* Every entry point runs in a READ COMMITTED transaction.  createRefund    *)
(* takes the order's row lock first and reads afterwards, so it is a single *)
(* action.  The three transition functions read the refund row FIRST and    *)
(* take the order's lock second: they are two actions, LoadRefund and the   *)
(* locked rest, and what the rest knows of the refund's status is what was  *)
(* loaded.  Asking the payment gateway to move the money happens between    *)
(* two transactions and is an action of its own.                            *)
(*                                                                         *)
(* A call in flight is a slot of "Operators": admin requests run            *)
(* concurrently, one slot is one request thread.  Amounts are whole units   *)
(* (the code's paise).  The order's captured money is the constant Paid; its *)
(* refunds are order-level ones, and its seller lines are one line of total  *)
(* LineTotal that earns the seller Sale when it is delivered.                *)
(***************************************************************************)
EXTENDS Naturals, FiniteSets, Sums

CONSTANTS
  RefundIds,    \* the refund rows the order may ever get
  Operators,    \* request threads: at most this many calls overlap
  Paid,         \* sum of the order's SUCCEEDED charges
  LineTotal,    \* total of the order's seller line, 0 if no line has a seller
  Sale,         \* what the SALE row of its delivery will credit
  MaxRetries    \* bound: FAILED -> PENDING retries asked for per refund

ASSUME RowsAssumption == IsFiniteSet(RefundIds)
ASSUME PaidAssumption == Paid \in Nat \ {0}
ASSUME LineAssumption == LineTotal \in Nat /\ Sale \in Nat
ASSUME RetriesAssumption == MaxRetries \in Nat

VARIABLES
  status,         \* Refund.status, "ABSENT" before the row exists
  amount,         \* Refund.amountPaise
  online,         \* method ORIGINAL on a gateway payment
  earned,         \* the line's SALE row is in the seller ledger
  reversed,       \* sum of the refund's (sale) REFUND_REVERSAL rows, sign dropped
  echoes,         \* REFUND echo rows in OrderPayment
  orderRefunded,  \* Order.refundedPaise
  paymentStatus,  \* Order.paymentStatus
  moved,          \* times the gateway moved the refund's money (external)
  call,           \* the calls in flight
  retries,        \* history: FAILED -> PENDING writes per refund
  revived,        \* history: refunds that started to count again
  clashed,        \* history: refunds that two calls were about at once
  early           \* history: refunds that were COMPLETED before the delivery

rowVars == <<status, amount, online>>
traceVars == <<earned, reversed, echoes, early>>
orderVars == <<orderRefunded, paymentStatus>>
historyVars == <<retries, revived, clashed>>
vars == <<rowVars, traceVars, orderVars, moved, call, historyVars>>

----------------------------------------------------------------------------
RefundStatus ==
  {"PENDING", "APPROVED", "PROCESSING", "COMPLETED", "FAILED", "CANCELLED"}

RowStatus == RefundStatus \cup {"ABSENT"}

\* Mutant: a retry returns straight to PROCESSING's doorstep, unapproved.
RefundTransitions_RetryApproved ==
  { <<"PENDING", "APPROVED">>, <<"PENDING", "CANCELLED">>,
    <<"APPROVED", "PROCESSING">>, <<"APPROVED", "CANCELLED">>,
    <<"PROCESSING", "COMPLETED">>, <<"PROCESSING", "FAILED">>,
    <<"FAILED", "APPROVED">> }

\* REFUND_TRANSITIONS
RefundTransitions ==
  { <<"PENDING", "APPROVED">>, <<"PENDING", "CANCELLED">>,
    <<"APPROVED", "PROCESSING">>, <<"APPROVED", "CANCELLED">>,
    <<"PROCESSING", "COMPLETED">>, <<"PROCESSING", "FAILED">>,
    <<"FAILED", "PENDING">> }

\* COUNTED_REFUND_STATUSES
Counted == {"PENDING", "APPROVED", "PROCESSING", "COMPLETED"}

CountedRefunds(st) == { r \in RefundIds : st[r] \in Counted }

\* Mutant: only the refunds that are through count against the cap.
RefundableRemaining_SettledOnly ==
  LET settled == SumOver(amount, { r \in RefundIds : status[r] = "COMPLETED" })
  IN  IF settled >= Paid THEN 0 ELSE Paid - settled

\* refundableRemaining, the cap of an order-level refund (refundCapFor).
RefundableRemaining ==
  LET counted == SumOver(amount, CountedRefunds(status))
  IN  IF counted >= Paid THEN 0 ELSE Paid - counted

\* Mutant: a partial refund is read as an unpaid order.
DerivePaymentStatus_NoPartial(refunded) ==
  CASE refunded >= Paid -> "REFUNDED"
    [] refunded = 0 -> "PAID"
    [] OTHER -> "PENDING"

\* derivePaymentStatus for an order whose charges add up to its total.
DerivePaymentStatus(refunded) ==
  CASE refunded >= Paid -> "REFUNDED"
    [] refunded > 0 /\ refunded < Paid -> "PARTIALLY_REFUNDED"
    [] OTHER -> "PAID"

\* Mutant: the order counts a refund before it is completed.
ApplyRefundToOrder_Counted(st, amt) ==
  LET refunded == SumOver(amt, CountedRefunds(st))
  IN  /\ orderRefunded' = refunded
      /\ paymentStatus' = DerivePaymentStatus(refunded)

\* applyRefundToOrder: the order's money columns are recomputed from the rows.
ApplyRefundToOrder(st, amt) ==
  LET refunded == SumOver(amt, { r \in RefundIds : st[r] = "COMPLETED" })
  IN  /\ orderRefunded' = refunded
      /\ paymentStatus' = DerivePaymentStatus(refunded)

----------------------------------------------------------------------------
(* Calls.  "begin": a nested call that has not read the refund yet;         *)
(* "loaded": the refund is read, the lock is not held yet; "gateway": the   *)
(* PROCESSING transaction has committed, the provider has not answered.     *)
NoCall == [pc |-> "idle"]

Begun(r, to) == [pc |-> "begin", refund |-> r, to |-> to]
Loaded(r, to, seen) == [pc |-> "loaded", refund |-> r, to |-> to, seen |-> seen]
AtGateway(r) == [pc |-> "gateway", refund |-> r]

Targets == RefundStatus

About(o, r) == call[o].pc # "idle" /\ call[o].refund = r

Calls ==
  {NoCall}
  \cup [pc : {"begin"}, refund : RefundIds, to : Targets]
  \cup [pc : {"loaded"}, refund : RefundIds, to : Targets, seen : RowStatus]
  \cup [pc : {"gateway"}, refund : RefundIds]

Init ==
  /\ status = [r \in RefundIds |-> "ABSENT"]
  /\ amount = [r \in RefundIds |-> 0]
  /\ online = [r \in RefundIds |-> FALSE]
  /\ earned = FALSE
  /\ reversed = [r \in RefundIds |-> 0]
  /\ echoes = [r \in RefundIds |-> 0]
  /\ orderRefunded = 0
  /\ paymentStatus = "PAID"
  /\ moved = [r \in RefundIds |-> 0]
  /\ call = [o \in Operators |-> NoCall]
  /\ retries = [r \in RefundIds |-> 0]
  /\ revived = {}
  /\ clashed = {}
  /\ early = {}

\* createRefund and createRefundInTx without an RMA: lock, cap check, insert.
CreateRefund(r, amt, isOnline) ==
  /\ status[r] = "ABSENT"
  /\ amt > 0
  /\ amt <= RefundableRemaining
  /\ status' = [status EXCEPT ![r] = "PENDING"]
  /\ amount' = [amount EXCEPT ![r] = amt]
  /\ online' = [online EXCEPT ![r] = isOnline]
  /\ ApplyRefundToOrder(status', amount')
  /\ UNCHANGED <<traceVars, moved, call, historyVars>>

\* loadRefund, the read before the lock: of an operator's request ...
RequestTransition(o, r, to) ==
  /\ call[o] = NoCall
  /\ status[r] # "ABSENT"
  /\ to = "PENDING" => retries[r] < MaxRetries
  /\ call' = [call EXCEPT ![o] = Loaded(r, to, status[r])]
  /\ clashed' = IF \E p \in Operators : About(p, r) THEN clashed \cup {r} ELSE clashed
  /\ UNCHANGED <<rowVars, traceVars, orderVars, moved, retries, revived>>

\* ... or of the call processRefund nests once the gateway has answered.
LoadRefund(o) ==
  /\ call[o].pc = "begin"
  /\ call' = [call EXCEPT ![o] =
                Loaded(call[o].refund, call[o].to, status[call[o].refund])]
  /\ UNCHANGED <<rowVars, traceVars, orderVars, moved, historyVars>>

\* Mutant: only a repeated status is refused.
Permitted_AnyOther(o) == call[o].seen # call[o].to

\* assertTransition, on the status that was loaded.
Permitted(o) == <<call[o].seen, call[o].to>> \in RefundTransitions

RejectTransition(o) ==
  /\ call[o].pc = "loaded"
  /\ ~Permitted(o)
  /\ call' = [call EXCEPT ![o] = NoCall]
  /\ UNCHANGED <<rowVars, traceVars, orderVars, moved, historyVars>>

\* The write is by id only: it does not look at the row's status again.
WriteStatus(r, to) ==
  /\ status' = [status EXCEPT ![r] = to]
  /\ revived' = IF to \in Counted /\ status[r] \notin Counted
                THEN revived \cup {r} ELSE revived

\* APPROVED, FAILED, CANCELLED and the FAILED -> PENDING retry.
SimpleTransition(o) ==
  /\ call[o].pc = "loaded"
  /\ call[o].to \notin {"PROCESSING", "COMPLETED"}
  /\ Permitted(o)
  /\ WriteStatus(call[o].refund, call[o].to)
  /\ ApplyRefundToOrder(status', amount)
  /\ retries' = IF call[o].to = "PENDING"
                THEN [retries EXCEPT ![call[o].refund] = @ + 1] ELSE retries
  /\ call' = [call EXCEPT ![o] = NoCall]
  /\ UNCHANGED <<amount, online, traceVars, moved, clashed>>

\* processRefund, the transaction before the network call.
ProcessRefund(o) ==
  /\ call[o].pc = "loaded"
  /\ call[o].to = "PROCESSING"
  /\ Permitted(o)
  /\ WriteStatus(call[o].refund, "PROCESSING")
  /\ call' = [call EXCEPT ![o] = IF online[call[o].refund]
                                 THEN AtGateway(call[o].refund) ELSE NoCall]
  /\ UNCHANGED <<amount, online, traceVars, orderVars, moved, retries, clashed>>

\* provider.refund and how processRefund goes on from its answer.
GatewayMovesMoney(o, next) ==
  /\ moved' = [moved EXCEPT ![call[o].refund] = @ + 1]
  /\ call' = [call EXCEPT ![o] = next]

GatewayRefund(o) ==
  /\ call[o].pc = "gateway"
  /\ \/ GatewayMovesMoney(o, Begun(call[o].refund, "COMPLETED"))
     \/ GatewayMovesMoney(o, NoCall)      \* asynchronous settlement
     \/ GatewayMovesMoney(o, Begun(call[o].refund, "FAILED")) \* answer lost
     \/ /\ call' = [call EXCEPT ![o] = Begun(call[o].refund, "FAILED")]
        /\ UNCHANGED moved
  /\ UNCHANGED <<rowVars, traceVars, orderVars, historyVars>>

\* recordEarningsForDeliveredItems, under the order's lock: one SALE row.
RecordEarnings ==
  /\ ~earned
  /\ earned' = TRUE
  /\ early' = { r \in RefundIds : status[r] = "COMPLETED" }
  /\ UNCHANGED <<rowVars, reversed, echoes, orderVars, moved, call, historyVars>>

\* proRata: k of n shares of the total; the last share takes what is left.
ProRata(total, k, n, done) ==
  IF n = 0 \/ k = 0 THEN 0
  ELSE IF k >= n THEN total - done
  ELSE (2 * total * k + n) \div (2 * n)

Remaining == Sale - SumOver(reversed, RefundIds)

\* The refund's fraction of the sale, as long as that much is left of it.
SaleShare(r) ==
  LET share == ProRata(Sale, amount[r], LineTotal, Sale - Remaining)
  IN  IF share <= Remaining THEN share ELSE Remaining

\* Mutant: the description's marker is not looked for.
ReverseEarnings_Unmarked(r) ==
  reversed' = IF earned /\ Remaining > 0
              THEN [reversed EXCEPT ![r] = @ + SaleShare(r)] ELSE reversed

\* reverseEarningsForRefund: nothing to do without a SALE row, when nothing is
\* left of it, and when rows with this refund's marker are there already.
ReverseEarnings(r) ==
  reversed' = IF earned /\ Remaining > 0 /\ reversed[r] = 0
              THEN [reversed EXCEPT ![r] = SaleShare(r)] ELSE reversed

CompleteRefund(o) ==
  /\ call[o].pc = "loaded"
  /\ call[o].to = "COMPLETED"
  /\ Permitted(o)
  /\ WriteStatus(call[o].refund, "COMPLETED")
  /\ ReverseEarnings(call[o].refund)
  /\ echoes' = IF echoes[call[o].refund] = 0
               THEN [echoes EXCEPT ![call[o].refund] = 1] ELSE echoes
  /\ ApplyRefundToOrder(status', amount)
  /\ call' = [call EXCEPT ![o] = NoCall]
  /\ UNCHANGED <<amount, online, earned, early, moved, retries, clashed>>

\* The request's process dies; a transaction that had not committed is gone.
Crash(o) ==
  /\ call[o] # NoCall
  /\ call' = [call EXCEPT ![o] = NoCall]
  /\ UNCHANGED <<rowVars, traceVars, orderVars, moved, historyVars>>

Next ==
  \/ \E r \in RefundIds, amt \in 1..Paid, isOnline \in BOOLEAN :
       CreateRefund(r, amt, isOnline)
  \/ RecordEarnings
  \/ \E o \in Operators, r \in RefundIds, to \in Targets :
       RequestTransition(o, r, to)
  \/ \E o \in Operators :
       \/ LoadRefund(o) \/ RejectTransition(o) \/ SimpleTransition(o)
       \/ ProcessRefund(o) \/ GatewayRefund(o) \/ CompleteRefund(o)
       \/ Crash(o)

Spec == Init /\ [][Next]_vars

----------------------------------------------------------------------------
(* Properties.                                                              *)

\* Every variable has its type; the inductive proofs start from it.
TypeOK ==
  /\ status \in [RefundIds -> RowStatus]
  /\ amount \in [RefundIds -> 0..Paid]
  /\ online \in [RefundIds -> BOOLEAN]
  /\ earned \in BOOLEAN
  /\ reversed \in [RefundIds -> Nat]
  /\ echoes \in [RefundIds -> Nat]
  /\ orderRefunded \in Nat
  /\ paymentStatus \in {"PAID", "PARTIALLY_REFUNDED", "REFUNDED"}
  /\ moved \in [RefundIds -> Nat]
  /\ call \in [Operators -> Calls]
  /\ retries \in [RefundIds -> Nat]
  /\ revived \subseteq RefundIds /\ clashed \subseteq RefundIds
  /\ early \subseteq RefundIds

\* However many calls complete a refund, and in whatever order they overlap
\* with failures, retries and the delivery, the seller gives back the refund's
\* share of the sale once: never more than what is left of the sale, nothing
\* before there is a sale, and for a refund that was completed after the
\* delivery all of its share, or less if that leaves nothing of the sale (the
\* marker of reverseEarningsForRefund).  A COMPLETED refund has one echo row.
ShareGivenBack(r) ==
  LET share == ProRata(Sale, amount[r], LineTotal, 0)
  IN  \/ reversed[r] = share
      \/ reversed[r] < share /\ SumOver(reversed, RefundIds) = Sale

SettledOnce ==
  /\ SumOver(reversed, RefundIds) <= Sale
  /\ \A r \in RefundIds :
       /\ reversed[r] > 0 => earned /\ ShareGivenBack(r)
       /\ status[r] = "COMPLETED" /\ earned /\ r \notin early => ShareGivenBack(r)
       /\ echoes[r] <= 1 /\ (status[r] = "COMPLETED" => echoes[r] = 1)

\* The order's money columns always agree with its refund rows: refundedPaise
\* is the sum of the COMPLETED ones and paymentStatus follows from it
\* (applyRefundToOrder after each transition), as long as no two calls were
\* about one refund: processRefund does not recompute, so the PROCESSING that a
\* late call writes over COMPLETED breaks it.
OrderMatchesRows ==
  LET refunded == SumOver(amount, { r \in RefundIds : status[r] = "COMPLETED" })
  IN  clashed = {} =>
        /\ orderRefunded = refunded
        /\ paymentStatus = DerivePaymentStatus(refunded)

\* The refunds that counted against the cap all along (refundCapFor, "so two
\* operators cannot each refund the full amount") add up to at most what was
\* paid, whatever else is in flight: creation itself cannot over-refund.  Only
\* one that came back from FAILED or CANCELLED can, for a retry skips the cap.
OnlyRevivalExceedsPaid ==
  SumOver(amount, CountedRefunds(status) \ revived) <= Paid

\* A refund's status only ever moves along REFUND_TRANSITIONS, unless two calls
\* were about it at once: each checks the status it read before the lock.
LegalStep(r) ==
  \/ status'[r] = status[r]
  \/ status[r] = "ABSENT" /\ status'[r] = "PENDING"
  \/ <<status[r], status'[r]>> \in RefundTransitions

LegalTransitions == [][\A r \in RefundIds : r \in clashed \/ LegalStep(r)]_vars

\* The gateway moves the money of a refund at most once for each time an
\* operator decided to try (creation, and each retry of a failed refund),
\* unless two calls were about it at once.
GatewayPaysOncePerAttempt ==
  \A r \in RefundIds \ clashed : moved[r] <= retries[r] + 1

\* While no two calls are about a refund, what the one has loaded is still true,
\* and money that the gateway moved is accounted for by the refund's status: the
\* strengthening under which the last two properties are inductive.
LoadedIsFresh ==
  \A o \in Operators : \A r \in RefundIds \ clashed : About(o, r) =>
    /\ \A p \in Operators : About(p, r) => p = o
    /\ call[o].pc = "loaded" => call[o].seen = status[r] /\ status[r] # "ABSENT"
    /\ call[o].pc \in {"begin", "gateway"} => status[r] = "PROCESSING"

Tried(r) == status[r] \notin {"ABSENT", "PENDING", "APPROVED"}

MovesAccounted ==
  \A r \in RefundIds \ clashed :
    /\ moved[r] <= retries[r] + (IF Tried(r) THEN 1 ELSE 0)
    /\ \A o \in Operators : About(o, r) /\ call[o].pc = "gateway" => moved[r] <= retries[r]

ApartInv == LoadedIsFresh /\ MovesAccounted
=============================================================================
