--------------------------- MODULE RefundsProofs ---------------------------
(***************************************************************************)
(* What the refund transitions guarantee for any number of refunds, any     *)
(* number of overlapping calls and any amount paid.                         *)
(***************************************************************************)
EXTENDS Refunds, SumsProofs

\* Columns summed over any subset of the refund rows are natural numbers.
LEMMA ColumnSum ==
  ASSUME NEW amt \in [RefundIds -> Nat], NEW S \in SUBSET RefundIds
  PROVE  SumOver(amt, S) \in Nat
<1>1. IsFiniteSet(S)
  BY RowsAssumption, FS_Subset
<1>2. QED BY <1>1, SumOverNat

LEMMA ColumnSubset ==
  ASSUME NEW amt \in [RefundIds -> Nat], NEW S \in SUBSET RefundIds,
         NEW R \in SUBSET S
  PROVE  SumOver(amt, R) <= SumOver(amt, S)
<1>1. IsFiniteSet(S)
  BY RowsAssumption, FS_Subset
<1>2. QED BY <1>1, SumOverSubset

LEMMA CallShape ==
  ASSUME TypeOK, NEW o \in Operators
  PROVE  /\ call[o].pc \in {"begin", "loaded", "gateway"} => call[o].refund \in RefundIds
         /\ call[o].pc \in {"begin", "loaded"} => call[o].to \in RefundStatus
         /\ call[o].pc = "loaded" => call[o].seen \in RowStatus
         /\ call[o] # NoCall => call[o].pc \in {"begin", "loaded", "gateway"}
  BY DEF TypeOK, Calls, NoCall, Targets

LEMMA NewCalls ==
  ASSUME NEW r \in RefundIds, NEW to \in RefundStatus
  PROVE  /\ NoCall \in Calls
         /\ Begun(r, to) \in Calls
         /\ AtGateway(r) \in Calls
         /\ \A seen \in RowStatus : Loaded(r, to, seen) \in Calls
  BY DEF Calls, NoCall, Begun, AtGateway, Loaded, Targets

LEMMA OrderColumnsType ==
  ASSUME TypeOK, NEW st, NEW amt \in [RefundIds -> Nat], ApplyRefundToOrder(st, amt)
  PROVE  /\ orderRefunded' \in Nat
         /\ paymentStatus' \in {"PAID", "PARTIALLY_REFUNDED", "REFUNDED"}
<1> DEFINE S == { r \in RefundIds : st[r] = "COMPLETED" }
<1>1. SumOver(amt, S) \in Nat
  BY ColumnSum
<1>2. DerivePaymentStatus(SumOver(amt, S)) \in {"PAID", "PARTIALLY_REFUNDED", "REFUNDED"}
  BY <1>1, PaidAssumption DEF DerivePaymentStatus
<1>3. QED BY <1>1, <1>2 DEF ApplyRefundToOrder

----------------------------------------------------------------------------
(* What a refund takes back of the seller's sale.                           *)

Given == SumOver(reversed, RefundIds)

LEMMA ProRataNat ==
  ASSUME NEW total \in Nat, NEW k \in Nat, NEW n \in Nat, NEW done \in 0..total
  PROVE  ProRata(total, k, n, done) \in Nat
<1>1. CASE n = 0 \/ k = 0 \/ k >= n
  BY <1>1 DEF ProRata
<1>2. CASE n # 0 /\ k # 0 /\ ~(k >= n)
  <2>1. PICK a, d : a = 2 * total * k + n /\ d = 2 * n
    OBVIOUS
  <2>2. PICK z : z = total * k
    OBVIOUS
  <2>3. z \in Nat
    BY <2>2
  <2>4. a = 2 * z + n
    BY <2>1, <2>2
  <2>5. a \in Nat /\ d \in Nat /\ d > 0
    BY <1>2, <2>1, <2>3, <2>4
  <2>6. a \div d \in Nat
    BY <2>5
  <2>7. QED BY <1>2, <2>1, <2>6 DEF ProRata
<1>3. QED BY <1>1, <1>2

\* What a refund takes back is its share, or else all that is left.
LEMMA ShareIs ==
  ASSUME TypeOK, NEW r \in RefundIds, Given <= Sale
  PROVE  /\ Remaining = Sale - Given /\ Given \in Nat
         /\ SaleShare(r) \in 0..Remaining
         /\ ProRata(Sale, amount[r], LineTotal, 0) \in Nat
         /\ \/ SaleShare(r) = ProRata(Sale, amount[r], LineTotal, 0)
            \/ /\ SaleShare(r) < ProRata(Sale, amount[r], LineTotal, 0)
               /\ SaleShare(r) = Remaining
<1>1. Given \in Nat
  BY RowsAssumption, SumOverNat DEF TypeOK, Given
<1>2. Sale \in Nat /\ LineTotal \in Nat /\ amount[r] \in Nat
  BY LineAssumption, PaidAssumption DEF TypeOK
<1>3. Remaining = Sale - Given
  BY DEF Remaining, Given
<1>4. PICK given : given = Given
  OBVIOUS
<1>5. given \in 0..Sale /\ Remaining = Sale - given
  BY <1>1, <1>3, <1>4
<1>6. Sale - Remaining = given
  BY <1>2, <1>5
<1>7. PICK share : share = ProRata(Sale, amount[r], LineTotal, given)
  OBVIOUS
<1>8. share \in Nat
  BY <1>2, <1>5, <1>7, ProRataNat
<1>9. SaleShare(r) = IF share <= Remaining THEN share ELSE Remaining
  BY <1>6, <1>7 DEF SaleShare
<1>10. SaleShare(r) \in 0..Remaining
  BY <1>2, <1>5, <1>8, <1>9
<1>11. PICK whole : whole = ProRata(Sale, amount[r], LineTotal, 0)
  OBVIOUS
<1>12. whole \in Nat
  <2>1. 0 \in 0..Sale
    BY <1>2
  <2>2. QED BY <1>2, <1>11, <2>1, ProRataNat
<1>13. share = whole \/ (share = Remaining /\ whole = Sale)
  BY <1>2, <1>5, <1>7, <1>11 DEF ProRata
<1>14. \/ SaleShare(r) = whole
       \/ SaleShare(r) < whole /\ SaleShare(r) = Remaining
  BY <1>2, <1>5, <1>8, <1>9, <1>12, <1>13
<1>15. QED BY <1>1, <1>3, <1>10, <1>11, <1>12, <1>14

----------------------------------------------------------------------------
\* Type correctness: whatever the interleaving, every column keeps its type.
THEOREM TypeCorrect == Spec => []TypeOK
<1>1. Init => TypeOK
  <2> SUFFICES ASSUME Init PROVE TypeOK
    OBVIOUS
  <2>1. earned \in BOOLEAN
    BY DEF Init
  <2>2. QED BY <2>1, PaidAssumption DEF Init, TypeOK, Calls, RowStatus
<1>2. TypeOK /\ [Next]_vars => TypeOK'
  <2> SUFFICES ASSUME TypeOK, [Next]_vars PROVE TypeOK'
    OBVIOUS
  <2> USE DEF historyVars, rowVars, traceVars, orderVars
  <2>0. amount \in [RefundIds -> Nat]
    BY PaidAssumption DEF TypeOK
  <2>1. ASSUME NEW r \in RefundIds, NEW amt \in 1..Paid, NEW b \in BOOLEAN,
               CreateRefund(r, amt, b)
        PROVE  TypeOK'
    <3>1. amount' \in [RefundIds -> 0..Paid] /\ amount' \in [RefundIds -> Nat]
      BY <2>1, PaidAssumption DEF CreateRefund, TypeOK
    <3>2. ApplyRefundToOrder(status', amount')
      BY <2>1 DEF CreateRefund
    <3>3. orderRefunded' \in Nat /\ paymentStatus' \in {"PAID", "PARTIALLY_REFUNDED", "REFUNDED"}
      BY <3>1, <3>2, OrderColumnsType
    <3>4. QED BY <2>1, <3>1, <3>3 DEF CreateRefund, TypeOK, RefundStatus, RowStatus
  <2>2. ASSUME NEW o \in Operators, NEW r \in RefundIds, NEW to \in Targets,
               RequestTransition(o, r, to)
        PROVE  TypeOK'
    <3>1. Loaded(r, to, status[r]) \in Calls
      BY <2>2, NewCalls DEF RequestTransition, TypeOK, Targets
    <3>2. QED BY <2>2, <3>1 DEF RequestTransition, TypeOK
  <2>3. ASSUME NEW o \in Operators, Crash(o) \/ RejectTransition(o)
        PROVE  TypeOK'
    BY <2>3 DEF Crash, RejectTransition, TypeOK, Calls
  <2>4. ASSUME NEW o \in Operators, LoadRefund(o)
        PROVE  TypeOK'
    <3>1. Loaded(call[o].refund, call[o].to, status[call[o].refund]) \in Calls
      BY <2>4, CallShape, NewCalls DEF LoadRefund, TypeOK
    <3>2. QED BY <2>4, <3>1 DEF LoadRefund, TypeOK
  <2>5. ASSUME NEW o \in Operators, SimpleTransition(o)
        PROVE  TypeOK'
    <3>1. call[o].refund \in RefundIds /\ call[o].to \in RefundStatus
      BY <2>5, CallShape DEF SimpleTransition
    <3>2. ApplyRefundToOrder(status', amount)
      BY <2>5 DEF SimpleTransition
    <3>3. orderRefunded' \in Nat /\ paymentStatus' \in {"PAID", "PARTIALLY_REFUNDED", "REFUNDED"}
      BY <2>0, <3>2, OrderColumnsType
    <3>4. QED BY <2>5, <3>1, <3>3 DEF SimpleTransition, WriteStatus, TypeOK, RowStatus, Calls
  <2>6. ASSUME NEW o \in Operators, ProcessRefund(o)
        PROVE  TypeOK'
    <3>1. call[o].refund \in RefundIds
      BY <2>6, CallShape DEF ProcessRefund
    <3>2. AtGateway(call[o].refund) \in Calls /\ NoCall \in Calls
      BY <3>1 DEF AtGateway, NoCall, Calls
    <3>3. QED
      BY <2>6, <3>1, <3>2 DEF ProcessRefund, WriteStatus, TypeOK, RowStatus, RefundStatus
  <2>7. ASSUME NEW o \in Operators, GatewayRefund(o)
        PROVE  TypeOK'
    <3>1. call[o].refund \in RefundIds
      BY <2>7, CallShape DEF GatewayRefund
    <3>2. \A to \in RefundStatus : Begun(call[o].refund, to) \in Calls
      BY <3>1, NewCalls
    <3>3. NoCall \in Calls
      BY DEF Calls
    <3>4. QED
      BY <2>7, <3>1, <3>2, <3>3 DEF GatewayRefund, GatewayMovesMoney, TypeOK, RefundStatus
  <2>8. ASSUME NEW o \in Operators, CompleteRefund(o)
        PROVE  TypeOK'
    <3>1. call[o].refund \in RefundIds
      BY <2>8, CallShape DEF CompleteRefund
    <3>2. ApplyRefundToOrder(status', amount)
      BY <2>8 DEF CompleteRefund
    <3>3. orderRefunded' \in Nat /\ paymentStatus' \in {"PAID", "PARTIALLY_REFUNDED", "REFUNDED"}
      BY <2>0, <3>2, OrderColumnsType
    <3>4. reversed' \in [RefundIds -> Nat]
      <4>1. CASE reversed' = reversed
        BY <4>1 DEF TypeOK
      <4>2. CASE Remaining > 0 /\ reversed' = [reversed EXCEPT ![call[o].refund] = SaleShare(call[o].refund)]
        <5>1. Given \in Nat /\ Sale \in Nat
          BY RowsAssumption, SumOverNat, LineAssumption DEF TypeOK, Given
        <5>2. Given <= Sale
          BY <4>2, <5>1 DEF Remaining, Given
        <5>3. SaleShare(call[o].refund) \in Nat
          BY <3>1, <5>1, <5>2, ShareIs
        <5>4. QED BY <3>1, <4>2, <5>3 DEF TypeOK
      <4>3. QED BY <2>8, <4>1, <4>2 DEF CompleteRefund, ReverseEarnings
    <3>5. QED
      BY <2>8, <3>1, <3>3, <3>4
      DEF CompleteRefund, WriteStatus, TypeOK, RowStatus, RefundStatus, Calls
  <2>9. CASE RecordEarnings
    BY <2>9 DEF RecordEarnings, TypeOK
  <2>10. CASE UNCHANGED vars
    BY <2>10 DEF vars, TypeOK
  <2>11. QED
    BY <2>1, <2>2, <2>3, <2>4, <2>5, <2>6, <2>7, <2>8, <2>9, <2>10 DEF Next
<1>3. QED BY <1>1, <1>2, PTL DEF Spec

----------------------------------------------------------------------------
(* A refund settles once.                                                   *)

\* A refund that does not exist has taken nothing back.
NothingYet == \A r \in RefundIds : status[r] = "ABSENT" => reversed[r] = 0

LEMMA CompletionStep ==
  ASSUME TypeOK, TypeOK', SettledOnce, NothingYet, NEW o \in Operators, CompleteRefund(o)
  PROVE  SettledOnce' /\ NothingYet'
<1>1. PICK q \in RefundIds : q = call[o].refund
  BY CallShape DEF CompleteRefund
<1>2. /\ status' = [status EXCEPT ![q] = "COMPLETED"]
      /\ ReverseEarnings(q)
      /\ echoes' = IF echoes[q] = 0 THEN [echoes EXCEPT ![q] = 1] ELSE echoes
      /\ amount' = amount /\ earned' = earned /\ early' = early
  BY <1>1 DEF CompleteRefund, WriteStatus
<1>3. /\ Remaining = Sale - Given /\ Given \in Nat /\ Given <= Sale /\ Sale \in Nat
      /\ SaleShare(q) \in 0..Remaining
      /\ ProRata(Sale, amount[q], LineTotal, 0) \in Nat
      /\ \/ SaleShare(q) = ProRata(Sale, amount[q], LineTotal, 0)
         \/ /\ SaleShare(q) < ProRata(Sale, amount[q], LineTotal, 0)
            /\ SaleShare(q) = Remaining
  BY ShareIs, LineAssumption DEF SettledOnce, Given
<1>4. NothingYet'
  BY <1>2 DEF NothingYet, ReverseEarnings, TypeOK
<1>5. \A r \in RefundIds :
        echoes'[r] <= 1 /\ (status'[r] = "COMPLETED" => echoes'[r] = 1)
  BY <1>2 DEF SettledOnce, TypeOK
<1>6. CASE earned /\ Remaining > 0 /\ reversed[q] = 0
  <2>1. reversed' = [reversed EXCEPT ![q] = SaleShare(q)]
    BY <1>2, <1>6 DEF ReverseEarnings
  <2>2. PICK share : share = SaleShare(q)
    OBVIOUS
  <2>3. reversed'[q] = share /\ \A r \in RefundIds \ {q} : reversed'[r] = reversed[r]
    BY <2>1, <2>2 DEF TypeOK
  <2>4. Given' = Given + (reversed'[q] - reversed[q])
    <3>1. /\ \A r \in RefundIds : reversed[r] \in Int
          /\ \A r \in RefundIds : reversed'[r] \in Int
      BY DEF TypeOK
    <3>2. \A r \in RefundIds \ {q} : reversed'[r] = reversed[r]
      BY <2>3
    <3>3. QED BY <3>1, <3>2, RowsAssumption, SumOverUpdate DEF Given
  <2>5. Given' = Given + share
    BY <1>3, <1>6, <2>2, <2>3, <2>4
  <2>6. Given' <= Sale
    BY <1>3, <2>2, <2>5
  <2>7. \/ share = ProRata(Sale, amount[q], LineTotal, 0)
        \/ share < ProRata(Sale, amount[q], LineTotal, 0) /\ Given' = Sale
    BY <1>3, <2>2, <2>5
  <2>8. ShareGivenBack(q)'
    BY <1>2, <2>3, <2>7 DEF ShareGivenBack, Given
  <2>9. Given # Sale
    BY <1>3, <1>6
  <2>10. \A r \in RefundIds \ {q} : ShareGivenBack(r) => ShareGivenBack(r)'
    BY <1>2, <2>3, <2>9 DEF ShareGivenBack, Given
  <2>11. \A r \in RefundIds :
           /\ reversed'[r] > 0 => earned' /\ ShareGivenBack(r)'
           /\ status'[r] = "COMPLETED" /\ earned' /\ r \notin early' => ShareGivenBack(r)'
    <3>1. ASSUME NEW r \in RefundIds
          PROVE  /\ reversed'[r] > 0 => earned' /\ ShareGivenBack(r)'
                 /\ status'[r] = "COMPLETED" /\ earned' /\ r \notin early' => ShareGivenBack(r)'
      <4>1. CASE r = q
        BY <1>2, <1>6, <2>8, <4>1
      <4>2. CASE r # q
        BY <1>2, <1>6, <2>3, <2>10, <4>2 DEF SettledOnce, TypeOK
      <4>3. QED BY <4>1, <4>2
    <3>2. QED BY <3>1
  <2>12. QED BY <1>4, <1>5, <2>6, <2>11 DEF SettledOnce, Given
<1>7. CASE ~(earned /\ Remaining > 0 /\ reversed[q] = 0)
  <2>1. reversed' = reversed
    BY <1>2, <1>7 DEF ReverseEarnings
  <2>2. \A r \in RefundIds : ShareGivenBack(r)' <=> ShareGivenBack(r)
    BY <1>2, <2>1 DEF ShareGivenBack
  <2>3. earned => ShareGivenBack(q)
    <3>1. CASE reversed[q] # 0
      <4>1. reversed[q] > 0
        BY <3>1 DEF TypeOK
      <4>2. QED BY <4>1 DEF SettledOnce
    <3>2. CASE reversed[q] = 0 /\ ~(Remaining > 0)
      <4>1. Given = Sale
        BY <1>3, <3>2
      <4>2. PICK share : share = ProRata(Sale, amount[q], LineTotal, 0)
        OBVIOUS
      <4>3. reversed[q] = share \/ reversed[q] < share
        BY <1>3, <3>2, <4>2
      <4>4. QED BY <4>1, <4>2, <4>3 DEF ShareGivenBack, Given
    <3>3. QED BY <1>7, <3>1, <3>2
  <2>4. \A r \in RefundIds : r # q => status'[r] = status[r]
    BY <1>2 DEF TypeOK
  <2>5. \A r \in RefundIds :
          /\ reversed'[r] > 0 => earned' /\ ShareGivenBack(r)'
          /\ status'[r] = "COMPLETED" /\ earned' /\ r \notin early' => ShareGivenBack(r)'
    BY <1>2, <2>1, <2>2, <2>3, <2>4 DEF SettledOnce
  <2>6. Given' <= Sale
    BY <1>3, <2>1 DEF Given
  <2>7. QED BY <1>4, <1>5, <2>5, <2>6 DEF SettledOnce, Given
<1>8. QED BY <1>6, <1>7

\* The seller gives back a refund's share of the sale once, and all refunds
\* together never more than the sale, however completions race with each other,
\* with failures, with retries and with the delivery: the marker and the rows
\* left are read and written under the order's lock (completeRefund).
THEOREM SettlesOnce == Spec => []SettledOnce
<1>1. Init => SettledOnce /\ NothingYet
  <2> SUFFICES ASSUME Init PROVE SettledOnce /\ NothingYet
    OBVIOUS
  <2>1. \A r \in RefundIds : reversed[r] = 0
    BY DEF Init
  <2>2. Given = 0
    <3>1. \A r \in RefundIds : reversed[r] \in Int /\ reversed[r] = reversed[r] + reversed[r]
      BY <2>1
    <3>2. Given = Given + Given
      BY <3>1, RowsAssumption, SumOverPlus DEF Given
    <3>3. Given \in Int
      BY <3>1, RowsAssumption, SumOverInt DEF Given
    <3>4. QED BY <3>2, <3>3
  <2>3. Given <= Sale
    BY <2>2, LineAssumption
  <2>4. QED BY <2>1, <2>3 DEF Init, SettledOnce, NothingYet, Given
<1>2. TypeOK /\ TypeOK' /\ SettledOnce /\ NothingYet /\ [Next]_vars
        => SettledOnce' /\ NothingYet'
  <2> SUFFICES ASSUME TypeOK, TypeOK', SettledOnce, NothingYet, [Next]_vars
               PROVE  SettledOnce' /\ NothingYet'
    OBVIOUS
  <2> USE DEF historyVars, rowVars, traceVars, orderVars
  <2>1. ASSUME NEW r \in RefundIds, NEW amt \in 1..Paid, NEW b \in BOOLEAN,
               CreateRefund(r, amt, b)
        PROVE  SettledOnce' /\ NothingYet'
    <3>1. /\ status[r] = "ABSENT" /\ status' = [status EXCEPT ![r] = "PENDING"]
          /\ amount' = [amount EXCEPT ![r] = amt]
          /\ UNCHANGED <<earned, reversed, echoes, early>>
      BY <2>1 DEF CreateRefund
    <3>2. reversed[r] = 0
      BY <3>1 DEF NothingYet
    <3>3. \A q \in RefundIds \ {r} :
            amount'[q] = amount[q] /\ status'[q] = status[q]
      BY <3>1 DEF TypeOK
    <3>4. \A q \in RefundIds \ {r} : ShareGivenBack(q) => ShareGivenBack(q)'
      BY <3>1, <3>3 DEF ShareGivenBack
    <3>5. status'[r] = "PENDING"
      BY <3>1 DEF TypeOK
    <3>6. QED
      BY <3>1, <3>2, <3>3, <3>4, <3>5 DEF SettledOnce, NothingYet
  <2>2. ASSUME UNCHANGED <<amount, earned, reversed, echoes, early>>,
               \A q \in RefundIds : status'[q] = "COMPLETED" => status[q] = "COMPLETED",
               \A q \in RefundIds : status'[q] = "ABSENT" => status[q] = "ABSENT"
        PROVE  SettledOnce' /\ NothingYet'
    <3>1. \A q \in RefundIds : ShareGivenBack(q)' <=> ShareGivenBack(q)
      BY <2>2 DEF ShareGivenBack
    <3>2. QED BY <2>2, <3>1 DEF SettledOnce, NothingYet
  <2>3. ASSUME NEW o \in Operators, SimpleTransition(o)
        PROVE  SettledOnce' /\ NothingYet'
    <3>1. call[o].to \in RefundStatus
      BY <2>3, CallShape DEF SimpleTransition
    <3>2. QED
      BY <2>2, <2>3, <3>1 DEF SimpleTransition, WriteStatus, TypeOK, RefundStatus
  <2>4. ASSUME NEW o \in Operators, ProcessRefund(o)
        PROVE  SettledOnce' /\ NothingYet'
    BY <2>2, <2>4 DEF ProcessRefund, WriteStatus, TypeOK
  <2>5. ASSUME NEW o \in Operators, CompleteRefund(o)
        PROVE  SettledOnce' /\ NothingYet'
    BY <2>5, CompletionStep
  <2>6. CASE RecordEarnings
    <3>1. \A q \in RefundIds : ShareGivenBack(q)' <=> ShareGivenBack(q)
      BY <2>6 DEF RecordEarnings, ShareGivenBack
    <3>2. QED BY <2>6, <3>1 DEF RecordEarnings, SettledOnce, NothingYet
  <2>7. ASSUME UNCHANGED <<status, amount, earned, reversed, echoes, early>>
        PROVE  SettledOnce' /\ NothingYet'
    BY <2>2, <2>7
  <2>8. QED
    BY <2>1, <2>3, <2>4, <2>5, <2>6, <2>7
    DEF Next, vars, RequestTransition, LoadRefund, RejectTransition, GatewayRefund, Crash
<1>3. QED BY <1>1, <1>2, TypeCorrect, PTL DEF Spec

----------------------------------------------------------------------------
\* A status write can bring a refund into the counted set only by reviving it.
LEMMA WriteShrinks ==
  ASSUME TypeOK, NEW r \in RefundIds, NEW to \in RefundStatus, WriteStatus(r, to)
  PROVE  CountedRefunds(status') \ revived' \subseteq CountedRefunds(status) \ revived
  BY DEF WriteStatus, CountedRefunds, TypeOK

\* Whatever is in flight, the refunds that counted against the cap from their
\* creation on never add up to more than was paid: only a refund that came back
\* from FAILED or CANCELLED can break the cap (refundCapFor, createRefundInTx).
THEOREM CreationKeepsCap == Spec => []OnlyRevivalExceedsPaid
<1> DEFINE Live == CountedRefunds(status) \ revived
<1>1. Init => OnlyRevivalExceedsPaid
  <2> SUFFICES ASSUME Init PROVE OnlyRevivalExceedsPaid
    OBVIOUS
  <2>1. Live = {}
    BY DEF Init, CountedRefunds, Counted
  <2>2. SumOver(amount, {}) = 0
    BY SumOverEmpty
  <2>3. QED BY <2>1, <2>2, PaidAssumption DEF OnlyRevivalExceedsPaid
<1>2. TypeOK /\ OnlyRevivalExceedsPaid /\ [Next]_vars => OnlyRevivalExceedsPaid'
  <2> SUFFICES ASSUME TypeOK, OnlyRevivalExceedsPaid, [Next]_vars
               PROVE  OnlyRevivalExceedsPaid'
    OBVIOUS
  <2> USE DEF historyVars, rowVars, traceVars, orderVars
  <2>0. /\ amount \in [RefundIds -> Nat]
        /\ Live \in SUBSET RefundIds
        /\ CountedRefunds(status) \in SUBSET RefundIds
        /\ SumOver(amount, Live) \in Nat
        /\ SumOver(amount, Live) <= Paid
        /\ Paid \in Nat
    <3>1. amount \in [RefundIds -> Nat] /\ Paid \in Nat
      BY PaidAssumption DEF TypeOK
    <3>2. Live \in SUBSET RefundIds /\ CountedRefunds(status) \in SUBSET RefundIds
      BY DEF CountedRefunds
    <3> HIDE DEF Live
    <3>3. SumOver(amount, Live) \in Nat
      BY <3>1, <3>2, ColumnSum
    <3>4. QED BY <3>1, <3>2, <3>3 DEF OnlyRevivalExceedsPaid, Live
  <2>1. ASSUME NEW r \in RefundIds, NEW amt \in 1..Paid, NEW b \in BOOLEAN,
               CreateRefund(r, amt, b)
        PROVE  OnlyRevivalExceedsPaid'
    <3>1. r \notin CountedRefunds(status)
      BY <2>1 DEF CreateRefund, CountedRefunds, Counted
    <3>2. CountedRefunds(status') = CountedRefunds(status) \cup {r}
      BY <2>1 DEF CreateRefund, CountedRefunds, Counted, TypeOK
    <3>3. /\ amount' \in [RefundIds -> Nat] /\ amount'[r] = amt
          /\ \A x \in RefundIds \ {r} : amount'[x] = amount[x]
          /\ revived' = revived
      BY <2>0, <2>1 DEF CreateRefund, TypeOK
    <3>4. SumOver(amount', Live) = SumOver(amount, Live)
      <4>1. r \notin Live /\ IsFiniteSet(Live)
        BY <2>0, <3>1, RowsAssumption, FS_Subset
      <4>2. \A x \in Live : amount[x] \in Int /\ amount[x] = amount'[x]
        BY <2>0, <3>3, <4>1
      <4> HIDE DEF Live
      <4>3. QED BY <4>1, <4>2, SumOverSame
    <3>5. SumOver(amount, Live) + amt <= Paid
      <4>1. SumOver(amount, CountedRefunds(status)) \in Nat
        BY <2>0, ColumnSum
      <4>2. SumOver(amount, CountedRefunds(status)) + amt <= Paid
        BY <2>0, <2>1, <4>1 DEF CreateRefund, RefundableRemaining
      <4>3. SumOver(amount, Live) <= SumOver(amount, CountedRefunds(status))
        BY <2>0, ColumnSubset
      <4> HIDE DEF Live
      <4>4. QED BY <2>0, <4>1, <4>2, <4>3
    <3>6. SumOver(amount', Live \cup {r}) = SumOver(amount', Live) + amt
      <4>1. r \notin Live /\ IsFiniteSet(Live)
        BY <2>0, <3>1, RowsAssumption, FS_Subset
      <4>2. (\A x \in Live : amount'[x] \in Int) /\ amount'[r] \in Int
        BY <2>0, <3>3
      <4> HIDE DEF Live
      <4>3. QED BY <3>3, <4>1, <4>2, SumOverAdd
    <3>7. Live' = Live \/ Live' = Live \cup {r}
      BY <3>1, <3>2, <3>3
    <3>8. SumOver(amount', Live') <= Paid
      <4> HIDE DEF Live
      <4>1. QED BY <2>0, <3>4, <3>5, <3>6, <3>7
    <3>9. QED BY <3>8 DEF OnlyRevivalExceedsPaid
  <2>2. ASSUME NEW o \in Operators,
               SimpleTransition(o) \/ ProcessRefund(o) \/ CompleteRefund(o)
        PROVE  OnlyRevivalExceedsPaid'
    <3>1. call[o].refund \in RefundIds
      BY <2>2, CallShape DEF SimpleTransition, ProcessRefund, CompleteRefund
    <3>2. PICK to \in RefundStatus : WriteStatus(call[o].refund, to)
      BY <2>2, CallShape DEF SimpleTransition, ProcessRefund, CompleteRefund, RefundStatus
    <3>3. Live' \in SUBSET Live /\ amount' = amount
      BY <2>2, <3>1, <3>2, WriteShrinks
      DEF SimpleTransition, ProcessRefund, CompleteRefund
    <3>4. SumOver(amount, Live') <= SumOver(amount, Live) /\ SumOver(amount, Live') \in Nat
      <4>1. Live' \in SUBSET RefundIds
        BY <2>0, <3>3
      <4> HIDE DEF Live
      <4>2. QED BY <2>0, <3>3, <4>1, ColumnSubset, ColumnSum
    <3>5. SumOver(amount', Live') <= Paid
      <4> HIDE DEF Live
      <4>1. QED BY <2>0, <3>3, <3>4
    <3>6. QED BY <3>5 DEF OnlyRevivalExceedsPaid
  <2>3. ASSUME UNCHANGED <<status, amount, revived>>
        PROVE  OnlyRevivalExceedsPaid'
    BY <2>3 DEF OnlyRevivalExceedsPaid, CountedRefunds
  <2>4. QED
    BY <2>1, <2>2, <2>3
    DEF Next, vars, RecordEarnings, RequestTransition, LoadRefund, RejectTransition,
        GatewayRefund, Crash
<1>3. QED
  <2> HIDE DEF Live
  <2>1. QED BY <1>1, <1>2, TypeCorrect, PTL DEF Spec

----------------------------------------------------------------------------
(* Refunds that no two calls were about at once.                            *)

\* The calls after a step that changes one call only, about the same refund.
LEMMA OthersStay ==
  ASSUME TypeOK, NEW o \in Operators, NEW c, call' = [call EXCEPT ![o] = c],
         c.pc # "idle" => call[o].pc # "idle" /\ c.refund = call[o].refund
  PROVE  /\ \A p \in Operators, r \in RefundIds : About(p, r)' => About(p, r)
         /\ \A p \in Operators \ {o} : call'[p] = call[p]
         /\ call'[o] = c
<1>1. call'[o] = c /\ \A p \in Operators \ {o} : call'[p] = call[p]
  BY DEF TypeOK
<1>2. ASSUME NEW p \in Operators, NEW r \in RefundIds, About(p, r)' PROVE About(p, r)
  BY <1>1, <1>2 DEF About
<1> QED BY <1>1, <1>2

\* A call that ends or goes on without writing a status.
LEMMA QuietKeepsApart ==
  ASSUME TypeOK, ApartInv, NEW o \in Operators, NEW c,
         call' = [call EXCEPT ![o] = c], UNCHANGED <<status, moved, retries, clashed>>,
         \/ c = NoCall
         \/ /\ call[o].pc = "begin"
            /\ c = Loaded(call[o].refund, call[o].to, status[call[o].refund])
  PROVE  ApartInv'
<1>1. c.pc # "idle" => c.pc = "loaded" /\ call[o].pc = "begin" /\ c.refund = call[o].refund
                       /\ c.seen = status[c.refund]
  BY DEF NoCall, Loaded
<1>2. c.pc \in {"idle", "loaded"}
  BY DEF NoCall, Loaded
<1>3. /\ \A p \in Operators, r \in RefundIds : About(p, r)' => About(p, r)
      /\ \A p \in Operators \ {o} : call'[p] = call[p]
      /\ call'[o] = c
  BY <1>1, OthersStay
<1>4. LoadedIsFresh'
  <2> SUFFICES ASSUME NEW p \in Operators, NEW r \in RefundIds \ clashed, About(p, r)'
               PROVE  /\ \A q \in Operators : About(q, r)' => q = p
                      /\ call'[p].pc = "loaded" => call'[p].seen = status[r] /\ status[r] # "ABSENT"
                      /\ call'[p].pc \in {"begin", "gateway"} => status[r] = "PROCESSING"
    BY DEF LoadedIsFresh
  <2>1. /\ About(p, r)
        /\ \A q \in Operators : About(q, r) => q = p
        /\ call[p].pc = "loaded" => call[p].seen = status[r] /\ status[r] # "ABSENT"
        /\ call[p].pc \in {"begin", "gateway"} => status[r] = "PROCESSING"
    BY <1>3 DEF ApartInv, LoadedIsFresh
  <2>2. \A q \in Operators : About(q, r)' => q = p
    BY <1>3, <2>1
  <2>3. CASE p # o
    BY <1>3, <2>1, <2>2, <2>3
  <2>4. CASE p = o
    BY <1>1, <1>2, <1>3, <2>1, <2>2, <2>4 DEF About
  <2> QED BY <2>3, <2>4
<1>5. \A r : Tried(r)' = Tried(r)
  BY DEF Tried
<1>6. MovesAccounted'
  <2> SUFFICES ASSUME NEW r \in RefundIds \ clashed
               PROVE  /\ moved[r] <= retries[r] + (IF Tried(r) THEN 1 ELSE 0)
                      /\ \A p \in Operators :
                           About(p, r)' /\ call'[p].pc = "gateway" => moved[r] <= retries[r]
    BY <1>5 DEF MovesAccounted
  <2>1. \A p \in Operators : call'[p].pc = "gateway" => call[p].pc = "gateway"
    BY <1>2, <1>3
  <2> QED BY <1>3, <2>1 DEF ApartInv, MovesAccounted
<1> QED BY <1>4, <1>6 DEF ApartInv

\* A call that writes, or asks the gateway, concerns its own refund only: if no
\* other call is about that refund, what is left to show is about it alone.
LEMMA WriterKeepsApart ==
  ASSUME TypeOK, ApartInv, NEW o \in Operators, NEW x \in RefundIds, About(o, x), NEW c,
         call' = [call EXCEPT ![o] = c],
         c = NoCall \/ c = AtGateway(x) \/ \E to \in RefundStatus : c = Begun(x, to),
         clashed' = clashed,
         \A r \in RefundIds \ {x} :
           status'[r] = status[r] /\ moved'[r] = moved[r] /\ retries'[r] = retries[r],
         x \notin clashed =>
           /\ c # NoCall => status'[x] = "PROCESSING"
           /\ moved'[x] <= retries'[x] + (IF Tried(x)' THEN 1 ELSE 0)
           /\ c = AtGateway(x) => moved'[x] <= retries'[x]
  PROVE  ApartInv'
<1>1. /\ c.pc # "idle" => c # NoCall /\ c.refund = x
      /\ c.pc \in {"idle", "begin", "gateway"}
      /\ c.pc = "gateway" => c = AtGateway(x)
  BY DEF NoCall, AtGateway, Begun
<1>2. call[o].pc # "idle" /\ call[o].refund = x
  BY DEF About
<1>3. /\ \A p \in Operators, r \in RefundIds : About(p, r)' => About(p, r)
      /\ \A p \in Operators \ {o} : call'[p] = call[p]
      /\ call'[o] = c
  BY <1>1, <1>2, OthersStay
<1>4. \A p \in Operators, r \in RefundIds \ clashed :
        /\ About(p, r)' => \A q \in Operators : About(q, r)' => q = p
        /\ About(p, r)' /\ p # o => r # x
        /\ About(p, r)' /\ p = o => r = x
  BY <1>1, <1>2, <1>3 DEF ApartInv, LoadedIsFresh, About
<1>5. LoadedIsFresh'
  <2> SUFFICES ASSUME NEW p \in Operators, NEW r \in RefundIds \ clashed, About(p, r)'
               PROVE  /\ \A q \in Operators : About(q, r)' => q = p
                      /\ call'[p].pc = "loaded" => call'[p].seen = status'[r] /\ status'[r] # "ABSENT"
                      /\ call'[p].pc \in {"begin", "gateway"} => status'[r] = "PROCESSING"
    BY DEF LoadedIsFresh
  <2>1. \A q \in Operators : About(q, r)' => q = p
    BY <1>4
  <2>2. CASE p # o
    <3>1. status'[r] = status[r] /\ call'[p] = call[p] /\ About(p, r)
      BY <1>3, <1>4, <2>2
    <3> QED BY <2>1, <3>1 DEF ApartInv, LoadedIsFresh
  <2>3. CASE p = o
    <3>1. r = x /\ call'[p] = c /\ c # NoCall
      BY <1>1, <1>3, <1>4, <2>3 DEF About
    <3> QED BY <1>1, <2>1, <3>1
  <2> QED BY <2>2, <2>3
<1>6. MovesAccounted'
  <2> SUFFICES ASSUME NEW r \in RefundIds \ clashed
               PROVE  /\ moved'[r] <= retries'[r] + (IF Tried(r)' THEN 1 ELSE 0)
                      /\ \A p \in Operators :
                           About(p, r)' /\ call'[p].pc = "gateway" => moved'[r] <= retries'[r]
    BY DEF MovesAccounted
  <2>1. CASE r = x
    BY <1>1, <1>3, <1>4, <2>1 DEF About
  <2>2. CASE r # x
    <3>1. /\ status'[r] = status[r] /\ moved'[r] = moved[r] /\ retries'[r] = retries[r]
          /\ (IF Tried(r)' THEN 1 ELSE 0) = (IF Tried(r) THEN 1 ELSE 0)
      BY <2>2 DEF Tried
    <3>2. \A p \in Operators : About(p, r)' => About(p, r) /\ call'[p] = call[p]
      BY <1>3, <1>4, <2>2
    <3> QED BY <3>1, <3>2 DEF ApartInv, MovesAccounted
  <2> QED BY <2>1, <2>2
<1> QED BY <1>5, <1>6 DEF ApartInv

\* While no two calls are about a refund nothing changes between a call's read
\* and its write, whatever happens to the other refunds.
LEMMA ApartStep == TypeOK /\ ApartInv /\ [Next]_vars => ApartInv'
<1> SUFFICES ASSUME TypeOK, ApartInv, [Next]_vars PROVE ApartInv'
  OBVIOUS
<1> USE DEF historyVars, rowVars, traceVars, orderVars
<1>1. ASSUME NEW x \in RefundIds, NEW amt \in 1..Paid, NEW b \in BOOLEAN,
             CreateRefund(x, amt, b)
      PROVE  ApartInv'
  <2>1. /\ status[x] = "ABSENT" /\ status' = [status EXCEPT ![x] = "PENDING"]
        /\ UNCHANGED <<moved, call, retries, clashed>>
    BY <1>1 DEF CreateRefund
  <2>2. \A o \in Operators, r \in RefundIds : About(o, r)' = About(o, r)
    BY <2>1 DEF About
  <2>3. LoadedIsFresh'
    <3> SUFFICES ASSUME NEW o \in Operators, NEW r \in RefundIds \ clashed, About(o, r)
                 PROVE  /\ \A p \in Operators : About(p, r) => p = o
                        /\ call[o].pc = "loaded" => call[o].seen = status'[r] /\ status'[r] # "ABSENT"
                        /\ call[o].pc \in {"begin", "gateway"} => status'[r] = "PROCESSING"
      BY <2>1, <2>2 DEF LoadedIsFresh
    <3>1. /\ \A p \in Operators : About(p, r) => p = o
          /\ call[o].pc = "loaded" => call[o].seen = status[r] /\ status[r] # "ABSENT"
          /\ call[o].pc \in {"begin", "gateway"} => status[r] = "PROCESSING"
      BY DEF ApartInv, LoadedIsFresh
    <3>2. call[o].pc \in {"begin", "loaded", "gateway"}
      BY CallShape DEF About, NoCall
    <3>3. r # x
      BY <2>1, <3>1, <3>2
    <3> QED BY <2>1, <3>1, <3>3 DEF TypeOK
  <2>4. \A r \in RefundIds : Tried(r)' = Tried(r)
    BY <2>1 DEF Tried, TypeOK
  <2>5. MovesAccounted'
    BY <2>1, <2>2, <2>4 DEF ApartInv, MovesAccounted
  <2> QED BY <2>3, <2>5 DEF ApartInv
<1>2. ASSUME NEW o \in Operators, NEW x \in RefundIds, NEW to \in Targets,
             RequestTransition(o, x, to)
      PROVE  ApartInv'
  <2>1. /\ call[o].pc = "idle" /\ status[x] # "ABSENT"
        /\ call' = [call EXCEPT ![o] = Loaded(x, to, status[x])]
        /\ clashed' = IF \E p \in Operators : About(p, x) THEN clashed \cup {x} ELSE clashed
        /\ UNCHANGED <<status, moved, retries>>
    BY <1>2 DEF RequestTransition, NoCall
  <2>2. /\ call'[o].pc = "loaded" /\ call'[o].refund = x /\ call'[o].seen = status[x]
        /\ \A p \in Operators \ {o} : call'[p] = call[p]
    BY <2>1 DEF Loaded, TypeOK
  <2>3. \A r \in RefundIds \ clashed' :
          /\ r \in RefundIds \ clashed
          /\ \A p \in Operators \ {o} : About(p, r)' => About(p, r) /\ call'[p] = call[p] /\ r # x
          /\ About(o, r)' => r = x
    BY <2>1, <2>2 DEF About
  <2>4. LoadedIsFresh'
    <3> SUFFICES ASSUME NEW p \in Operators, NEW r \in RefundIds \ clashed', About(p, r)'
                 PROVE  /\ \A q \in Operators : About(q, r)' => q = p
                        /\ call'[p].pc = "loaded" => call'[p].seen = status[r] /\ status[r] # "ABSENT"
                        /\ call'[p].pc \in {"begin", "gateway"} => status[r] = "PROCESSING"
      BY <2>1 DEF LoadedIsFresh
    <3>1. CASE p = o
      BY <2>1, <2>2, <2>3, <3>1
    <3>2. CASE p # o
      BY <2>3, <3>2 DEF ApartInv, LoadedIsFresh
    <3> QED BY <3>1, <3>2
  <2>5. \A r : Tried(r)' = Tried(r)
    BY <2>1 DEF Tried
  <2>6. MovesAccounted'
    <3> SUFFICES ASSUME NEW r \in RefundIds \ clashed'
                 PROVE  /\ moved[r] <= retries[r] + (IF Tried(r) THEN 1 ELSE 0)
                        /\ \A p \in Operators :
                             About(p, r)' /\ call'[p].pc = "gateway" => moved[r] <= retries[r]
      BY <2>1, <2>5 DEF MovesAccounted
    <3> QED BY <2>2, <2>3 DEF ApartInv, MovesAccounted
  <2> QED BY <2>4, <2>6 DEF ApartInv
<1>3. ASSUME NEW o \in Operators, Crash(o) \/ RejectTransition(o) \/ LoadRefund(o)
      PROVE  ApartInv'
  BY <1>3, QuietKeepsApart DEF Crash, RejectTransition, LoadRefund
<1>4. ASSUME NEW o \in Operators, call[o].pc \in {"loaded", "gateway"}
      PROVE  /\ call[o].refund \in RefundIds /\ About(o, call[o].refund)
             /\ call[o].refund \notin clashed =>
                  /\ call[o].pc = "loaded" => call[o].seen = status[call[o].refund]
                  /\ call[o].pc = "gateway" => status[call[o].refund] = "PROCESSING"
                                               /\ moved[call[o].refund] <= retries[call[o].refund]
                  /\ moved[call[o].refund] <= retries[call[o].refund] + (IF Tried(call[o].refund) THEN 1 ELSE 0)
  <2>1. call[o].refund \in RefundIds /\ About(o, call[o].refund)
    BY <1>4, CallShape DEF About
  <2> QED BY <1>4, <2>1 DEF ApartInv, LoadedIsFresh, MovesAccounted
<1>5. ASSUME NEW o \in Operators, SimpleTransition(o)
      PROVE  ApartInv'
  <2>1. PICK x \in RefundIds : x = call[o].refund
    BY <1>4, <1>5 DEF SimpleTransition
  <2>2. PICK to \in RefundStatus : to = call[o].to
    BY <1>5, CallShape DEF SimpleTransition
  <2>3. /\ status' = [status EXCEPT ![x] = to] /\ <<call[o].seen, to>> \in RefundTransitions
        /\ to \notin {"PROCESSING", "COMPLETED"}
        /\ retries' = IF to = "PENDING" THEN [retries EXCEPT ![x] = @ + 1] ELSE retries
        /\ call' = [call EXCEPT ![o] = NoCall] /\ UNCHANGED <<moved, clashed>>
    BY <1>5, <2>1, <2>2 DEF SimpleTransition, WriteStatus, Permitted
  <2>4. About(o, x) /\ (x \notin clashed => call[o].seen = status[x]
                         /\ moved[x] <= retries[x] + (IF Tried(x) THEN 1 ELSE 0))
    BY <1>4, <1>5, <2>1 DEF SimpleTransition
  <2>5. moved[x] \in Nat /\ retries[x] \in Nat
    BY DEF TypeOK
  <2>6. x \notin clashed => moved'[x] <= retries'[x] + (IF Tried(x)' THEN 1 ELSE 0)
    BY <2>3, <2>4, <2>5 DEF Tried, RefundTransitions, TypeOK
  <2>7. \A r \in RefundIds \ {x} :
          status'[r] = status[r] /\ moved'[r] = moved[r] /\ retries'[r] = retries[r]
    BY <2>3 DEF TypeOK
  <2>8. NoCall # AtGateway(x)
    BY DEF NoCall, AtGateway
  <2> QED BY <2>3, <2>4, <2>6, <2>7, <2>8, WriterKeepsApart
<1>6. ASSUME NEW o \in Operators, ProcessRefund(o)
      PROVE  ApartInv'
  <2>1. PICK x \in RefundIds : x = call[o].refund
    BY <1>4, <1>6 DEF ProcessRefund
  <2>2. /\ status' = [status EXCEPT ![x] = "PROCESSING"] /\ call[o].seen = "APPROVED"
        /\ UNCHANGED <<moved, retries, clashed>>
    BY <1>6, <2>1 DEF ProcessRefund, WriteStatus, Permitted, RefundTransitions
  <2>3. PICK c : c \in {NoCall, AtGateway(x)} /\ call' = [call EXCEPT ![o] = c]
    BY <1>6, <2>1 DEF ProcessRefund
  <2>4. About(o, x) /\ (x \notin clashed => call[o].seen = status[x]
                         /\ moved[x] <= retries[x] + (IF Tried(x) THEN 1 ELSE 0))
    BY <1>4, <1>6, <2>1 DEF ProcessRefund
  <2>5. moved[x] \in Nat /\ retries[x] \in Nat
    BY DEF TypeOK
  <2>6. status'[x] = "PROCESSING" /\ Tried(x)'
    BY <2>2 DEF TypeOK, Tried
  <2>7. x \notin clashed => moved[x] <= retries[x]
    BY <2>2, <2>4, <2>5 DEF Tried
  <2>8. \A r \in RefundIds \ {x} :
          status'[r] = status[r] /\ moved'[r] = moved[r] /\ retries'[r] = retries[r]
    BY <2>2 DEF TypeOK
  <2>9. x \notin clashed => moved'[x] <= retries'[x] + (IF Tried(x)' THEN 1 ELSE 0)
    BY <2>2, <2>5, <2>6, <2>7
  <2> QED BY <2>2, <2>3, <2>4, <2>6, <2>7, <2>8, <2>9, WriterKeepsApart
<1>7. ASSUME NEW o \in Operators, GatewayRefund(o)
      PROVE  ApartInv'
  <2>1. PICK x \in RefundIds : x = call[o].refund
    BY <1>4, <1>7 DEF GatewayRefund
  <2>2. /\ moved' = moved \/ moved' = [moved EXCEPT ![x] = @ + 1]
        /\ UNCHANGED <<status, retries, clashed>>
    BY <1>7, <2>1 DEF GatewayRefund, GatewayMovesMoney
  <2>3. PICK c : /\ c = NoCall \/ \E to \in RefundStatus : c = Begun(x, to)
                 /\ call' = [call EXCEPT ![o] = c]
    BY <1>7, <2>1 DEF GatewayRefund, GatewayMovesMoney, RefundStatus
  <2>4. About(o, x) /\ (x \notin clashed => status[x] = "PROCESSING" /\ moved[x] <= retries[x])
    BY <1>4, <1>7, <2>1 DEF GatewayRefund
  <2>5. moved[x] \in Nat /\ retries[x] \in Nat /\ moved'[x] \in {moved[x], moved[x] + 1}
    BY <2>2 DEF TypeOK
  <2>6. c # AtGateway(x)
    BY <2>3 DEF NoCall, AtGateway, Begun
  <2>7. x \notin clashed => Tried(x)'
    BY <2>2, <2>4 DEF Tried
  <2>8. \A r \in RefundIds \ {x} :
          status'[r] = status[r] /\ moved'[r] = moved[r] /\ retries'[r] = retries[r]
    BY <2>2 DEF TypeOK
  <2>9. x \notin clashed => moved'[x] <= retries'[x] + (IF Tried(x)' THEN 1 ELSE 0)
    BY <2>2, <2>4, <2>5, <2>7
  <2> QED BY <2>2, <2>3, <2>4, <2>6, <2>8, <2>9, WriterKeepsApart
<1>8. ASSUME NEW o \in Operators, CompleteRefund(o)
      PROVE  ApartInv'
  <2>1. PICK x \in RefundIds : x = call[o].refund
    BY <1>4, <1>8 DEF CompleteRefund
  <2>2. /\ status' = [status EXCEPT ![x] = "COMPLETED"] /\ call[o].seen = "PROCESSING"
        /\ call' = [call EXCEPT ![o] = NoCall]
        /\ UNCHANGED <<moved, retries, clashed>>
    BY <1>8, <2>1 DEF CompleteRefund, WriteStatus, Permitted, RefundTransitions
  <2>3. About(o, x) /\ (x \notin clashed => call[o].seen = status[x]
                         /\ moved[x] <= retries[x] + (IF Tried(x) THEN 1 ELSE 0))
    BY <1>4, <1>8, <2>1 DEF CompleteRefund
  <2>4. moved[x] \in Nat /\ retries[x] \in Nat /\ Tried(x)'
    BY <2>2 DEF TypeOK, Tried
  <2>5. x \notin clashed => moved'[x] <= retries'[x] + (IF Tried(x)' THEN 1 ELSE 0)
    BY <2>2, <2>3, <2>4
  <2>6. \A r \in RefundIds \ {x} :
          status'[r] = status[r] /\ moved'[r] = moved[r] /\ retries'[r] = retries[r]
    BY <2>2 DEF TypeOK
  <2>7. NoCall # AtGateway(x)
    BY DEF NoCall, AtGateway
  <2> QED BY <2>2, <2>3, <2>5, <2>6, <2>7, WriterKeepsApart
<1>9. CASE RecordEarnings \/ UNCHANGED vars
  BY <1>9
  DEF RecordEarnings, vars, ApartInv, LoadedIsFresh, MovesAccounted, Tried, About
<1>10. QED
  BY <1>1, <1>2, <1>3, <1>5, <1>6, <1>7, <1>8, <1>9 DEF Next

LEMMA ApartInvariant == Spec => []ApartInv
<1>1. Init => ApartInv
  BY DEF Init, ApartInv, LoadedIsFresh, MovesAccounted, NoCall, Tried, About
<1>2. QED BY <1>1, ApartStep, TypeCorrect, PTL DEF Spec

\* Calls about different refunds may overlap freely: the gateway moves a refund's
\* money at most once per decision to try, even when its answer is lost, as long
\* as no two calls were about that refund at once (processRefund).
THEOREM PaysOnce == Spec => []GatewayPaysOncePerAttempt
<1>1. TypeOK /\ ApartInv => GatewayPaysOncePerAttempt
  BY DEF ApartInv, MovesAccounted, GatewayPaysOncePerAttempt, TypeOK
<1>2. QED BY <1>1, ApartInvariant, TypeCorrect, PTL

\* A refund that no two calls were about at once moves only along
\* REFUND_TRANSITIONS, whatever happens to the others.
THEOREM TransitionsLegal == Spec => LegalTransitions
<1>1. TypeOK /\ ApartInv /\ [Next]_vars
        => [\A r \in RefundIds : r \in clashed \/ LegalStep(r)]_vars
  <2> SUFFICES ASSUME TypeOK, ApartInv, Next, NEW r \in RefundIds, r \notin clashed
               PROVE  LegalStep(r)
    OBVIOUS
  <2> USE DEF historyVars, rowVars, traceVars, orderVars, LegalStep
  <2>1. ASSUME NEW x \in RefundIds, NEW amt \in 1..Paid, NEW b \in BOOLEAN,
               CreateRefund(x, amt, b)
        PROVE  LegalStep(r)
    BY <2>1 DEF CreateRefund, TypeOK
  <2>2. ASSUME NEW o \in Operators,
               SimpleTransition(o) \/ ProcessRefund(o) \/ CompleteRefund(o)
        PROVE  LegalStep(r)
    <3>1. /\ call[o].pc = "loaded" /\ call[o].refund \in RefundIds
          /\ <<call[o].seen, call[o].to>> \in RefundTransitions
      BY <2>2, CallShape DEF SimpleTransition, ProcessRefund, CompleteRefund, Permitted
    <3>2. WriteStatus(call[o].refund, call[o].to)
      BY <2>2 DEF SimpleTransition, ProcessRefund, CompleteRefund
    <3>3. call[o].refund = r => call[o].seen = status[r]
      BY <3>1 DEF ApartInv, LoadedIsFresh, About
    <3>4. QED BY <3>1, <3>2, <3>3 DEF WriteStatus, TypeOK
  <2>3. ASSUME UNCHANGED status
        PROVE  LegalStep(r)
    BY <2>3
  <2>4. QED
    BY <2>1, <2>2, <2>3
    DEF Next, RecordEarnings, RequestTransition, LoadRefund, RejectTransition,
        GatewayRefund, Crash
<1>2. QED BY <1>1, ApartInvariant, TypeCorrect, PTL DEF Spec, LegalTransitions

\* The order's money columns are those of its refund rows for any number of
\* refunds and overlapping calls, as long as no two calls were about one refund
\* (applyRefundToOrder after every transition but PROCESSING).
THEOREM OrderAlwaysMatches == Spec => []OrderMatchesRows
<1> DEFINE Done == { r \in RefundIds : status[r] = "COMPLETED" }
<1>1. Init => OrderMatchesRows
  <2> SUFFICES ASSUME Init PROVE OrderMatchesRows
    OBVIOUS
  <2>1. Done = {}
    BY DEF Init
  <2>2. SumOver(amount, {}) = 0
    BY SumOverEmpty
  <2>3. DerivePaymentStatus(0) = "PAID"
    BY PaidAssumption DEF DerivePaymentStatus
  <2> QED BY <2>1, <2>2, <2>3 DEF OrderMatchesRows, Init
<1>2. TypeOK /\ ApartInv /\ OrderMatchesRows /\ [Next]_vars => OrderMatchesRows'
  <2> SUFFICES ASSUME TypeOK, ApartInv, OrderMatchesRows, [Next]_vars
               PROVE  OrderMatchesRows'
    OBVIOUS
  <2> USE DEF historyVars, rowVars, traceVars, orderVars
  <2>1. ASSUME ApplyRefundToOrder(status', amount') PROVE OrderMatchesRows'
    BY <2>1 DEF ApplyRefundToOrder, OrderMatchesRows
  <2>2. ASSUME Done' = Done, clashed' = {} => clashed = {},
               UNCHANGED <<amount, orderRefunded, paymentStatus>>
        PROVE  OrderMatchesRows'
    BY <2>2 DEF OrderMatchesRows, DerivePaymentStatus
  <2>3. ASSUME NEW x \in RefundIds, NEW amt \in 1..Paid, NEW b \in BOOLEAN,
               CreateRefund(x, amt, b)
        PROVE  OrderMatchesRows'
    BY <2>1, <2>3 DEF CreateRefund
  <2>4. ASSUME NEW o \in Operators, SimpleTransition(o) \/ CompleteRefund(o)
        PROVE  OrderMatchesRows'
    <3>1. ApplyRefundToOrder(status', amount) /\ amount' = amount
      BY <2>4 DEF SimpleTransition, CompleteRefund
    <3> QED BY <2>1, <3>1
  <2>5. ASSUME NEW o \in Operators, ProcessRefund(o)
        PROVE  OrderMatchesRows'
    <3>1. /\ call[o].pc = "loaded" /\ call[o].refund \in RefundIds
          /\ call[o].seen = "APPROVED"
      BY <2>5, CallShape DEF ProcessRefund, Permitted, RefundTransitions
    <3>2. /\ status' = [status EXCEPT ![call[o].refund] = "PROCESSING"]
          /\ UNCHANGED <<amount, orderRefunded, paymentStatus, clashed>>
      BY <2>5 DEF ProcessRefund, WriteStatus
    <3>3. CASE clashed = {}
      <4>1. status[call[o].refund] = "APPROVED"
        BY <3>1, <3>3 DEF ApartInv, LoadedIsFresh, About
      <4>2. Done' = Done
        BY <3>1, <3>2, <4>1 DEF TypeOK
      <4> QED BY <2>2, <3>2, <4>2
    <3>4. CASE clashed # {}
      BY <3>2, <3>4 DEF OrderMatchesRows
    <3> QED BY <3>3, <3>4
  <2>6. ASSUME UNCHANGED <<status, amount, orderRefunded, paymentStatus>>,
               clashed \subseteq clashed'
        PROVE  OrderMatchesRows'
    <3>1. Done' = Done
      BY <2>6
    <3> QED BY <2>2, <2>6, <3>1
  <2>7. QED
    BY <2>3, <2>4, <2>5, <2>6
    DEF Next, vars, RecordEarnings, RequestTransition, LoadRefund, RejectTransition,
        GatewayRefund, Crash
<1>3. QED
  <2> HIDE DEF Done
  <2>1. QED BY <1>1, <1>2, ApartInvariant, TypeCorrect, PTL DEF Spec
=============================================================================
