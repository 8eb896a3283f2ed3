------------------------ MODULE SellerPayoutsProofs ------------------------
(***************************************************************************)
(* What the ledger and its statements guarantee however transactions        *)
(* overlap, for any number of rows, statements and threads.                  *)
(***************************************************************************)
EXTENDS SellerPayouts, SumsProofs, FiniteSetTheorems, TLAPS

\* A set of rows sums up to an integer.
LEMMA TotalInt ==
  ASSUME NEW l, \A r \in Rows : l[r].amount \in Int, NEW S \in SUBSET Rows
  PROVE  Total(l, S) \in Int
<1> DEFINE f == [r \in Rows |-> l[r].amount]
<1>1. IsFiniteSet(S) /\ \A x \in S : f[x] \in Int
  BY FS_Subset, RowsAssumption
<1>2. SumOver(f, S) \in Int
  <2> HIDE DEF f
  <2>1. QED BY <1>1, SumOverInt
<1>3. QED BY <1>2 DEF Total

LEMMA BalanceTyped ==
  ASSUME NEW l, \A r \in Rows : l[r].amount \in Int
  PROVE  Balance(l) \in BalanceType
<1>1. \A S \in SUBSET Rows : Total(l, S) \in Int
  BY TotalInt
<1> DEFINE W(s) == { r \in Rows : l[r].status = s }
           P == { r \in Rows : l[r].kind = "PAYOUT" }
<1>2. /\ Total(l, W("PENDING")) \in Int /\ Total(l, W("AVAILABLE")) \in Int
      /\ Total(l, W("SCHEDULED")) \in Int /\ 0 - Total(l, P) \in Int
  BY <1>1
<1>3. QED BY <1>2 DEF Balance, BalanceType

RowsTyped(rows) ==
  DOMAIN rows \subseteq Rows /\ \A r \in DOMAIN rows : rows[r] \in EntryType /\ Signed(rows[r])

PayoutsTyped(payouts) ==
  DOMAIN payouts \subseteq Payouts /\ \A p \in DOMAIN payouts : payouts[p] \in StatementType

\* The state of a call that is not staged yet.
Reading(x) == x.pc # "staged" /\ TxOK(x)

\* Every step but a commit and a new day stages well-typed rows or only reads.
LEMMA WriteTyped ==
  ASSUME TypeOK, NEW t \in Threads, NEW rows, NEW payouts,
         RowsTyped(rows), PayoutsTyped(payouts), Write(t, rows, payouts),
         overlapped' \in BOOLEAN
  PROVE  TypeOK'
<1> DEFINE v == [pc |-> "staged", rows |-> rows, payouts |-> payouts,
                 balance |-> Balance(OwnView(rows))]
<1>1. \A r \in Rows : OwnView(rows)[r].amount \in Int
  <2>1. \A r \in Rows : OwnView(rows)[r] = IF r \in DOMAIN rows THEN rows[r] ELSE ledger[r]
    BY DEF OwnView, Overlay, TypeOK
  <2>2. \A r \in Rows : OwnView(rows)[r] \in EntryType
    BY <2>1 DEF TypeOK, RowsTyped
  <2>3. QED BY <2>2 DEF EntryType
<1>2. Balance(OwnView(rows)) \in BalanceType
  BY <1>1, BalanceTyped
<1>3. TxOK(v)
  BY <1>2 DEF TxOK, RowsTyped, PayoutsTyped
<1>4. tx' = [tx EXCEPT ![t] = v] /\ UNCHANGED <<ledger, payout, balance, clock>>
  BY DEF Write, tables
<1>5. DOMAIN tx' = Threads /\ \A u \in Threads : TxOK(tx'[u])
  BY <1>3, <1>4 DEF TypeOK
<1>6. QED BY <1>4, <1>5 DEF TypeOK

LEMMA ReadTyped ==
  ASSUME TypeOK, NEW t \in Threads, NEW x, TxOK(x),
         tx' = [tx EXCEPT ![t] = x], UNCHANGED <<tables, clock>>, overlapped' \in BOOLEAN
  PROVE  TypeOK'
BY DEF TypeOK, tables

LEMMA CommitTyped ==
  ASSUME TypeOK, NEW t \in Threads, Commit(t)
  PROVE  TypeOK'
<1>1. /\ RowsTyped(tx[t].rows) /\ PayoutsTyped(tx[t].payouts) /\ tx[t].balance \in BalanceType
  BY DEF TypeOK, TxOK, Commit, Staged, Idle, RowsTyped, PayoutsTyped
<1>2. ledger' \in [Rows -> EntryType] /\ \A r \in Rows : Signed(ledger'[r])
  BY <1>1 DEF TypeOK, Commit, Overlay, RowsTyped
<1>3. payout' \in [Payouts -> StatementType]
  BY <1>1 DEF TypeOK, Commit, Overlay, PayoutsTyped
<1>4. DOMAIN tx' = Threads /\ \A u \in Threads : TxOK(tx'[u])
  BY DEF TypeOK, Commit, TxOK
<1>5. QED BY <1>1, <1>2, <1>3, <1>4 DEF TypeOK, Commit

----------------------------------------------------------------------------
(***************************************************************************)
(* What may be staged beside what is committed.                             *)

\* PAYOUT rows are PAID and nobody's to write; other rows keep their kind.
KeepsKinds(rows) ==
  \A r \in DOMAIN rows :
    /\ rows[r].kind # "NONE" /\ ledger[r].kind # "PAYOUT"
    /\ ledger[r].kind # "NONE" => rows[r].kind = ledger[r].kind
    /\ rows[r].kind = "PAYOUT" => rows[r].status = "PAID"

\* Rows are scheduled together with the statement they wait for, and whoever
\* closes a statement takes all of its rows.
MovesTogether(rows, payouts) ==
  /\ \A r \in DOMAIN rows : rows[r].status = "SCHEDULED" =>
       /\ rows[r].payout \in DOMAIN payouts
       /\ payouts[rows[r].payout].status \in OpenStatus
  /\ \A p \in DOMAIN payouts : payouts[p].status \notin OpenStatus =>
       \A r \in Scheduled(p) : r \in DOMAIN rows

\* A statement's figure is fixed when it is made.
KeepsFigures(payouts) ==
  \A p \in DOMAIN payouts :
    /\ payouts[p].status # "ABSENT"
    /\ payout[p].status = "ABSENT" \/ payouts[p].net = payout[p].net

\* PAID comes with a PAYOUT row, which comes with a PAID statement.
PaysOut(rows, payouts) ==
  /\ \A p \in DOMAIN payouts : payouts[p].status = "PAID" =>
       \E r \in DOMAIN rows : rows[r].kind = "PAYOUT" /\ rows[r].payout = p
  /\ \A r \in DOMAIN rows : rows[r].status = "PAID" =>
       \E x \in DOMAIN rows : rows[x].kind = "PAYOUT" /\ rows[x].payout = rows[r].payout
  /\ \A r \in DOMAIN rows : rows[r].kind = "PAYOUT" =>
       /\ rows[r].payout \in DOMAIN payouts
       /\ rows[r].amount = 0 - payouts[rows[r].payout].net

Legal(rows, payouts) ==
  /\ KeepsKinds(rows) /\ MovesTogether(rows, payouts)
  /\ KeepsFigures(payouts) /\ PaysOut(rows, payouts)
  /\ \A p, q \in DOMAIN payouts : p = q

StagedLegal == \A t \in Threads : Staged(t) => Legal(tx[t].rows, tx[t].payouts)

\* Row locks.
LocksDisjoint ==
  \A t, u \in Threads : t # u /\ Staged(t) /\ Staged(u) =>
    /\ DOMAIN tx[t].rows \cap DOMAIN tx[u].rows = {}
    /\ DOMAIN tx[t].payouts \cap DOMAIN tx[u].payouts = {}

\* What has been read and is still true: rows and statements that exist.
ReadsExist ==
  \A t \in Threads :
    /\ tx[t].pc = "marking" =>
         \A r \in tx[t].due : ledger[r].kind \notin {"NONE", "PAYOUT"}
    /\ tx[t].pc = "moving" => payout[tx[t].payout].status # "ABSENT"

Kinds ==
  \A r \in Rows :
    /\ ledger[r].kind = "PAYOUT" => ledger[r].status = "PAID"
    /\ ledger[r].kind = "NONE" => ledger[r].status = "NONE"

Statements ==
  \A r \in Rows : ledger[r].kind = "PAYOUT" =>
    ledger[r].payout \in Payouts /\ payout[ledger[r].payout].status # "ABSENT"

LedgerInv ==
  /\ StagedLegal /\ LocksDisjoint /\ ReadsExist /\ Kinds /\ Statements
  /\ ScheduledIsOpen /\ PaidIsPaidOut

Opens(u, q) == Staged(u) /\ q \in DOMAIN tx[u].payouts
               /\ tx[u].payouts[q].status \in OpenStatus

OneOpens ==
  /\ \A p, q \in Payouts :
       payout[p].status \in OpenStatus /\ payout[q].status \in OpenStatus => p = q
  /\ \A t \in Threads, p, q \in Payouts :
       Opens(t, p) /\ payout[q].status \in OpenStatus => p = q
  /\ \A t, u \in Threads, p, q \in Payouts :
       Opens(t, p) /\ Opens(u, q) => t = u

----------------------------------------------------------------------------
(* The shape of a step: what it reads, or what it stages.                   *)

Reads(t, x) ==
  /\ tx' = [tx EXCEPT ![t] = x]
  /\ UNCHANGED <<tables, clock>>
  /\ TxOK(x) /\ x.pc # "staged"
  /\ x.pc = "marking" => \A r \in x.due : ledger[r].status = "PENDING"
  /\ x.pc = "moving" => payout[x.payout].status # "ABSENT"

Stages(t, rows, payouts) ==
  /\ Write(t, rows, payouts)
  /\ RowsTyped(rows) /\ PayoutsTyped(payouts)
  /\ \A p, q \in DOMAIN payouts : p = q
  /\ \A p \in DOMAIN payouts : payouts[p].status \in OpenStatus => OnlyOpen(t, p)
  /\ LedgerInv => Legal(rows, payouts)

\* A row that did not exist.
LEMMA InsertStages ==
  ASSUME TypeOK, NEW t \in Threads, NEW r \in Rows, NEW row \in EntryType,
         Signed(row), row.kind \notin {"NONE", "PAYOUT"},
         row.status \in {"PENDING", "AVAILABLE"}, Insert(t, r, row)
  PROVE  \E rows, payouts : Stages(t, rows, payouts)
<1> DEFINE rows == [x \in {r} |-> row]
           payouts == [p \in {} |-> NoStatement]
<1>1. Write(t, rows, payouts) /\ ledger[r].kind = "NONE"
  BY DEF Insert, Fresh, Absent
<1>2. RowsTyped(rows) /\ PayoutsTyped(payouts)
  BY DEF RowsTyped, PayoutsTyped
<1>3. Legal(rows, payouts)
  BY <1>1 DEF Legal, KeepsKinds, MovesTogether, KeepsFigures, PaysOut
<1>4. Stages(t, rows, payouts)
  BY <1>1, <1>2, <1>3 DEF Stages
<1>5. QED BY <1>4

LEMMA RecordsStage ==
  ASSUME TypeOK, NEW t \in Threads, NEW r \in Rows,
         \/ \E a \in Amounts, at \in 1..MaxClock : RecordEarnings(t, r, a, at)
         \/ \E e \in Rows : \E s \in 1..Remaining(e) : ReverseEarnings(t, r, e, s)
         \/ \E a \in Adjustments : RecordAdjustment(t, r, a)
  PROVE  \E rows, payouts : Stages(t, rows, payouts)
<1>1. CASE \E a \in Amounts, at \in 1..MaxClock : RecordEarnings(t, r, a, at)
  <2>1. PICK a \in Amounts, at \in 1..MaxClock : RecordEarnings(t, r, a, at)
    BY <1>1
  <2> DEFINE row == Entry("EARNING", a, "PENDING", at, NoRow)
  <2>2. row \in EntryType /\ Signed(row) /\ row.kind = "EARNING" /\ row.status = "PENDING"
    BY AmountsAssumption DEF Entry, EntryType, Signed
  <2>3. Insert(t, r, row)
    BY <2>1 DEF RecordEarnings
  <2> HIDE DEF row
  <2>4. QED BY <2>2, <2>3, InsertStages
<1>2. CASE \E e \in Rows : \E s \in 1..Remaining(e) : ReverseEarnings(t, r, e, s)
  <2>1. PICK e \in Rows : \E s \in 1..Remaining(e) : ReverseEarnings(t, r, e, s)
    BY <1>2
  <2>2. \A x \in Rows : ledger[x].amount \in Int
    BY DEF TypeOK, EntryType
  <2>3. Remaining(e) \in Int
    <3>1. Total(ledger, { x \in Rows : ledger[x].of = e }) \in Int
      BY <2>2, TotalInt
    <3>2. QED BY <2>2, <3>1, AmountsAssumption DEF Remaining
  <2>4. PICK s \in 1..Remaining(e) : ReverseEarnings(t, r, e, s)
    BY <2>1
  <2> DEFINE row == Reversal(e, s)
  <2>5. s \in Int /\ s >= 1
    BY <2>3
  <2>6. /\ row \in EntryType /\ Signed(row)
        /\ row.kind = "REVERSAL" /\ row.status = "AVAILABLE"
    BY <2>5, AmountsAssumption DEF Reversal, Entry, EntryType, Signed, TypeOK
  <2>7. Insert(t, r, row)
    BY <2>4 DEF ReverseEarnings
  <2> HIDE DEF row
  <2>8. QED BY <2>6, <2>7, InsertStages
<1>3. CASE \E a \in Adjustments : RecordAdjustment(t, r, a)
  <2>1. PICK a \in Adjustments : RecordAdjustment(t, r, a)
    BY <1>3
  <2> DEFINE row == Entry("ADJUSTMENT", a, "AVAILABLE", clock, NoRow)
  <2>2. /\ row \in EntryType /\ Signed(row)
        /\ row.kind = "ADJUSTMENT" /\ row.status = "AVAILABLE"
    BY AmountsAssumption DEF Entry, EntryType, Signed, TypeOK
  <2>3. Insert(t, r, row)
    BY <2>1 DEF RecordAdjustment
  <2> HIDE DEF row
  <2>4. QED BY <2>2, <2>3, InsertStages
<1>4. QED BY <1>1, <1>2, <1>3

LEMMA RecomputeStages ==
  ASSUME TypeOK, NEW t \in Threads, RecomputeBalance(t)
  PROVE  \E rows, payouts : Stages(t, rows, payouts)
<1> DEFINE rows == [r \in {} |-> Absent]
           payouts == [p \in {} |-> NoStatement]
<1>1. Write(t, rows, payouts)
  BY DEF RecomputeBalance
<1>2. RowsTyped(rows) /\ PayoutsTyped(payouts)
  BY DEF RowsTyped, PayoutsTyped
<1>3. Legal(rows, payouts)
  BY DEF Legal, KeepsKinds, MovesTogether, KeepsFigures, PaysOut
<1>4. Stages(t, rows, payouts)
  BY <1>1, <1>2, <1>3 DEF Stages
<1>5. QED BY <1>4

LEMMA MarkStages ==
  ASSUME TypeOK, NEW t \in Threads, MarkAvailable(t)
  PROVE  \E rows, payouts : Stages(t, rows, payouts)
<1> DEFINE rows == [r \in tx[t].due |-> [ledger[r] EXCEPT !.status = "AVAILABLE"]]
           payouts == [p \in {} |-> NoStatement]
<1>1. Write(t, rows, payouts) /\ tx[t].pc = "marking"
  BY DEF MarkAvailable
<1>2. tx[t].due \subseteq Rows
  BY <1>1 DEF TypeOK, TxOK, Idle
<1>3. \A r \in tx[t].due : /\ rows[r] \in EntryType /\ Signed(rows[r])
                           /\ rows[r].kind = ledger[r].kind
                           /\ rows[r].status = "AVAILABLE"
  BY <1>2 DEF TypeOK, EntryType, Signed
<1>4. RowsTyped(rows) /\ PayoutsTyped(payouts)
  BY <1>2, <1>3 DEF RowsTyped, PayoutsTyped
<1>5. ASSUME LedgerInv PROVE Legal(rows, payouts)
  <2>1. \A r \in tx[t].due : ledger[r].kind \notin {"NONE", "PAYOUT"}
    BY <1>1, <1>5 DEF LedgerInv, ReadsExist
  <2>2. QED
    BY <1>3, <2>1 DEF Legal, KeepsKinds, MovesTogether, KeepsFigures, PaysOut
<1>6. Stages(t, rows, payouts)
  BY <1>1, <1>4, <1>5 DEF Stages
<1>7. QED BY <1>6

LEMMA ScheduleStages ==
  ASSUME TypeOK, NEW t \in Threads, NEW p \in Payouts, SchedulePayout(t, p)
  PROVE  \E rows, payouts : Stages(t, rows, payouts)
<1> DEFINE E == Eligible(tx[t].periodTo)
           rows == [r \in E |-> [ledger[r] EXCEPT !.status = "SCHEDULED", !.payout = p]]
           payouts == [q \in {p} |-> [status |-> "PENDING", net |-> Net(E)]]
<1>1. Write(t, rows, payouts) /\ OnlyOpen(t, p) /\ payout[p] = NoStatement
  BY Zenon DEF SchedulePayout
<1>2. E \subseteq Rows /\ \A r \in E : ledger[r].status = "AVAILABLE"
  BY DEF Eligible
<1>3. \A r \in Rows : ledger[r].amount \in Int
  BY DEF TypeOK, EntryType
<1>4. Net(E) \in Int
  BY <1>2, <1>3, TotalInt DEF Net
<1> HIDE DEF E
<1>5. \A r \in E : /\ rows[r] \in EntryType /\ Signed(rows[r])
                   /\ rows[r].kind = ledger[r].kind
                   /\ rows[r].status = "SCHEDULED" /\ rows[r].payout = p
  BY <1>2 DEF TypeOK, EntryType, Signed
<1>6. /\ DOMAIN rows = E /\ DOMAIN payouts = {p}
      /\ payouts[p] \in StatementType /\ payouts[p].status = "PENDING"
  BY <1>4 DEF StatementType, OpenStatus
<1> HIDE DEF rows, payouts
<1>7. RowsTyped(rows) /\ PayoutsTyped(payouts)
  BY <1>2, <1>5, <1>6 DEF RowsTyped, PayoutsTyped
<1>8. ASSUME LedgerInv PROVE Legal(rows, payouts)
  <2>1. \A r \in E : ledger[r].kind \notin {"NONE", "PAYOUT"}
    BY <1>2, <1>8 DEF LedgerInv, Kinds
  <2>2. KeepsKinds(rows)
    BY <1>5, <1>6, <2>1 DEF KeepsKinds
  <2>3. MovesTogether(rows, payouts)
    BY <1>5, <1>6 DEF MovesTogether, OpenStatus
  <2>4. KeepsFigures(payouts)
    BY <1>1, <1>6 DEF KeepsFigures, NoStatement
  <2>5. PaysOut(rows, payouts)
    BY <1>5, <1>6, <2>1 DEF PaysOut
  <2>6. QED BY <1>6, <2>2, <2>3, <2>4, <2>5 DEF Legal
<1>9. Stages(t, rows, payouts)
  BY <1>1, <1>6, <1>7, <1>8 DEF Stages
<1>10. QED BY <1>9

\* The statement a transition moves.
LEMMA Moving ==
  ASSUME TypeOK, NEW t \in Threads, tx[t].pc = "moving"
  PROVE  /\ tx[t].payout \in Payouts
         /\ tx[t].to \in {"APPROVED", "PROCESSING", "PAID", "FAILED", "CANCELLED"}
         /\ PayoutsTyped(SetStatus(t)) /\ DOMAIN SetStatus(t) = {tx[t].payout}
         /\ SetStatus(t)[tx[t].payout].status = tx[t].to
         /\ SetStatus(t)[tx[t].payout].net = payout[tx[t].payout].net
         /\ KeepsFigures(SetStatus(t))
<1>1. /\ tx[t].payout \in Payouts
      /\ tx[t].to \in {"APPROVED", "PROCESSING", "PAID", "FAILED", "CANCELLED"}
  BY DEF TypeOK, TxOK, Idle
<1>2. payout[tx[t].payout] \in StatementType
  BY <1>1 DEF TypeOK
<1>3. QED
  BY <1>1, <1>2 DEF SetStatus, PayoutsTyped, StatementType, OpenStatus, KeepsFigures

LEMMA AdvanceStages ==
  ASSUME TypeOK, NEW t \in Threads, Advance(t)
  PROVE  \E rows, payouts : Stages(t, rows, payouts)
<1> DEFINE rows == [r \in {} |-> Absent]
<1>1. /\ Write(t, rows, SetStatus(t)) /\ OnlyOpen(t, tx[t].payout)
      /\ tx[t].pc = "moving" /\ tx[t].to \in {"APPROVED", "PROCESSING"}
  BY DEF Advance
<1>2. RowsTyped(rows)
  BY DEF RowsTyped
<1>3. Legal(rows, SetStatus(t))
  BY <1>1, Moving DEF Legal, KeepsKinds, MovesTogether, PaysOut, OpenStatus
<1>4. Stages(t, rows, SetStatus(t))
  BY <1>1, <1>2, <1>3, Moving DEF Stages
<1>5. QED BY <1>4

LEMMA PayStages ==
  ASSUME TypeOK, NEW t \in Threads, NEW r \in Rows, Pay(t, r)
  PROVE  \E rows, payouts : Stages(t, rows, payouts)
<1> DEFINE p == tx[t].payout
           S == Scheduled(p)
           rows == [x \in S \cup {r} |->
                      IF x = r THEN PayoutRow(p) ELSE [ledger[x] EXCEPT !.status = "PAID"]]
<1>1. /\ Write(t, rows, SetStatus(t)) /\ ledger[r] = Absent
      /\ tx[t].pc = "moving" /\ tx[t].to = "PAID"
  BY DEF Pay, Fresh
<1>2. /\ S \subseteq Rows /\ r \notin S
      /\ \A x \in S : ledger[x].status = "SCHEDULED" /\ ledger[x].payout = p
  BY <1>1 DEF Scheduled, Absent
<1>3. /\ PayoutRow(p) \in EntryType /\ Signed(PayoutRow(p))
      /\ PayoutRow(p).kind = "PAYOUT" /\ PayoutRow(p).status = "PAID"
      /\ PayoutRow(p).payout = p /\ PayoutRow(p).amount = 0 - payout[p].net
  <2>1. p \in Payouts /\ payout[p].net \in Int /\ clock \in 1..MaxClock
    BY <1>1, Moving DEF TypeOK, StatementType
  <2> HIDE DEF p
  <2>2. QED BY <2>1, AmountsAssumption DEF PayoutRow, Entry, EntryType, Signed
<1> HIDE DEF S
<1>4. \A x \in S : /\ rows[x] \in EntryType /\ Signed(rows[x])
                   /\ rows[x].kind = ledger[x].kind
                   /\ rows[x].status = "PAID" /\ rows[x].payout = p
  BY <1>2 DEF TypeOK, EntryType, Signed
<1>5. rows[r] = PayoutRow(p) /\ DOMAIN rows = S \cup {r}
  OBVIOUS
<1> HIDE DEF rows
<1>6. RowsTyped(rows)
  BY <1>2, <1>3, <1>4, <1>5 DEF RowsTyped
<1>7. ASSUME LedgerInv PROVE Legal(rows, SetStatus(t))
  <2>1. \A x \in S : ledger[x].kind \notin {"NONE", "PAYOUT"}
    BY <1>2, <1>7 DEF LedgerInv, Kinds
  <2>2. KeepsKinds(rows)
    BY <1>1, <1>3, <1>4, <1>5, <2>1 DEF KeepsKinds, Absent
  <2>3. MovesTogether(rows, SetStatus(t))
    BY <1>1, <1>3, <1>4, <1>5, Moving DEF MovesTogether, S
  <2>4. PaysOut(rows, SetStatus(t))
    <3>1. \A x \in DOMAIN rows : rows[x].payout = p
      BY <1>3, <1>4, <1>5
    <3>2. r \in DOMAIN rows /\ rows[r].kind = "PAYOUT"
      BY <1>3, <1>5
    <3>3. \A x \in DOMAIN rows : rows[x].kind = "PAYOUT" => x = r
      BY <1>2, <1>3, <1>4, <1>5, <2>1
    <3>4. /\ DOMAIN SetStatus(t) = {p} /\ SetStatus(t)[p].net = payout[p].net
          /\ rows[r].amount = 0 - payout[p].net
      BY <1>1, <1>3, <1>5, Moving
    <3> HIDE DEF p
    <3>5. QED BY <3>1, <3>2, <3>3, <3>4 DEF PaysOut
  <2>5. QED BY <1>1, <2>2, <2>3, <2>4, Moving DEF Legal
<1>8. Stages(t, rows, SetStatus(t))
  BY <1>1, <1>6, <1>7, Moving DEF Stages, OpenStatus
<1>9. QED BY <1>8

LEMMA ReleaseStages ==
  ASSUME TypeOK, NEW t \in Threads, Release(t)
  PROVE  \E rows, payouts : Stages(t, rows, payouts)
<1> DEFINE p == tx[t].payout
           S == HandedBack(p, tx[t].to)
           rows == [r \in S |->
                      [ledger[r] EXCEPT !.status = "AVAILABLE", !.payout = NoPayout]]
<1>1. /\ Write(t, rows, SetStatus(t))
      /\ tx[t].pc = "moving" /\ tx[t].to \in {"FAILED", "CANCELLED"}
  BY DEF Release
<1>2. /\ S = Scheduled(p) /\ S \subseteq Rows
      /\ \A x \in S : ledger[x].status = "SCHEDULED"
  BY DEF HandedBack, Scheduled
<1> HIDE DEF S
<1>3. \A x \in S : /\ rows[x] \in EntryType /\ Signed(rows[x])
                   /\ rows[x].kind = ledger[x].kind /\ rows[x].status = "AVAILABLE"
  BY <1>2 DEF TypeOK, EntryType, Signed
<1>4. DOMAIN rows = S
  OBVIOUS
<1> HIDE DEF rows
<1>5. RowsTyped(rows)
  BY <1>2, <1>3, <1>4 DEF RowsTyped
<1>6. ASSUME LedgerInv PROVE Legal(rows, SetStatus(t))
  <2>1. \A x \in S : ledger[x].kind \notin {"NONE", "PAYOUT"}
    BY <1>2, <1>6 DEF LedgerInv, Kinds
  <2>2. KeepsKinds(rows)
    BY <1>3, <1>4, <2>1 DEF KeepsKinds
  <2>3. MovesTogether(rows, SetStatus(t))
    BY <1>1, <1>2, <1>3, <1>4, Moving DEF MovesTogether
  <2>4. PaysOut(rows, SetStatus(t))
    BY <1>1, <1>3, <1>4, <2>1, Moving DEF PaysOut
  <2>5. QED BY <1>1, <2>2, <2>3, <2>4, Moving DEF Legal
<1>7. Stages(t, rows, SetStatus(t))
  BY <1>1, <1>5, <1>6, Moving DEF Stages, OpenStatus
<1>8. QED BY <1>7

LEMMA ReadsOnly ==
  ASSUME TypeOK, NEW t \in Threads,
         \/ Abort(t)
         \/ \E returned \in SUBSET Rows : FindDue(t, returned)
         \/ \E d \in 1..clock : Preview(t, d)
         \/ \E p \in Payouts,
                    to \in {"APPROVED", "PROCESSING", "PAID", "FAILED", "CANCELLED"} :
              LoadPayout(t, p, to)
  PROVE  \E x : Reads(t, x)
<1>1. CASE Abort(t)
  <2>1. Reads(t, Idle)
    BY <1>1 DEF Abort, Reads, TxOK, Idle
  <2>2. QED BY <2>1
<1>2. CASE \E returned \in SUBSET Rows : FindDue(t, returned)
  <2>1. PICK returned \in SUBSET Rows : FindDue(t, returned)
    BY <1>2
  <2>2. Reads(t, [pc |-> "marking", due |-> Due \ returned])
    BY <2>1 DEF FindDue, Due, Reads, TxOK
  <2>3. QED BY <2>2
<1>3. CASE \E d \in 1..clock : Preview(t, d)
  <2>1. PICK d \in 1..clock : Preview(t, d)
    BY <1>3
  <2>2. d \in 1..MaxClock
    BY AmountsAssumption DEF TypeOK
  <2>3. Reads(t, [pc |-> "generating", periodTo |-> d])
    BY <2>1, <2>2 DEF Preview, Reads, TxOK
  <2>4. QED BY <2>3
<1>4. CASE \E p \in Payouts, to \in {"APPROVED", "PROCESSING", "PAID", "FAILED", "CANCELLED"} :
             LoadPayout(t, p, to)
  <2>1. PICK p \in Payouts, to \in {"APPROVED", "PROCESSING", "PAID", "FAILED", "CANCELLED"} :
          LoadPayout(t, p, to)
    BY <1>4
  <2>2. payout[p].status # "ABSENT"
    BY <2>1 DEF LoadPayout, PayoutTransitions
  <2>3. Reads(t, [pc |-> "moving", payout |-> p, to |-> to])
    BY <2>1, <2>2 DEF LoadPayout, Reads, TxOK
  <2>4. QED BY <2>3
<1>5. QED BY <1>1, <1>2, <1>3, <1>4

LEMMA StepShape ==
  ASSUME TypeOK, Next
  PROVE  \/ \E t \in Threads : Commit(t)
         \/ \E t \in Threads : \E x : Reads(t, x)
         \/ \E t \in Threads : \E rows, payouts : Stages(t, rows, payouts)
         \/ NextDay
<1>1. CASE NextDay
  BY <1>1
<1>2. ASSUME NEW t \in Threads, Commit(t)
      PROVE  \E u \in Threads : Commit(u)
  BY <1>2
<1>3. ASSUME NEW t \in Threads,
             \/ Abort(t)
             \/ \E returned \in SUBSET Rows : FindDue(t, returned)
             \/ \E d \in 1..clock : Preview(t, d)
             \/ \E p \in Payouts,
                    to \in {"APPROVED", "PROCESSING", "PAID", "FAILED", "CANCELLED"} :
                  LoadPayout(t, p, to)
      PROVE  \E u \in Threads : \E x : Reads(u, x)
  BY <1>3, ReadsOnly
<1>4. ASSUME NEW t \in Threads,
             \/ \E r \in Rows :
                  \/ \E a \in Amounts, at \in 1..MaxClock : RecordEarnings(t, r, a, at)
                  \/ \E e \in Rows : \E s \in 1..Remaining(e) : ReverseEarnings(t, r, e, s)
                  \/ \E a \in Adjustments : RecordAdjustment(t, r, a)
                  \/ Pay(t, r)
             \/ RecomputeBalance(t) \/ MarkAvailable(t)
             \/ \E p \in Payouts : SchedulePayout(t, p)
             \/ Advance(t) \/ Release(t)
      PROVE  \E u \in Threads : \E rows, payouts : Stages(u, rows, payouts)
  <2>1. \E rows, payouts : Stages(t, rows, payouts)
    BY <1>4, RecordsStage, PayStages, RecomputeStages, MarkStages, ScheduleStages,
       AdvanceStages, ReleaseStages
  <2>2. QED BY <2>1
<1>5. QED BY <1>1, <1>2, <1>3, <1>4 DEF Next

\* The history of overlaps only grows, and grows when a transaction begins beside
\* another.
LEMMA OverlapStep ==
  ASSUME TypeOK, [Next]_vars
  PROVE  overlapped' \in BOOLEAN /\ (overlapped => overlapped')
  BY DEF TypeOK, Next, vars, Commit, Abort, NextDay, Goes, Begins, Insert, RecordEarnings,
     ReverseEarnings, RecordAdjustment, RecomputeBalance, FindDue, MarkAvailable, Preview,
     SchedulePayout, LoadPayout, Advance, Pay, Release

LEMMA TypeStep ==
  ASSUME TypeOK, [Next]_vars
  PROVE  TypeOK'
<1>1. CASE UNCHANGED vars
  BY <1>1 DEF TypeOK, vars, tables
<1>2. ASSUME NEW t \in Threads, Commit(t) PROVE TypeOK'
  BY <1>2, CommitTyped
<1>3. ASSUME NEW t \in Threads, NEW x, Reads(t, x) PROVE TypeOK'
  BY <1>3, ReadTyped, OverlapStep DEF Reads
<1>4. ASSUME NEW t \in Threads, NEW rows, NEW payouts, Stages(t, rows, payouts)
      PROVE  TypeOK'
  BY <1>4, WriteTyped, OverlapStep DEF Stages
<1>5. CASE NextDay
  <2>1. clock' \in 1..MaxClock
    BY <1>5, AmountsAssumption DEF NextDay, TypeOK
  <2>2. QED BY <1>5, <2>1 DEF NextDay, TypeOK, tables
<1>6. QED BY <1>1, <1>2, <1>3, <1>4, <1>5, StepShape

\* The tables keep their types, and reversals are debits, for any number of
\* rows, statements and threads (features/finance).
THEOREM TypeCorrect == Spec => []TypeOK
<1>1. Init => TypeOK
  <2>1. ASSUME Init PROVE TypeOK
    <3>1. ledger \in [Rows -> EntryType] /\ \A r \in Rows : Signed(ledger[r])
      BY <2>1, AmountsAssumption DEF Init, Absent, EntryType, Signed
    <3>2. \A r \in Rows : ledger[r].amount \in Int
      BY <3>1 DEF EntryType
    <3>3. balance \in BalanceType
      BY <2>1, <3>2, BalanceTyped DEF Init
    <3>4. payout \in [Payouts -> StatementType] /\ clock \in 1..MaxClock
      BY <2>1, AmountsAssumption DEF Init, NoStatement, StatementType
    <3>5. DOMAIN tx = Threads /\ \A t \in Threads : TxOK(tx[t])
      BY <2>1 DEF Init, TxOK
    <3>6. overlapped \in BOOLEAN
      BY <2>1 DEF Init
    <3>7. QED BY <3>1, <3>3, <3>4, <3>5, <3>6 DEF TypeOK
  <2>2. QED BY <2>1
<1>2. TypeOK /\ [Next]_vars => TypeOK'
  BY TypeStep
<1>3. QED BY <1>1, <1>2, PTL DEF Spec

----------------------------------------------------------------------------
(* The ledger.  A commit is the only step that changes what others see; what *)
(* they have staged or read stays legal, because they hold other locks.      *)

LEMMA CommitView ==
  ASSUME TypeOK, NEW t \in Threads, Commit(t)
  PROVE  /\ Staged(t) /\ RowsTyped(tx[t].rows) /\ PayoutsTyped(tx[t].payouts)
         /\ \A r \in Rows : ledger'[r] =
              IF r \in DOMAIN tx[t].rows THEN tx[t].rows[r] ELSE ledger[r]
         /\ \A p \in Payouts : payout'[p] =
              IF p \in DOMAIN tx[t].payouts THEN tx[t].payouts[p] ELSE payout[p]
         /\ \A u \in Threads : tx'[u] = IF u = t THEN Idle ELSE tx[u]
<1>1. RowsTyped(tx[t].rows) /\ PayoutsTyped(tx[t].payouts)
  BY DEF TypeOK, TxOK, Commit, Staged, Idle, RowsTyped, PayoutsTyped
<1>2. QED BY <1>1 DEF Commit, Overlay, TypeOK

LEMMA StagedTyped ==
  ASSUME TypeOK, NEW t \in Threads, Staged(t)
  PROVE  RowsTyped(tx[t].rows) /\ PayoutsTyped(tx[t].payouts)
BY DEF TypeOK, TxOK, Staged, Idle, RowsTyped, PayoutsTyped

\* What another transaction has staged stays legal.
LEMMA LegalFrame ==
  ASSUME TypeOK, LedgerInv, NEW t \in Threads, Commit(t),
         NEW u \in Threads, u # t, Staged(u)
  PROVE  Legal(tx[u].rows, tx[u].payouts)'
<1> DEFINE R == tx[t].rows
           P == tx[t].payouts
           Q == tx[u].rows
           O == tx[u].payouts
<1>1. /\ \A r \in Rows : ledger'[r] = IF r \in DOMAIN R THEN R[r] ELSE ledger[r]
      /\ \A p \in Payouts : payout'[p] = IF p \in DOMAIN P THEN P[p] ELSE payout[p]
      /\ tx'[u] = tx[u] /\ Staged(t)
  BY CommitView
<1>2. /\ DOMAIN Q \subseteq Rows /\ DOMAIN O \subseteq Payouts
      /\ DOMAIN R \subseteq Rows /\ DOMAIN P \subseteq Payouts
  BY <1>1, StagedTyped DEF RowsTyped, PayoutsTyped
<1>3. DOMAIN R \cap DOMAIN Q = {} /\ DOMAIN P \cap DOMAIN O = {}
  BY <1>1 DEF LedgerInv, LocksDisjoint
<1>4. Legal(R, P) /\ Legal(Q, O)
  BY <1>1 DEF LedgerInv, StagedLegal
<1>5. /\ \A r \in DOMAIN Q : ledger'[r] = ledger[r]
      /\ \A p \in DOMAIN O : payout'[p] = payout[p]
  BY <1>1, <1>2, <1>3
<1>6. \A p \in DOMAIN O : Scheduled(p)' \subseteq Scheduled(p)
  <2>1. SUFFICES ASSUME NEW p \in DOMAIN O, NEW r \in Scheduled(p)' PROVE r \in Scheduled(p)
    OBVIOUS
  <2>2. r \in Rows /\ ledger'[r].payout = p /\ ledger'[r].status = "SCHEDULED"
    BY <2>1 DEF Scheduled
  <2>3. r \notin DOMAIN R
    BY <1>1, <1>3, <1>4, <2>1, <2>2 DEF Legal, MovesTogether
  <2>4. QED BY <1>1, <2>2, <2>3 DEF Scheduled
<1> HIDE DEF R, P
<1>7. KeepsKinds(Q)'
  BY <1>1, <1>4, <1>5 DEF Legal, KeepsKinds
<1>8. MovesTogether(Q, O)'
  BY <1>1, <1>4, <1>6 DEF Legal, MovesTogether
<1>9. KeepsFigures(O)'
  BY <1>1, <1>4, <1>5 DEF Legal, KeepsFigures
<1>10. PaysOut(Q, O)'
  BY <1>1, <1>4 DEF Legal, PaysOut
<1>11. (\A p, q \in DOMAIN O : p = q)'
  BY <1>1, <1>4 DEF Legal
<1>12. QED BY <1>7, <1>8, <1>9, <1>10, <1>11 DEF Legal

\* A commit leaves the tables consistent.
LEMMA CommitConsistent ==
  ASSUME TypeOK, LedgerInv, NEW t \in Threads, Commit(t)
  PROVE  (Kinds /\ Statements /\ ScheduledIsOpen /\ PaidIsPaidOut)'
<1> DEFINE R == tx[t].rows
           P == tx[t].payouts
<1>1. /\ \A r \in Rows : ledger'[r] = IF r \in DOMAIN R THEN R[r] ELSE ledger[r]
      /\ \A p \in Payouts : payout'[p] = IF p \in DOMAIN P THEN P[p] ELSE payout[p]
      /\ Staged(t) /\ DOMAIN R \subseteq Rows /\ DOMAIN P \subseteq Payouts
  BY CommitView DEF RowsTyped, PayoutsTyped
<1>2. /\ KeepsKinds(R) /\ MovesTogether(R, P) /\ KeepsFigures(P) /\ PaysOut(R, P)
  BY <1>1 DEF LedgerInv, StagedLegal, Legal
<1>3. Kinds /\ Statements /\ ScheduledIsOpen /\ PaidIsPaidOut
  BY DEF LedgerInv
<1> HIDE DEF R, P
<1>4. Kinds'
  BY <1>1, <1>2, <1>3 DEF Kinds, KeepsKinds
<1>5. Statements'
  BY <1>1, <1>2, <1>3 DEF Statements, KeepsFigures, PaysOut
<1>6. ScheduledIsOpen'
  <2>1. SUFFICES ASSUME NEW r \in Rows, ledger'[r].status = "SCHEDULED"
                 PROVE  /\ ledger'[r].payout \in Payouts
                        /\ payout'[ledger'[r].payout].status \in OpenStatus
    BY DEF ScheduledIsOpen
  <2>2. CASE r \in DOMAIN R
    BY <1>1, <1>2, <2>1, <2>2 DEF MovesTogether
  <2>3. CASE r \notin DOMAIN R
    <3>1. /\ ledger'[r] = ledger[r] /\ ledger[r].payout \in Payouts
          /\ payout[ledger[r].payout].status \in OpenStatus
      BY <1>1, <1>3, <2>1, <2>3 DEF ScheduledIsOpen
    <3>2. r \in Scheduled(ledger[r].payout)
      BY <2>1, <3>1 DEF Scheduled
    <3>3. QED BY <1>1, <1>2, <2>3, <3>1, <3>2 DEF MovesTogether
  <2>4. QED BY <2>2, <2>3
\* PAYOUT rows are nobody's to write, so those there were are there.
<1>7. \A p : \A r \in PayoutRows(p) : ledger'[r] = ledger[r] /\ r \in PayoutRows(p)'
  BY <1>1, <1>2 DEF PayoutRows, KeepsKinds
<1>8. \A p : \A r \in DOMAIN R :
        R[r].kind = "PAYOUT" /\ R[r].payout = p => r \in PayoutRows(p)'
  BY <1>1 DEF PayoutRows
<1>9. PaidIsPaidOut'
  <2>1. ASSUME NEW p \in Payouts, payout'[p].status = "PAID"
        PROVE  PayoutRows(p)' # {}
    <3>1. CASE p \in DOMAIN P
      <4>1. PICK r \in DOMAIN R : R[r].kind = "PAYOUT" /\ R[r].payout = p
        BY <1>1, <1>2, <2>1, <3>1 DEF PaysOut
      <4>2. QED BY <1>8, <4>1
    <3>2. CASE p \notin DOMAIN P
      BY <1>1, <1>3, <1>7, <2>1, <3>2 DEF PaidIsPaidOut
    <3>3. QED BY <3>1, <3>2
  <2>2. ASSUME NEW r \in PaidRows', NEW p, p = ledger'[r].payout
        PROVE  PayoutRows(p)' # {}
    <3>1. r \in Rows /\ ledger'[r].status = "PAID" /\ ledger'[r].kind # "PAYOUT"
      BY <2>2 DEF PaidRows
    <3>2. CASE r \in DOMAIN R
      <4>1. ledger'[r] = R[r]
        BY <1>1, <3>2
      <4>2. PICK x \in DOMAIN R : R[x].kind = "PAYOUT" /\ R[x].payout = R[r].payout
        BY <1>2, <3>1, <3>2, <4>1 DEF PaysOut
      <4>3. R[x].payout = p
        BY <2>2, <4>1, <4>2
      <4>4. QED BY <1>8, <4>2, <4>3
    <3>3. CASE r \notin DOMAIN R
      <4>1. ledger'[r] = ledger[r] /\ r \in PaidRows
        BY <1>1, <3>1, <3>3 DEF PaidRows
      <4>2. PayoutRows(p) # {}
        BY <1>3, <2>2, <4>1 DEF PaidIsPaidOut
      <4>3. QED BY <1>7, <4>2
    <3>4. QED BY <3>2, <3>3
  <2>3. ASSUME NEW p \in Payouts, NEW r \in PayoutRows(p)'
        PROVE  ledger'[r].amount = 0 - payout'[p].net
    <3>1. r \in Rows /\ ledger'[r].kind = "PAYOUT" /\ ledger'[r].payout = p
      BY <2>3 DEF PayoutRows
    <3>2. CASE r \in DOMAIN R
      BY <1>1, <1>2, <3>1, <3>2 DEF PaysOut
    <3>3. CASE r \notin DOMAIN R
      <4>1. ledger'[r] = ledger[r] /\ r \in PayoutRows(p) /\ ledger[r].amount = 0 - payout[p].net
        BY <1>1, <1>3, <3>1, <3>3 DEF PayoutRows, PaidIsPaidOut
      <4>2. payout[p].status # "ABSENT"
        BY <1>3, <3>1, <4>1 DEF Statements
      <4>3. payout'[p].net = payout[p].net
        BY <1>1, <1>2, <4>2 DEF KeepsFigures
      <4>4. QED BY <4>1, <4>3
    <3>4. QED BY <3>2, <3>3
  <2>4. \A r \in PaidRows' : { x \in Rows : ledger'[x].kind = "PAYOUT" /\
                                ledger'[x].payout = ledger'[r].payout } # {}
    BY <2>2 DEF PayoutRows
  <2>5. QED BY <2>1, <2>3, <2>4 DEF PaidIsPaidOut, PayoutRows
<1>10. QED BY <1>4, <1>5, <1>6, <1>9

LEMMA CommitReads ==
  ASSUME TypeOK, LedgerInv, NEW t \in Threads, Commit(t)
  PROVE  ReadsExist'
<1> DEFINE R == tx[t].rows
           P == tx[t].payouts
<1>1. /\ \A r \in Rows : ledger'[r] = IF r \in DOMAIN R THEN R[r] ELSE ledger[r]
      /\ \A p \in Payouts : payout'[p] = IF p \in DOMAIN P THEN P[p] ELSE payout[p]
      /\ \A u \in Threads : tx'[u] = IF u = t THEN Idle ELSE tx[u]
      /\ KeepsKinds(R) /\ KeepsFigures(P)
  BY CommitView DEF LedgerInv, StagedLegal, Legal
<1> HIDE DEF R, P
<1>2. SUFFICES ASSUME NEW u \in Threads, u # t
               PROVE  /\ tx[u].pc = "marking" =>
                           \A r \in tx[u].due : ledger'[r].kind \notin {"NONE", "PAYOUT"}
                      /\ tx[u].pc = "moving" => payout'[tx[u].payout].status # "ABSENT"
  BY <1>1 DEF ReadsExist, Idle
<1>3. CASE tx[u].pc = "marking"
  <2>1. tx[u].due \subseteq Rows
    BY <1>3 DEF TypeOK, TxOK, Idle
  <2>2. \A r \in tx[u].due : ledger[r].kind \notin {"NONE", "PAYOUT"}
    BY <1>3 DEF LedgerInv, ReadsExist
  <2>3. QED BY <1>1, <1>3, <2>1, <2>2 DEF KeepsKinds
<1>4. CASE tx[u].pc = "moving"
  <2>1. tx[u].payout \in Payouts
    BY <1>4, Moving
  <2>2. payout[tx[u].payout].status # "ABSENT"
    BY <1>4 DEF LedgerInv, ReadsExist
  <2>3. QED BY <1>1, <1>4, <2>1, <2>2 DEF KeepsFigures
<1>5. QED BY <1>3, <1>4

LEMMA LedgerStep ==
  ASSUME TypeOK, LedgerInv, [Next]_vars
  PROVE  LedgerInv'
<1>1. ASSUME UNCHANGED <<ledger, payout>>
      PROVE  /\ (Kinds /\ Statements /\ ScheduledIsOpen /\ PaidIsPaidOut)'
             /\ \A u \in Threads : tx'[u] = tx[u] /\ Staged(u) =>
                  Staged(u)' /\ Legal(tx[u].rows, tx[u].payouts)'
  <2>1. (Kinds /\ Statements /\ ScheduledIsOpen /\ PaidIsPaidOut)'
    BY <1>1 DEF LedgerInv, Kinds, Statements, ScheduledIsOpen, PaidIsPaidOut,
                PayoutRows, PaidRows
  <2>2. ASSUME NEW u \in Threads, tx'[u] = tx[u], Staged(u)
        PROVE  Staged(u)' /\ Legal(tx[u].rows, tx[u].payouts)'
    <3>1. Legal(tx[u].rows, tx[u].payouts)
      BY <2>2 DEF LedgerInv, StagedLegal
    <3>2. QED
      BY <1>1, <2>2, <3>1 DEF Staged, Legal, KeepsKinds, MovesTogether, Scheduled,
                              KeepsFigures, PaysOut
  <2>3. QED BY <2>1, <2>2
<1>2. CASE UNCHANGED vars \/ NextDay
  <2>1. UNCHANGED <<ledger, payout, tx>>
    BY <1>2 DEF vars, tables, NextDay
  <2>2. StagedLegal'
    BY <1>1, <2>1 DEF StagedLegal, Staged
  <2>3. LocksDisjoint' /\ ReadsExist'
    BY <2>1 DEF LedgerInv, LocksDisjoint, ReadsExist, Staged
  <2>4. QED BY <1>1, <2>1, <2>2, <2>3 DEF LedgerInv
<1>3. ASSUME NEW t \in Threads, NEW x, Reads(t, x) PROVE LedgerInv'
  <2>1. /\ UNCHANGED <<ledger, payout>> /\ ~Staged(t)'
        /\ \A u \in Threads : tx'[u] = IF u = t THEN x ELSE tx[u]
    BY <1>3 DEF Reads, tables, TypeOK, Staged
  <2>2. StagedLegal'
    BY <1>1, <2>1 DEF StagedLegal, Staged
  <2>3. LocksDisjoint'
    BY <2>1 DEF LedgerInv, LocksDisjoint, Staged
  <2>4. ReadsExist'
    <3>1. x.pc = "marking" => \A r \in x.due : ledger[r].kind \notin {"NONE", "PAYOUT"}
      BY <1>3 DEF Reads, LedgerInv, Kinds, TxOK, Idle
    <3>2. x.pc = "moving" => payout[x.payout].status # "ABSENT"
      BY <1>3 DEF Reads
    <3>3. QED BY <2>1, <3>1, <3>2 DEF LedgerInv, ReadsExist
  <2>5. QED BY <1>1, <2>1, <2>2, <2>3, <2>4 DEF LedgerInv
<1>4. ASSUME NEW t \in Threads, NEW rows, NEW payouts, Stages(t, rows, payouts)
      PROVE  LedgerInv'
  <2>1. PICK b : tx' = [tx EXCEPT ![t] = [pc |-> "staged", rows |-> rows,
                                          payouts |-> payouts, balance |-> b]]
    BY <1>4 DEF Stages, Write
  <2>2. /\ UNCHANGED <<ledger, payout>> /\ Staged(t)' /\ tx'[t].pc = "staged"
        /\ tx'[t].rows = rows /\ tx'[t].payouts = payouts
        /\ \A u \in Threads \ {t} : tx'[u] = tx[u]
    BY <1>4, <2>1 DEF Stages, Write, tables, TypeOK, Staged
  <2>3. Legal(tx[t].rows, tx[t].payouts)'
    <3>1. Legal(rows, payouts)
      BY <1>4 DEF Stages
    <3>2. QED
      BY <2>2, <3>1 DEF Legal, KeepsKinds, MovesTogether, Scheduled, KeepsFigures, PaysOut
  <2>4. StagedLegal'
    BY <1>1, <2>2, <2>3 DEF StagedLegal, Staged
  <2>5. LocksDisjoint'
    <3>1. \A u \in Threads \ {t} : Staged(u) =>
            /\ DOMAIN rows \cap DOMAIN tx[u].rows = {}
            /\ DOMAIN payouts \cap DOMAIN tx[u].payouts = {}
      BY <1>4 DEF Stages, Write
    <3>2. QED BY <2>2, <3>1 DEF LedgerInv, LocksDisjoint, Staged
  <2>6. ReadsExist'
    BY <2>2 DEF LedgerInv, ReadsExist
  <2>7. QED BY <1>1, <2>2, <2>4, <2>5, <2>6 DEF LedgerInv
<1>5. ASSUME NEW t \in Threads, Commit(t) PROVE LedgerInv'
  <2>1. \A u \in Threads : tx'[u] = IF u = t THEN Idle ELSE tx[u]
    BY <1>5, CommitView
  <2>2. StagedLegal'
    BY <1>5, <2>1, LegalFrame DEF StagedLegal, Staged, Idle
  <2>3. LocksDisjoint'
    BY <2>1 DEF LedgerInv, LocksDisjoint, Staged, Idle
  <2>4. QED BY <1>5, <2>2, <2>3, CommitConsistent, CommitReads DEF LedgerInv
<1>6. QED BY <1>2, <1>3, <1>4, <1>5, StepShape

LEMMA LedgerInvariant == Spec => []LedgerInv
<1>1. Init => LedgerInv
  <2>1. ASSUME Init PROVE LedgerInv
    <3>1. /\ \A r \in Rows : ledger[r].kind = "NONE" /\ ledger[r].status = "NONE"
          /\ \A p \in Payouts : payout[p].status = "ABSENT"
          /\ \A t \in Threads : tx[t].pc = "idle"
      BY <2>1 DEF Init, Absent, NoStatement, Idle
    <3>2. QED
      BY <3>1 DEF LedgerInv, StagedLegal, LocksDisjoint, ReadsExist, Staged, Kinds,
                  Statements, ScheduledIsOpen, PaidIsPaidOut, PaidRows, PayoutRows
  <2>2. QED BY <2>1
<1>2. TypeOK /\ LedgerInv /\ [Next]_vars => LedgerInv'
  BY LedgerStep
<1>3. QED BY <1>1, <1>2, TypeCorrect, PTL DEF Spec

\* However transactions overlap, a scheduled row waits for a statement that is
\* open: transitionPayout hands back or pays all rows of one it closes.
THEOREM NoRowLeftBehind == Spec => []ScheduledIsOpen
<1>1. LedgerInv => ScheduledIsOpen
  BY DEF LedgerInv
<1>2. QED BY <1>1, LedgerInvariant, PTL

\* However transactions overlap, a PAID statement and a PAID row have a PAYOUT
\* row, and each of these takes the statement's net off the ledger.
THEOREM WhatIsPaidWasPaidOut == Spec => []PaidIsPaidOut
<1>1. LedgerInv => PaidIsPaidOut
  BY DEF LedgerInv
<1>2. QED BY <1>1, LedgerInvariant, PTL

----------------------------------------------------------------------------
(* Open statements.  OneOpens is what the partial unique index keeps, with   *)
(* the statements that are being opened counted in.                          *)

LEMMA OpensStep ==
  ASSUME TypeOK, LedgerInv, OneOpens, [Next]_vars
  PROVE  OneOpens'
<1>1. CASE UNCHANGED vars \/ NextDay
  <2>1. UNCHANGED <<payout, tx>>
    BY <1>1 DEF vars, tables, NextDay
  <2>2. QED BY <2>1 DEF OneOpens, Opens, Staged
<1>2. ASSUME NEW t \in Threads, NEW x, Reads(t, x) PROVE OneOpens'
  <2>1. /\ UNCHANGED payout /\ ~Staged(t)'
        /\ \A u \in Threads : tx'[u] = IF u = t THEN x ELSE tx[u]
    BY <1>2 DEF Reads, tables, TypeOK, Staged
  <2>2. QED BY <2>1 DEF OneOpens, Opens, Staged
<1>3. ASSUME NEW t \in Threads, NEW rows, NEW payouts, Stages(t, rows, payouts)
      PROVE  OneOpens'
  <2>1. PICK b : tx' = [tx EXCEPT ![t] = [pc |-> "staged", rows |-> rows,
                                          payouts |-> payouts, balance |-> b]]
    BY <1>3 DEF Stages, Write
  <2>2. /\ UNCHANGED payout /\ tx'[t].pc = "staged" /\ tx'[t].payouts = payouts
        /\ \A u \in Threads \ {t} : tx'[u] = tx[u]
    BY <1>3, <2>1 DEF Stages, Write, tables, TypeOK
  <2>3. \A p \in DOMAIN payouts : payouts[p].status \in OpenStatus =>
          /\ \A q \in Payouts : payout[q].status \in OpenStatus => p = q
          /\ \A u \in Threads \ {t}, q \in Payouts : ~Opens(u, q)
    BY <1>3 DEF Stages, OnlyOpen, Opens
  <2>4. \A u \in Threads, p \in Payouts : Opens(u, p)' <=>
          IF u = t THEN p \in DOMAIN payouts /\ payouts[p].status \in OpenStatus
          ELSE Opens(u, p)
    BY <2>2 DEF Opens, Staged
  <2>5. QED BY <2>2, <2>3, <2>4 DEF OneOpens
<1>4. ASSUME NEW t \in Threads, Commit(t) PROVE OneOpens'
  <2>1. /\ \A p \in Payouts : payout'[p] =
             IF p \in DOMAIN tx[t].payouts THEN tx[t].payouts[p] ELSE payout[p]
        /\ \A u \in Threads : tx'[u] = IF u = t THEN Idle ELSE tx[u]
        /\ Staged(t)
    BY <1>4, CommitView
  <2>2. \A p, q \in DOMAIN tx[t].payouts : p = q
    BY <2>1 DEF LedgerInv, StagedLegal, Legal
  <2>3. \A u \in Threads, p \in Payouts : Opens(u, p)' => u # t /\ Opens(u, p)
    BY <2>1 DEF Opens, Staged, Idle
  <2>4. \A p \in Payouts : payout'[p].status \in OpenStatus =>
          Opens(t, p) \/ (p \notin DOMAIN tx[t].payouts /\ payout[p].status \in OpenStatus)
    BY <2>1 DEF Opens
  <2>5. QED BY <2>2, <2>3, <2>4 DEF OneOpens, Opens
<1>5. QED BY <1>1, <1>2, <1>3, <1>4, StepShape

\* A seller has at most one open statement, whatever is generated and moved at
\* the same time (generatePayout; the index SellerPayout_open_per_seller).
THEOREM OneStatementAtATime == Spec => []OneOpenStatement
<1>1. Init => OneOpens
  BY DEF Init, OneOpens, Opens, Staged, Idle, NoStatement, OpenStatus
<1>2. TypeOK /\ LedgerInv /\ OneOpens /\ [Next]_vars => OneOpens'
  BY OpensStep
<1>3. OneOpens => OneOpenStatement
  <2> DEFINE open == { p \in Payouts : payout[p].status \in OpenStatus }
  <2>1. SUFFICES ASSUME OneOpens PROVE Cardinality(open) <= 1
    BY DEF OneOpenStatement
  <2>2. CASE open = {}
    BY <2>2, FS_EmptySet
  <2>3. CASE open # {}
    <3>1. PICK p \in open : TRUE
      BY <2>3
    <3>2. open = {p}
      BY <2>1, <3>1 DEF OneOpens
    <3>3. Cardinality(open) = 1
      BY <3>2, FS_Singleton
    <3>4. QED BY <3>3
  <2>4. QED BY <2>2, <2>3
<1>4. QED BY <1>1, <1>2, <1>3, TypeCorrect, LedgerInvariant, PTL DEF Spec

----------------------------------------------------------------------------
(* As long as no two transactions have overlapped.  Apart is what makes the  *)
(* minimum and the balance inductive: one transaction at most is in flight,  *)
(* what it has summed up is still true, and what it will write agrees.       *)

Alone(t) == \A u \in Threads \ {t} : tx[u] = Idle

GoodFigures(payouts) == \A p \in DOMAIN payouts : payouts[p].net > MinPayout

Apart ==
  ~overlapped =>
    /\ \A t \in Threads : tx[t] # Idle => Alone(t)
    /\ balance = Balance(ledger)
    /\ \A p \in Payouts : payout[p].status # "ABSENT" => payout[p].net > MinPayout
    /\ \A t \in Threads :
         /\ tx[t].pc = "generating" => Total(ledger, Eligible(tx[t].periodTo)) > MinPayout
         /\ Staged(t) => /\ tx[t].balance = Balance(Overlay(ledger, tx[t].rows))
                         /\ GoodFigures(tx[t].payouts)

\* What a transaction that stages does as long as it is the only one.
StagesAlone(t, rows, payouts) ==
  /\ tx' = [tx EXCEPT ![t] = [pc |-> "staged", rows |-> rows, payouts |-> payouts,
                              balance |-> Balance(Overlay(ledger, rows))]]
  /\ UNCHANGED tables
  /\ Alone(t) /\ GoodFigures(payouts)

\* What one that only reads does.
ReadsAlone(t, x) ==
  /\ tx' = [tx EXCEPT ![t] = x]
  /\ UNCHANGED tables
  /\ x = Idle \/ Alone(t)
  /\ x.pc # "staged"
  /\ x.pc = "generating" => Total(ledger, Eligible(x.periodTo)) > MinPayout

LEMMA BeginsAlone ==
  ASSUME NEW t \in Threads, Begins(t), ~overlapped'
  PROVE  Alone(t)
  BY DEF Begins, Alone

LEMMA WritesAlone ==
  ASSUME NEW t \in Threads, NEW rows, NEW payouts, Write(t, rows, payouts), Alone(t),
         GoodFigures(payouts)
  PROVE  StagesAlone(t, rows, payouts)
  BY DEF Write, StagesAlone, OwnView

LEMMA NoFigures == GoodFigures([p \in {} |-> NoStatement])
  BY DEF GoodFigures

\* A transaction that writes nothing but ledger rows.
LEMMA RowsAlone ==
  ASSUME NEW t \in Threads, ~overlapped', Apart, ~overlapped,
         \/ \E r \in Rows :
              \/ \E a \in Amounts, at \in 1..MaxClock : RecordEarnings(t, r, a, at)
              \/ \E e \in Rows : \E n \in 1..Remaining(e) : ReverseEarnings(t, r, e, n)
              \/ \E a \in Adjustments : RecordAdjustment(t, r, a)
         \/ RecomputeBalance(t) \/ MarkAvailable(t)
  PROVE  \E rows, payouts : StagesAlone(t, rows, payouts)
<1>1. CASE \E r \in Rows : \E row : Insert(t, r, row)
  BY <1>1, BeginsAlone, WritesAlone, NoFigures DEF Insert
<1>2. CASE RecomputeBalance(t)
  BY <1>2, BeginsAlone, WritesAlone, NoFigures DEF RecomputeBalance
<1>3. CASE MarkAvailable(t)
  <2>1. Alone(t)
    BY <1>3 DEF MarkAvailable, Apart, Idle
  <2> QED BY <1>3, <2>1, WritesAlone, NoFigures DEF MarkAvailable
<1>4. QED
  BY <1>1, <1>2, <1>3 DEF RecordEarnings, ReverseEarnings, RecordAdjustment

\* Generating a statement, and moving one.
LEMMA StatementsAlone ==
  ASSUME NEW t \in Threads, TypeOK, LedgerInv, Apart, ~overlapped,
         \/ \E p \in Payouts : SchedulePayout(t, p)
         \/ Advance(t) \/ Release(t) \/ \E r \in Rows : Pay(t, r)
  PROVE  \E rows, payouts : StagesAlone(t, rows, payouts)
<1>1. tx[t].pc \in {"generating", "moving"}
  BY DEF SchedulePayout, Advance, Release, Pay
<1>2. Alone(t)
  BY <1>1 DEF Apart, Idle
<1>3. CASE \E p \in Payouts : SchedulePayout(t, p)
  <2>1. PICK p \in Payouts : SchedulePayout(t, p)
    BY <1>3
  <2>2. PICK rows : rows = Eligible(tx[t].periodTo)
    OBVIOUS
  <2>3. Net(rows) > MinPayout
    BY <2>1, <2>2 DEF Net, SchedulePayout, Apart
  <2>4. PICK payouts : payouts = [q \in {p} |-> [status |-> "PENDING", net |-> Net(rows)]]
    OBVIOUS
  <2>5. GoodFigures(payouts)
    BY <2>3, <2>4 DEF GoodFigures
  <2>6. \E changed : Write(t, changed, payouts)
    BY <2>1, <2>2, <2>4 DEF SchedulePayout
  <2> QED BY <1>2, <2>5, <2>6, WritesAlone
<1>4. CASE Advance(t) \/ Release(t) \/ \E r \in Rows : Pay(t, r)
  <2>1. tx[t].pc = "moving"
    BY <1>4 DEF Advance, Release, Pay
  <2>2. tx[t].payout \in Payouts /\ payout[tx[t].payout].status # "ABSENT"
    BY <2>1 DEF TypeOK, TxOK, Idle, LedgerInv, ReadsExist
  <2>3. payout[tx[t].payout].net > MinPayout
    BY <2>2 DEF Apart
  <2>4. GoodFigures(SetStatus(t))
    BY <2>2, <2>3 DEF GoodFigures, SetStatus, TypeOK, StatementType
  <2>5. \E changed : Write(t, changed, SetStatus(t))
    BY <1>4 DEF Advance, Release, Pay
  <2> QED BY <1>2, <2>4, <2>5, WritesAlone
<1> QED BY <1>3, <1>4

LEMMA ReadingAlone ==
  ASSUME NEW t \in Threads, ~overlapped',
         \/ Abort(t)
         \/ \E returned \in SUBSET Rows : FindDue(t, returned)
         \/ \E d \in 1..clock : Preview(t, d)
         \/ \E p \in Payouts,
                    to \in {"APPROVED", "PROCESSING", "PAID", "FAILED", "CANCELLED"} :
              LoadPayout(t, p, to)
  PROVE  \E x : ReadsAlone(t, x)
<1>1. CASE Abort(t)
  <2>1. ReadsAlone(t, Idle)
    BY <1>1 DEF Abort, ReadsAlone, Idle, tables
  <2> QED BY <2>1
<1>2. CASE \E returned \in SUBSET Rows : FindDue(t, returned)
  <2>1. PICK returned \in SUBSET Rows : FindDue(t, returned)
    BY <1>2
  <2>2. ReadsAlone(t, [pc |-> "marking", due |-> Due \ returned])
    BY <2>1, BeginsAlone DEF FindDue, ReadsAlone
  <2> QED BY <2>2
<1>3. CASE \E d \in 1..clock : Preview(t, d)
  <2>1. PICK d \in 1..clock : Preview(t, d)
    BY <1>3
  <2>2. ReadsAlone(t, [pc |-> "generating", periodTo |-> d])
    BY <2>1, BeginsAlone DEF Preview, WorthPaying, ReadsAlone
  <2> QED BY <2>2
<1>4. CASE \E p \in Payouts, to \in {"APPROVED", "PROCESSING", "PAID", "FAILED", "CANCELLED"} :
             LoadPayout(t, p, to)
  <2>1. PICK p \in Payouts, to \in {"APPROVED", "PROCESSING", "PAID", "FAILED", "CANCELLED"} :
          LoadPayout(t, p, to)
    BY <1>4
  <2>2. ReadsAlone(t, [pc |-> "moving", payout |-> p, to |-> to])
    BY <2>1, BeginsAlone DEF LoadPayout, ReadsAlone
  <2> QED BY <2>2
<1> QED BY <1>1, <1>2, <1>3, <1>4

LEMMA ApartStep ==
  ASSUME TypeOK, LedgerInv, Apart, [Next]_vars
  PROVE  Apart'
<1>0. CASE overlapped'
  BY <1>0 DEF Apart
<1>1. CASE ~overlapped'
  <2>0. ~overlapped
    BY <1>1, OverlapStep
  <2>1. CASE UNCHANGED vars \/ NextDay
    <3>1. UNCHANGED <<ledger, payout, balance, tx, overlapped>>
      BY <2>1 DEF vars, tables, NextDay
    <3>2. \A d : Eligible(d)' = Eligible(d)
      BY <3>1 DEF Eligible
    <3> QED BY <3>1, <3>2 DEF Apart, Alone, Staged, GoodFigures, Total
  <2>2. ASSUME NEW t \in Threads, Commit(t) PROVE Apart'
    <3>1. /\ tx[t].pc = "staged"
          /\ ledger' = Overlay(ledger, tx[t].rows)
          /\ balance' = tx[t].balance
          /\ payout' = Overlay(payout, tx[t].payouts)
          /\ \A u \in Threads : tx'[u] = IF u = t THEN Idle ELSE tx[u]
      BY <2>2 DEF Commit, Staged, TypeOK
    <3>2. Alone(t)
      BY <2>0, <3>1 DEF Apart, Idle
    <3>3. \A u \in Threads : tx'[u] = Idle
      BY <3>1, <3>2 DEF Alone
    <3>4. balance' = Balance(ledger')
      BY <2>0, <3>1 DEF Apart, Staged
    <3>5. \A p \in Payouts : payout'[p].status # "ABSENT" => payout'[p].net > MinPayout
      BY <2>0, <3>1 DEF Apart, Staged, GoodFigures, Overlay, TypeOK
    <3>6. \A u \in Threads : tx'[u].pc = "idle"
      BY <3>3 DEF Idle
    <3> QED BY <3>3, <3>4, <3>5, <3>6 DEF Apart, Staged, Balance, Total
  <2>3. ASSUME NEW t \in Threads, NEW x, ReadsAlone(t, x) PROVE Apart'
    <3>1. /\ UNCHANGED <<ledger, payout, balance>>
          /\ \A u \in Threads : tx'[u] = IF u = t THEN x ELSE tx[u]
      BY <2>3 DEF ReadsAlone, tables, TypeOK
    <3>2. \A d : Eligible(d)' = Eligible(d)
      BY <3>1 DEF Eligible
    <3>3. \A u \in Threads : tx'[u] # Idle => Alone(u)'
      BY <2>0, <2>3, <3>1 DEF ReadsAlone, Apart, Alone
    <3>4. \A u \in Threads :
            /\ tx'[u].pc = "generating" => Total(ledger, Eligible(tx'[u].periodTo)) > MinPayout
            /\ Staged(u)' => /\ tx'[u].balance = Balance(Overlay(ledger, tx'[u].rows))
                             /\ GoodFigures(tx'[u].payouts)
      BY <2>0, <2>3, <3>1 DEF ReadsAlone, Apart, Staged
    <3> QED BY <2>0, <3>1, <3>2, <3>3, <3>4 DEF Apart, Total, GoodFigures
  <2>4. ASSUME NEW t \in Threads, NEW rows, NEW payouts, StagesAlone(t, rows, payouts)
        PROVE  Apart'
    <3>1. /\ UNCHANGED <<ledger, payout, balance>>
          /\ \A u \in Threads \ {t} : tx'[u] = Idle
          /\ tx'[t].pc = "staged" /\ tx'[t].payouts = payouts
          /\ tx'[t].balance = Balance(Overlay(ledger, tx'[t].rows))
          /\ GoodFigures(payouts)
      BY <2>4 DEF StagesAlone, tables, TypeOK, Alone
    <3>2. \A u \in Threads \ {t} : tx'[u].pc = "idle"
      BY <3>1 DEF Idle
    <3>3. \A u \in Threads : tx'[u] # Idle => Alone(u)'
      BY <3>1 DEF Alone
    <3> QED BY <2>0, <3>1, <3>2, <3>3 DEF Apart, Staged, GoodFigures
  <2>5. CASE Next
    <3>1. ASSUME NEW t \in Threads,
                 \/ Abort(t)
                 \/ \E returned \in SUBSET Rows : FindDue(t, returned)
                 \/ \E d \in 1..clock : Preview(t, d)
                 \/ \E p \in Payouts,
                    to \in {"APPROVED", "PROCESSING", "PAID", "FAILED", "CANCELLED"} :
                      LoadPayout(t, p, to)
          PROVE  Apart'
      BY <1>1, <2>3, <3>1, ReadingAlone
    <3>2. ASSUME NEW t \in Threads,
                 \/ \E r \in Rows :
                      \/ \E a \in Amounts, at \in 1..MaxClock : RecordEarnings(t, r, a, at)
                      \/ \E e \in Rows : \E n \in 1..Remaining(e) : ReverseEarnings(t, r, e, n)
                      \/ \E a \in Adjustments : RecordAdjustment(t, r, a)
                 \/ RecomputeBalance(t) \/ MarkAvailable(t)
          PROVE  Apart'
      BY <1>1, <2>0, <2>4, <3>2, RowsAlone
    <3>3. ASSUME NEW t \in Threads,
                 \/ \E p \in Payouts : SchedulePayout(t, p)
                 \/ Advance(t) \/ Release(t) \/ \E r \in Rows : Pay(t, r)
          PROVE  Apart'
      BY <2>0, <2>4, <3>3, StatementsAlone
    <3> QED BY <2>1, <2>2, <2>5, <3>1, <3>2, <3>3 DEF Next
  <2> QED BY <2>1, <2>5
<1> QED BY <1>0, <1>1

LEMMA ApartInvariant == Spec => []Apart
<1>1. Init => Apart
  BY DEF Init, Apart, Idle, NoStatement, Staged
<1>2. QED BY <1>1, ApartStep, TypeCorrect, LedgerInvariant, PTL DEF Spec

\* As long as no two transactions have overlapped, the balance a seller is shown
\* is that of the ledger (recomputeSellerBalance in every transaction).
THEOREM BalanceIsLedgers == Spec => []BalanceMatchesLedger
<1>1. Apart => BalanceMatchesLedger
  BY DEF Apart, BalanceMatchesLedger
<1>2. QED BY <1>1, ApartInvariant, PTL

\* As long as no two transactions have overlapped, no statement is made for less
\* than the minimum, from the preview to the scheduled rows (generatePayout).
THEOREM StatementsWorthwhile == Spec => []AboveMinimum
<1>1. Apart => AboveMinimum
  BY DEF Apart, AboveMinimum
<1>2. QED BY <1>1, ApartInvariant, PTL

----------------------------------------------------------------------------
(* The figures of statements and what was paid, as long as no two            *)
(* transactions have overlapped.  Books is what every committed state keeps, *)
(* and what the next one will keep once what is staged is committed.         *)

Counted == OpenStatus \cup {"PAID"}

Attached(l, p) == { r \in Rows : l[r].payout = p /\ l[r].kind # "PAYOUT" }
PaidIn(l) == { r \in Rows : l[r].status = "PAID" /\ l[r].kind # "PAYOUT" }
PaidFrom(l) == { r \in Rows : l[r].kind = "PAYOUT" }

\* A row belongs to a statement while it is scheduled and once it is paid.
Filed(l, po) ==
  \A r \in Rows : l[r].kind # "PAYOUT" =>
    /\ l[r].status \in {"NONE", "PENDING", "AVAILABLE"} => l[r].payout = NoPayout
    /\ l[r].status = "SCHEDULED" =>
         l[r].payout \in Payouts /\ po[l[r].payout].status \in OpenStatus
    /\ l[r].status = "PAID" =>
         l[r].payout \in Payouts /\ po[l[r].payout].status = "PAID"

Figures(l, po) ==
  \A p \in Payouts : po[p].status \in Counted => po[p].net = Total(l, Attached(l, p))

Even(l) == 0 - Total(l, PaidFrom(l)) = Total(l, PaidIn(l))

Books(l, po) == Filed(l, po) /\ Figures(l, po) /\ Even(l)

Accounts ==
  ~overlapped =>
    /\ Books(ledger, payout)
    /\ \A t \in Threads :
         /\ Staged(t) => Books(Overlay(ledger, tx[t].rows), Overlay(payout, tx[t].payouts))
         /\ tx[t].pc = "marking" => \A r \in tx[t].due : ledger[r].status = "PENDING"
         /\ tx[t].pc = "moving" => <<payout[tx[t].payout].status, tx[t].to>> \in PayoutTransitions

StagesBooks(t, rows, payouts) ==
  Write(t, rows, payouts) /\ Books(Overlay(ledger, rows), Overlay(payout, payouts))

\* Rows whose amounts stay sum up to the same.
LEMMA TotalSame ==
  ASSUME NEW l, NEW k, NEW S \in SUBSET Rows, \A r \in S : l[r].amount \in Int,
         \A r \in S : k[r].amount = l[r].amount
  PROVE  Total(k, S) = Total(l, S)
<1>1. PICK f, g : /\ f = [r \in Rows |-> l[r].amount]
                  /\ g = [r \in Rows |-> k[r].amount]
  OBVIOUS
<1>2. IsFiniteSet(S) /\ \A r \in S : f[r] \in Int /\ f[r] = g[r]
  BY <1>1, FS_Subset, RowsAssumption
<1>3. SumOver(f, S) = SumOver(g, S)
  BY <1>2, SumOverSame
<1>4. QED BY <1>1, <1>3 DEF Total

LEMMA StillEven ==
  ASSUME TypeOK, Kinds, Even(ledger), NEW k,
         \A r \in Rows :
           /\ k[r].kind = "PAYOUT" <=> ledger[r].kind = "PAYOUT"
           /\ k[r].status = "PAID" <=> ledger[r].status = "PAID"
           /\ ledger[r].status = "PAID" => k[r].amount = ledger[r].amount
  PROVE  Even(k)
<1>1. PaidFrom(k) = PaidFrom(ledger) /\ PaidIn(k) = PaidIn(ledger)
  BY DEF PaidFrom, PaidIn
<1>2. \A r \in Rows : ledger[r].amount \in Int
  BY DEF TypeOK, EntryType
<1>3. PICK S \in SUBSET Rows, P \in SUBSET Rows : S = PaidIn(ledger) /\ P = PaidFrom(ledger)
  BY DEF PaidFrom, PaidIn
<1>4. \A r \in S \cup P : k[r].amount = ledger[r].amount
  BY <1>3 DEF PaidFrom, PaidIn, Kinds
<1>5. Total(k, S) = Total(ledger, S) /\ Total(k, P) = Total(ledger, P)
  BY <1>2, <1>4, TotalSame
<1>6. QED BY <1>1, <1>3, <1>5 DEF Even

\* A statement whose rows stay.
LEMMA StillFigured ==
  ASSUME TypeOK, Figures(ledger, payout), NEW k, NEW p \in Payouts,
         payout[p].status \in Counted,
         \A r \in Rows :
           /\ (k[r].payout = p /\ k[r].kind # "PAYOUT")
                <=> (ledger[r].payout = p /\ ledger[r].kind # "PAYOUT")
           /\ ledger[r].payout = p => k[r].amount = ledger[r].amount
  PROVE  payout[p].net = Total(k, Attached(k, p))
<1>1. PICK S \in SUBSET Rows : S = Attached(ledger, p)
  BY DEF Attached
<1>2. Attached(k, p) = S
  BY <1>1 DEF Attached
<1>3. \A r \in S : k[r].amount = ledger[r].amount /\ ledger[r].amount \in Int
  BY <1>1 DEF Attached, TypeOK, EntryType
<1>4. Total(k, S) = Total(ledger, S)
  BY <1>3, TotalSame
<1>5. payout[p].net = Total(ledger, S)
  BY <1>1 DEF Figures
<1>6. QED BY <1>2, <1>4, <1>5

LEMMA OverlayView ==
  ASSUME NEW D, NEW f, DOMAIN f = D, NEW g
  PROVE  \A x \in D : Overlay(f, g)[x] = IF x \in DOMAIN g THEN g[x] ELSE f[x]
BY DEF Overlay

\* A row that did not exist belongs to no statement.
LEMMA InsertBooks ==
  ASSUME TypeOK, LedgerInv, Books(ledger, payout), NEW t \in Threads, NEW r \in Rows, NEW row,
         row.kind \notin {"NONE", "PAYOUT"}, row.status \in {"PENDING", "AVAILABLE"},
         row.payout = NoPayout, Insert(t, r, row)
  PROVE  \E rows, payouts : StagesBooks(t, rows, payouts)
<1>1. PICK rows, payouts : rows = [x \in {r} |-> row] /\ payouts = [p \in {} |-> NoStatement]
  OBVIOUS
<1>2. Write(t, rows, payouts) /\ ledger[r] = Absent
  BY <1>1 DEF Insert, Fresh
<1>3. PICK k, po : k = Overlay(ledger, rows) /\ po = Overlay(payout, payouts)
  OBVIOUS
<1>4. /\ \A x \in Rows : k[x] = IF x = r THEN row ELSE ledger[x]
      /\ \A p \in Payouts : po[p] = payout[p]
  BY <1>1, <1>3 DEF Overlay, TypeOK
<1>5. Filed(k, po)
  BY <1>4 DEF Books, Filed
<1>6. Even(k)
  <2>1. \A x \in Rows :
          /\ k[x].kind = "PAYOUT" <=> ledger[x].kind = "PAYOUT"
          /\ k[x].status = "PAID" <=> ledger[x].status = "PAID"
          /\ ledger[x].status = "PAID" => k[x].amount = ledger[x].amount
    BY <1>2, <1>4 DEF Absent
  <2>2. QED BY <2>1, StillEven DEF LedgerInv, Books
<1>7. ASSUME NEW p \in Payouts, po[p].status \in Counted
      PROVE  po[p].net = Total(k, Attached(k, p))
  <2>1. \A x \in Rows :
          /\ (k[x].payout = p /\ k[x].kind # "PAYOUT")
               <=> (ledger[x].payout = p /\ ledger[x].kind # "PAYOUT")
          /\ ledger[x].payout = p => k[x].amount = ledger[x].amount
    BY <1>2, <1>4, PayoutsAssumption DEF Absent
  <2>2. QED BY <1>4, <1>7, <2>1, StillFigured DEF Books
<1>8. StagesBooks(t, rows, payouts)
  BY <1>2, <1>3, <1>5, <1>6, <1>7 DEF StagesBooks, Books, Figures
<1>9. QED BY <1>8

LEMMA RecordsBooks ==
  ASSUME TypeOK, LedgerInv, Books(ledger, payout), NEW t \in Threads, NEW r \in Rows,
         \/ \E a \in Amounts, at \in 1..MaxClock : RecordEarnings(t, r, a, at)
         \/ \E e \in Rows : \E s \in 1..Remaining(e) : ReverseEarnings(t, r, e, s)
         \/ \E a \in Adjustments : RecordAdjustment(t, r, a)
  PROVE  \E rows, payouts : StagesBooks(t, rows, payouts)
<1>1. ASSUME NEW a, NEW at, RecordEarnings(t, r, a, at)
      PROVE  \E rows, payouts : StagesBooks(t, rows, payouts)
  <2>1. PICK row : row = Entry("EARNING", a, "PENDING", at, NoRow)
    OBVIOUS
  <2>2. row.kind = "EARNING" /\ row.status = "PENDING" /\ row.payout = NoPayout
    BY <2>1 DEF Entry
  <2>3. QED BY <1>1, <2>1, <2>2, InsertBooks DEF RecordEarnings
<1>2. ASSUME NEW e, NEW s, ReverseEarnings(t, r, e, s)
      PROVE  \E rows, payouts : StagesBooks(t, rows, payouts)
  <2>1. PICK row : row = Reversal(e, s)
    OBVIOUS
  <2>2. row.kind = "REVERSAL" /\ row.status = "AVAILABLE" /\ row.payout = NoPayout
    BY <2>1 DEF Reversal, Entry
  <2>3. QED BY <1>2, <2>1, <2>2, InsertBooks DEF ReverseEarnings
<1>3. ASSUME NEW a, RecordAdjustment(t, r, a)
      PROVE  \E rows, payouts : StagesBooks(t, rows, payouts)
  <2>1. PICK row : row = Entry("ADJUSTMENT", a, "AVAILABLE", clock, NoRow)
    OBVIOUS
  <2>2. row.kind = "ADJUSTMENT" /\ row.status = "AVAILABLE" /\ row.payout = NoPayout
    BY <2>1 DEF Entry
  <2>3. QED BY <1>3, <2>1, <2>2, InsertBooks DEF RecordAdjustment
<1>4. QED BY <1>1, <1>2, <1>3

\* A write that leaves each row in its statement, and moves a statement between
\* open statuses at most.
LEMMA KeptBooks ==
  ASSUME TypeOK, LedgerInv, Books(ledger, payout), NEW k, NEW po,
         \A r \in Rows :
           /\ k[r].kind = ledger[r].kind /\ k[r].payout = ledger[r].payout
           /\ k[r].amount = ledger[r].amount
           /\ \/ k[r].status = ledger[r].status
              \/ ledger[r].status = "PENDING" /\ k[r].status = "AVAILABLE",
         \A p \in Payouts :
           \/ po[p] = payout[p]
           \/ /\ payout[p].status \in OpenStatus /\ po[p].status \in OpenStatus
              /\ po[p].net = payout[p].net
  PROVE  Books(k, po)
<1>1. Filed(k, po)
  BY DEF Books, Filed, OpenStatus
<1>2. Even(k)
  BY StillEven DEF LedgerInv, Books
<1>3. ASSUME NEW p \in Payouts, po[p].status \in Counted
      PROVE  po[p].net = Total(k, Attached(k, p))
  <2>1. payout[p].status \in Counted /\ po[p].net = payout[p].net
    BY <1>3 DEF Counted
  <2>2. QED BY <2>1, StillFigured DEF Books
<1>4. QED BY <1>1, <1>2, <1>3 DEF Books, Figures

LEMMA KeepingBooks ==
  ASSUME TypeOK, LedgerInv, Apart, Accounts, ~overlapped, NEW t \in Threads,
         RecomputeBalance(t) \/ MarkAvailable(t) \/ Advance(t)
  PROVE  \E rows, payouts : StagesBooks(t, rows, payouts)
<1>0. Books(ledger, payout)
  BY DEF Accounts
<1>1. CASE RecomputeBalance(t)
  <2>1. PICK rows, payouts : /\ rows = [x \in {} |-> Absent]
                             /\ payouts = [p \in {} |-> NoStatement]
    OBVIOUS
  <2>2. /\ \A r \in Rows : Overlay(ledger, rows)[r] = ledger[r]
        /\ \A p \in Payouts : Overlay(payout, payouts)[p] = payout[p]
    BY <2>1 DEF Overlay, TypeOK
  <2>3. Write(t, rows, payouts)
    BY <1>1, <2>1 DEF RecomputeBalance
  <2>4. QED BY <1>0, <2>2, <2>3, KeptBooks DEF StagesBooks
<1>2. CASE MarkAvailable(t)
  <2>1. PICK rows, payouts : /\ rows = [r \in tx[t].due |-> [ledger[r] EXCEPT !.status = "AVAILABLE"]]
                             /\ payouts = [p \in {} |-> NoStatement]
    OBVIOUS
  <2>2. /\ tx[t].pc = "marking" /\ Write(t, rows, payouts)
        /\ \A r \in tx[t].due : r \in Rows /\ ledger[r].status = "PENDING"
    <3>1. tx[t].pc = "marking" /\ Write(t, rows, payouts)
      BY <1>2, <2>1 DEF MarkAvailable
    <3>2. tx[t].due \subseteq Rows
      BY <3>1 DEF TypeOK, TxOK, Idle
    <3>3. QED BY <3>1, <3>2 DEF Accounts
  <2>3. PICK k : k = Overlay(ledger, rows)
    OBVIOUS
  <2>4. \A r \in Rows : k[r] = IF r \in tx[t].due THEN [ledger[r] EXCEPT !.status = "AVAILABLE"]
                               ELSE ledger[r]
    BY <2>1, <2>3 DEF Overlay, TypeOK
  <2>5. \A p \in Payouts : Overlay(payout, payouts)[p] = payout[p]
    BY <2>1 DEF Overlay, TypeOK
  <2>6. \A r \in Rows :
          /\ k[r].kind = ledger[r].kind /\ k[r].payout = ledger[r].payout
          /\ k[r].amount = ledger[r].amount
          /\ \/ k[r].status = ledger[r].status
             \/ ledger[r].status = "PENDING" /\ k[r].status = "AVAILABLE"
    BY <2>2, <2>4 DEF TypeOK, EntryType
  <2>7. QED BY <1>0, <2>2, <2>3, <2>5, <2>6, KeptBooks DEF StagesBooks
<1>3. CASE Advance(t)
  <2>1. PICK rows, payouts : rows = [x \in {} |-> Absent] /\ payouts = SetStatus(t)
    OBVIOUS
  <2>2. /\ tx[t].pc = "moving" /\ tx[t].to \in {"APPROVED", "PROCESSING"}
        /\ Write(t, rows, payouts)
        /\ <<payout[tx[t].payout].status, tx[t].to>> \in PayoutTransitions
    BY <1>3, <2>1 DEF Advance, Accounts
  <2>3. \A r \in Rows : Overlay(ledger, rows)[r] = ledger[r]
    BY <2>1 DEF Overlay, TypeOK
  <2>4. PICK po : po = Overlay(payout, payouts)
    OBVIOUS
  <2>5. \A p \in Payouts : po[p] = IF p = tx[t].payout THEN payouts[p] ELSE payout[p]
    BY <2>1, <2>2, <2>4, Moving DEF Overlay, TypeOK
  <2>6. /\ payouts[tx[t].payout].status = tx[t].to
        /\ payouts[tx[t].payout].net = payout[tx[t].payout].net
    BY <2>1, <2>2, Moving
  <2>7. payout[tx[t].payout].status \in OpenStatus /\ tx[t].to \in OpenStatus
    BY <2>2 DEF PayoutTransitions, OpenStatus
  <2>8. QED BY <1>0, <2>2, <2>3, <2>4, <2>5, <2>6, <2>7, KeptBooks DEF StagesBooks
<1>4. QED BY <1>1, <1>2, <1>3

\* The figure of a new statement is that of the rows it schedules.
LEMMA ScheduleBooks ==
  ASSUME TypeOK, LedgerInv, Books(ledger, payout), NEW t \in Threads, NEW p \in Payouts,
         SchedulePayout(t, p)
  PROVE  \E rows, payouts : StagesBooks(t, rows, payouts)
<1>1. PICK E \in SUBSET Rows : E = Eligible(tx[t].periodTo)
  BY DEF Eligible
<1>2. PICK rows, payouts :
        /\ rows = [r \in E |-> [ledger[r] EXCEPT !.status = "SCHEDULED", !.payout = p]]
        /\ payouts = [q \in {p} |-> [status |-> "PENDING", net |-> Net(E)]]
  OBVIOUS
<1>3. Write(t, rows, payouts) /\ payout[p] = NoStatement
  BY <1>1, <1>2, Zenon DEF SchedulePayout
<1>4. \A r \in E : ledger[r].status = "AVAILABLE" /\ ledger[r].kind # "PAYOUT"
  BY <1>1 DEF Eligible, LedgerInv, Kinds
<1>5. PICK k, po : k = Overlay(ledger, rows) /\ po = Overlay(payout, payouts)
  OBVIOUS
<1>6. \A r \in Rows : k[r] = IF r \in E
                             THEN [ledger[r] EXCEPT !.status = "SCHEDULED", !.payout = p]
                             ELSE ledger[r]
  BY <1>2, <1>5 DEF Overlay, TypeOK
<1>7. \A r \in Rows :
        /\ k[r].kind = ledger[r].kind /\ k[r].amount = ledger[r].amount
        /\ k[r].status = IF r \in E THEN "SCHEDULED" ELSE ledger[r].status
        /\ k[r].payout = IF r \in E THEN p ELSE ledger[r].payout
  BY <1>6 DEF TypeOK, EntryType
<1>8. \A q \in Payouts : po[q] = IF q = p THEN [status |-> "PENDING", net |-> Net(E)]
                                 ELSE payout[q]
  BY <1>2, <1>5 DEF Overlay, TypeOK
<1>9. \A r \in Rows : ledger[r].kind # "PAYOUT" => ledger[r].payout # p
  BY <1>3, PayoutsAssumption DEF Books, Filed, NoStatement, OpenStatus, TypeOK, EntryType
<1>10. \A r \in E : ledger[r].payout = NoPayout
  BY <1>1 DEF Eligible
<1>11. Filed(k, po)
  BY <1>3, <1>7, <1>8, <1>9 DEF Books, Filed, OpenStatus
<1>12. Even(k)
  <2>1. \A r \in Rows :
          /\ k[r].kind = "PAYOUT" <=> ledger[r].kind = "PAYOUT"
          /\ k[r].status = "PAID" <=> ledger[r].status = "PAID"
          /\ ledger[r].status = "PAID" => k[r].amount = ledger[r].amount
    BY <1>4, <1>7
  <2>2. QED BY <2>1, StillEven DEF LedgerInv, Books
<1>13. ASSUME NEW q \in Payouts, po[q].status \in Counted
       PROVE  po[q].net = Total(k, Attached(k, q))
  <2>1. CASE q = p
    <3>1. Attached(k, p) = E
      BY <1>4, <1>7, <1>9 DEF Attached
    <3>2. \A r \in E : k[r].amount = ledger[r].amount /\ ledger[r].amount \in Int
      BY <1>7 DEF TypeOK, EntryType
    <3>3. Total(k, E) = Total(ledger, E)
      BY <3>2, TotalSame
    <3>4. QED BY <1>8, <2>1, <3>1, <3>3 DEF Net
  <2>2. CASE q # p
    <3>1. \A r \in Rows :
            /\ (k[r].payout = q /\ k[r].kind # "PAYOUT")
                 <=> (ledger[r].payout = q /\ ledger[r].kind # "PAYOUT")
            /\ ledger[r].payout = q => k[r].amount = ledger[r].amount
      BY <1>7, <1>10, <2>2, PayoutsAssumption
    <3>2. QED BY <1>8, <1>13, <2>2, <3>1, StillFigured DEF Books
  <2>3. QED BY <2>1, <2>2
<1>14. StagesBooks(t, rows, payouts)
  BY <1>3, <1>5, <1>11, <1>12, <1>13 DEF StagesBooks, Books, Figures
<1>15. QED BY <1>14

\* A statement that is closed unpaid hands back every row it has.
LEMMA ReleaseBooks ==
  ASSUME TypeOK, LedgerInv, Accounts, ~overlapped, NEW t \in Threads, Release(t)
  PROVE  \E rows, payouts : StagesBooks(t, rows, payouts)
<1>1. PICK p \in Payouts, S \in SUBSET Rows : p = tx[t].payout /\ S = Scheduled(p)
  BY Moving DEF Release, Scheduled
<1>2. PICK rows, payouts :
        /\ rows = [r \in S |-> [ledger[r] EXCEPT !.status = "AVAILABLE", !.payout = NoPayout]]
        /\ payouts = SetStatus(t)
  OBVIOUS
<1>3. /\ Write(t, rows, payouts) /\ tx[t].pc = "moving"
      /\ tx[t].to \in {"FAILED", "CANCELLED"}
      /\ <<payout[p].status, tx[t].to>> \in PayoutTransitions
  BY <1>1, <1>2 DEF Release, HandedBack, Accounts
<1>4. Books(ledger, payout) /\ payout[p].status \in OpenStatus
  BY <1>3 DEF Accounts, PayoutTransitions, OpenStatus
<1>5. PICK k, po : k = Overlay(ledger, rows) /\ po = Overlay(payout, payouts)
  OBVIOUS
<1>6. \A r \in Rows :
        k[r] = IF r \in S THEN [ledger[r] EXCEPT !.status = "AVAILABLE", !.payout = NoPayout]
               ELSE ledger[r]
  BY <1>2, <1>5 DEF Overlay, TypeOK
<1>7. \A r \in Rows :
        /\ k[r].kind = ledger[r].kind /\ k[r].amount = ledger[r].amount
        /\ k[r].status = IF r \in S THEN "AVAILABLE" ELSE ledger[r].status
        /\ k[r].payout = IF r \in S THEN NoPayout ELSE ledger[r].payout
  BY <1>6 DEF TypeOK, EntryType
<1>8. \A q \in Payouts : po[q] = IF q = p THEN payouts[p] ELSE payout[q]
  BY <1>1, <1>2, <1>3, <1>5, Moving DEF Overlay, TypeOK
<1>9. payouts[p].status \in {"FAILED", "CANCELLED"}
  BY <1>1, <1>2, <1>3, Moving
<1>10. \A r \in S : ledger[r].status = "SCHEDULED" /\ ledger[r].payout = p
  BY <1>1 DEF Scheduled
<1>11. \A r \in Rows : ledger[r].kind # "PAYOUT" /\ ledger[r].payout = p => r \in S
  <2>1. ASSUME NEW r \in Rows, ledger[r].kind # "PAYOUT", ledger[r].payout = p
        PROVE  ledger[r].status = "SCHEDULED"
    <3>1. ledger[r].status \in {"NONE", "PENDING", "AVAILABLE", "SCHEDULED", "PAID"}
      BY DEF TypeOK, EntryType
    <3>2. ledger[r].status \notin {"NONE", "PENDING", "AVAILABLE"}
      BY <1>4, <2>1, PayoutsAssumption DEF Books, Filed
    <3>3. ledger[r].status # "PAID"
      BY <1>4, <2>1 DEF Books, Filed, OpenStatus
    <3>4. QED BY <3>1, <3>2, <3>3
  <2>2. QED BY <1>1, <2>1 DEF Scheduled
<1>12. Filed(k, po)
  <2>1. ASSUME NEW r \in Rows, k[r].kind # "PAYOUT", r \notin S
        PROVE  /\ k[r].status \in {"NONE", "PENDING", "AVAILABLE"} => k[r].payout = NoPayout
               /\ k[r].status = "SCHEDULED" =>
                    k[r].payout \in Payouts /\ po[k[r].payout].status \in OpenStatus
               /\ k[r].status = "PAID" =>
                    k[r].payout \in Payouts /\ po[k[r].payout].status = "PAID"
    BY <1>4, <1>7, <1>8, <1>11, <2>1 DEF Books, Filed
  <2>2. QED BY <1>7, <2>1 DEF Filed
<1>13. Even(k)
  <2>1. \A r \in Rows :
          /\ k[r].kind = "PAYOUT" <=> ledger[r].kind = "PAYOUT"
          /\ k[r].status = "PAID" <=> ledger[r].status = "PAID"
          /\ ledger[r].status = "PAID" => k[r].amount = ledger[r].amount
    BY <1>7, <1>10
  <2>2. QED BY <1>4, <2>1, StillEven DEF LedgerInv, Books
<1>14. ASSUME NEW q \in Payouts, po[q].status \in Counted
       PROVE  po[q].net = Total(k, Attached(k, q))
  <2>1. q # p
    BY <1>8, <1>9, <1>14 DEF Counted, OpenStatus
  <2>2. \A r \in Rows :
          /\ (k[r].payout = q /\ k[r].kind # "PAYOUT")
               <=> (ledger[r].payout = q /\ ledger[r].kind # "PAYOUT")
          /\ ledger[r].payout = q => k[r].amount = ledger[r].amount
    BY <1>7, <1>10, <2>1, PayoutsAssumption
  <2>3. QED BY <1>4, <1>8, <1>14, <2>1, <2>2, StillFigured DEF Books
<1>15. StagesBooks(t, rows, payouts)
  BY <1>3, <1>5, <1>12, <1>13, <1>14 DEF StagesBooks, Books, Figures
<1>16. QED BY <1>15

\* What is paid is the figure of the statement, which is that of its rows.
LEMMA PayBooks ==
  ASSUME TypeOK, LedgerInv, Accounts, ~overlapped, NEW t \in Threads, NEW x \in Rows, Pay(t, x)
  PROVE  \E rows, payouts : StagesBooks(t, rows, payouts)
<1>1. PICK p \in Payouts, S \in SUBSET Rows : p = tx[t].payout /\ S = Scheduled(p)
  BY Moving DEF Pay, Scheduled
<1>2. PICK rows, payouts :
        /\ rows = [r \in S \cup {x} |-> IF r = x THEN PayoutRow(p)
                                        ELSE [ledger[r] EXCEPT !.status = "PAID"]]
        /\ payouts = SetStatus(t)
  OBVIOUS
<1>3. /\ Write(t, rows, payouts) /\ tx[t].pc = "moving" /\ tx[t].to = "PAID"
      /\ <<payout[p].status, "PAID">> \in PayoutTransitions
      /\ ledger[x] = Absent
  BY <1>1, <1>2 DEF Pay, Fresh, Accounts
<1>4. Books(ledger, payout) /\ payout[p].status \in OpenStatus
  BY <1>3 DEF Accounts, PayoutTransitions, OpenStatus
<1>5. PICK k, po : k = Overlay(ledger, rows) /\ po = Overlay(payout, payouts)
  OBVIOUS
<1>6. /\ PayoutRow(p).kind = "PAYOUT" /\ PayoutRow(p).status = "PAID"
      /\ PayoutRow(p).payout = p /\ PayoutRow(p).amount = 0 - payout[p].net
  BY DEF PayoutRow, Entry
<1>7. \A r \in Rows : k[r] = IF r = x THEN PayoutRow(p)
                             ELSE IF r \in S THEN [ledger[r] EXCEPT !.status = "PAID"]
                             ELSE ledger[r]
  BY <1>2, <1>5 DEF Overlay, TypeOK
<1>8. \A r \in Rows \ {x} :
        /\ k[r].kind = ledger[r].kind /\ k[r].amount = ledger[r].amount
        /\ k[r].status = IF r \in S THEN "PAID" ELSE ledger[r].status
        /\ k[r].payout = ledger[r].payout
  BY <1>7 DEF TypeOK, EntryType
<1>9. \A q \in Payouts : po[q] = IF q = p THEN payouts[p] ELSE payout[q]
  BY <1>1, <1>2, <1>3, <1>5, Moving DEF Overlay, TypeOK
<1>10. payouts[p].status = "PAID" /\ payouts[p].net = payout[p].net
  BY <1>1, <1>2, <1>3, Moving
<1>11. /\ x \notin S /\ ledger[x].kind = "NONE" /\ ledger[x].payout = NoPayout
       /\ ledger[x].status = "NONE"
       /\ \A r \in S : /\ ledger[r].status = "SCHEDULED" /\ ledger[r].payout = p
                       /\ ledger[r].kind # "PAYOUT"
  BY <1>1, <1>3 DEF Scheduled, Absent, LedgerInv, Kinds
<1>12. \A r \in Rows : ledger[r].kind # "PAYOUT" /\ ledger[r].payout = p => r \in S
  <2>1. ASSUME NEW r \in Rows, ledger[r].kind # "PAYOUT", ledger[r].payout = p
        PROVE  ledger[r].status = "SCHEDULED"
    <3>1. ledger[r].status \in {"NONE", "PENDING", "AVAILABLE", "SCHEDULED", "PAID"}
      BY DEF TypeOK, EntryType
    <3>2. ledger[r].status \notin {"NONE", "PENDING", "AVAILABLE"}
      BY <1>4, <2>1, PayoutsAssumption DEF Books, Filed
    <3>3. ledger[r].status # "PAID"
      BY <1>4, <2>1 DEF Books, Filed, OpenStatus
    <3>4. QED BY <3>1, <3>2, <3>3
  <2>2. QED BY <1>1, <2>1 DEF Scheduled
<1>13. \A r \in Rows : ledger[r].amount \in Int
  BY DEF TypeOK, EntryType
<1>14. payout[p].net \in Int /\ payout[p].net = Total(ledger, S)
  <2>1. Attached(ledger, p) = S
    BY <1>11, <1>12 DEF Attached
  <2>2. QED BY <1>4, <2>1 DEF Books, Figures, Counted, TypeOK, StatementType
<1>15. Filed(k, po)
  <2>1. ASSUME NEW r \in Rows, k[r].kind # "PAYOUT", r \in S
        PROVE  k[r].status = "PAID" /\ k[r].payout \in Payouts /\ po[k[r].payout].status = "PAID"
    BY <1>8, <1>9, <1>10, <1>11, <2>1
  <2>2. ASSUME NEW r \in Rows, k[r].kind # "PAYOUT", r \notin S
        PROVE  /\ k[r].status \in {"NONE", "PENDING", "AVAILABLE"} => k[r].payout = NoPayout
               /\ k[r].status = "SCHEDULED" =>
                    k[r].payout \in Payouts /\ po[k[r].payout].status \in OpenStatus
               /\ k[r].status = "PAID" =>
                    k[r].payout \in Payouts /\ po[k[r].payout].status = "PAID"
    <3>1. r # x
      BY <1>6, <1>7, <2>2
    <3>2. QED BY <1>4, <1>8, <1>9, <1>12, <2>2, <3>1 DEF Books, Filed
  <2>3. QED BY <2>1, <2>2 DEF Filed
<1>16. Even(k)
  <2>1. PICK P \in SUBSET Rows, R \in SUBSET Rows : P = PaidFrom(ledger) /\ R = PaidIn(ledger)
    BY DEF PaidFrom, PaidIn
  <2>2. /\ PaidFrom(k) = P \cup {x} /\ x \notin P
        /\ PaidIn(k) = R \cup S /\ R \cap S = {}
    <3>1. PaidFrom(k) = P \cup {x}
      BY <1>6, <1>7, <1>8, <2>1 DEF PaidFrom
    <3>2. x \notin P /\ R \cap S = {}
      BY <1>11, <2>1 DEF PaidFrom, PaidIn
    <3>3. PaidIn(k) = R \cup S
      <4>1. ASSUME NEW r \in Rows, r # x
            PROVE  r \in PaidIn(k) <=> r \in R \cup S
        BY <1>8, <1>11, <2>1, <4>1 DEF PaidIn
      <4>2. x \notin PaidIn(k) /\ x \notin R \cup S
        BY <1>6, <1>7, <1>11, <2>1 DEF PaidIn
      <4>3. PaidIn(k) \subseteq Rows
        BY DEF PaidIn
      <4>4. QED BY <4>1, <4>2, <4>3
    <3>4. QED BY <3>1, <3>2, <3>3
  <2>3. PICK f : f = [r \in Rows |-> k[r].amount]
    OBVIOUS
  <2>4. /\ f[x] = 0 - payout[p].net
        /\ \A r \in Rows \ {x} : f[r] = ledger[r].amount
    BY <1>6, <1>7, <1>8, <2>3
  <2>5. \A r \in Rows : f[r] \in Int
    BY <1>13, <1>14, <2>4
  <2>6. IsFiniteSet(P) /\ IsFiniteSet(R) /\ IsFiniteSet(S)
    BY RowsAssumption, FS_Subset
  <2>7. x \notin R
    BY <1>11, <2>1 DEF PaidIn
  <2>8. \A T \in SUBSET (Rows \ {x}) : SumOver(f, T) = Total(ledger, T)
    <3>1. ASSUME NEW T \in SUBSET (Rows \ {x})
          PROVE  SumOver(f, T) = Total(ledger, T)
      <4>1. \A r \in T : k[r].amount = ledger[r].amount /\ ledger[r].amount \in Int
        BY <1>8, <1>13
      <4>2. Total(k, T) = Total(ledger, T)
        BY <4>1, TotalSame
      <4>3. QED BY <2>3, <4>2 DEF Total
    <3>2. QED BY <3>1
  <2>9. SumOver(f, P) = Total(ledger, P) /\ SumOver(f, R) = Total(ledger, R)
        /\ SumOver(f, S) = Total(ledger, S)
    BY <1>11, <2>2, <2>7, <2>8
  <2>10. SumOver(f, P \cup {x}) = SumOver(f, P) - payout[p].net
    <3>1. SumOver(f, P \cup {x}) = SumOver(f, P) + f[x]
      <4>1. (\A r \in P : f[r] \in Int) /\ f[x] \in Int
        BY <2>5
      <4>2. QED BY <2>2, <2>6, <4>1, SumOverAdd
    <3>2. SumOver(f, P) \in Int
      BY <2>5, <2>6, SumOverInt
    <3>3. QED BY <1>14, <2>4, <3>1, <3>2
  <2>11. SumOver(f, R \cup S) = SumOver(f, R) + SumOver(f, S)
    <3>1. (\A r \in R : f[r] \in Int) /\ (\A r \in S : f[r] \in Int)
      BY <2>5
    <3>2. QED BY <2>2, <2>6, <3>1, SumOverDisjoint
  <2>12. 0 - Total(ledger, P) = Total(ledger, R)
    BY <1>4, <2>1 DEF Books, Even
  <2>13. Total(ledger, P) \in Int /\ Total(ledger, R) \in Int
    BY <1>13, TotalInt
  <2>14. 0 - SumOver(f, P \cup {x}) = SumOver(f, R \cup S)
    BY <1>14, <2>9, <2>10, <2>11, <2>12, <2>13
  <2>15. QED BY <2>2, <2>3, <2>14 DEF Even, Total
<1>17. ASSUME NEW q \in Payouts, po[q].status \in Counted
       PROVE  po[q].net = Total(k, Attached(k, q))
  <2>1. /\ payout[q].status \in Counted /\ po[q].net = payout[q].net
    BY <1>4, <1>9, <1>10, <1>17 DEF Counted
  <2>2. ASSUME NEW r \in Rows
        PROVE  /\ (k[r].payout = q /\ k[r].kind # "PAYOUT")
                    <=> (ledger[r].payout = q /\ ledger[r].kind # "PAYOUT")
               /\ ledger[r].payout = q => k[r].amount = ledger[r].amount
    <3>1. CASE r = x
      BY <1>6, <1>7, <1>11, <3>1, PayoutsAssumption
    <3>2. CASE r # x
      BY <1>8, <3>2
    <3>3. QED BY <3>1, <3>2
  <2>3. QED BY <1>4, <2>1, <2>2, StillFigured DEF Books
<1>18. StagesBooks(t, rows, payouts)
  BY <1>3, <1>5, <1>15, <1>16, <1>17 DEF StagesBooks, Books, Figures
<1>19. QED BY <1>18

\* What a transaction that only reads has read.
ReadsTrue(t, x) ==
  /\ tx' = [tx EXCEPT ![t] = x]
  /\ UNCHANGED tables
  /\ x.pc # "staged"
  /\ x.pc = "marking" => \A r \in x.due : ledger[r].status = "PENDING"
  /\ x.pc = "moving" => <<payout[x.payout].status, x.to>> \in PayoutTransitions

LEMMA ReadingTrue ==
  ASSUME NEW t \in Threads,
         \/ Abort(t)
         \/ \E returned \in SUBSET Rows : FindDue(t, returned)
         \/ \E d \in 1..clock : Preview(t, d)
         \/ \E p \in Payouts,
                    to \in {"APPROVED", "PROCESSING", "PAID", "FAILED", "CANCELLED"} :
              LoadPayout(t, p, to)
  PROVE  \E x : ReadsTrue(t, x)
<1>1. CASE Abort(t)
  <2>1. ReadsTrue(t, Idle)
    BY <1>1 DEF Abort, ReadsTrue, Idle, tables
  <2>2. QED BY <2>1
<1>2. CASE \E returned \in SUBSET Rows : FindDue(t, returned)
  <2>1. PICK returned \in SUBSET Rows : FindDue(t, returned)
    BY <1>2
  <2>2. ReadsTrue(t, [pc |-> "marking", due |-> Due \ returned])
    BY <2>1 DEF FindDue, ReadsTrue, Due
  <2>3. QED BY <2>2
<1>3. CASE \E d \in 1..clock : Preview(t, d)
  <2>1. PICK d \in 1..clock : Preview(t, d)
    BY <1>3
  <2>2. ReadsTrue(t, [pc |-> "generating", periodTo |-> d])
    BY <2>1 DEF Preview, ReadsTrue
  <2>3. QED BY <2>2
<1>4. CASE \E p \in Payouts, to \in {"APPROVED", "PROCESSING", "PAID", "FAILED", "CANCELLED"} :
             LoadPayout(t, p, to)
  <2>1. PICK p \in Payouts, to \in {"APPROVED", "PROCESSING", "PAID", "FAILED", "CANCELLED"} :
          LoadPayout(t, p, to)
    BY <1>4
  <2>2. ReadsTrue(t, [pc |-> "moving", payout |-> p, to |-> to])
    BY <2>1 DEF LoadPayout, ReadsTrue
  <2>3. QED BY <2>2
<1>5. QED BY <1>1, <1>2, <1>3, <1>4

LEMMA AccountsStep ==
  ASSUME TypeOK, LedgerInv, Apart, Accounts, [Next]_vars
  PROVE  Accounts'
<1> SUFFICES ASSUME ~overlapped' PROVE Accounts'
  BY DEF Accounts
<1>0. ~overlapped
  BY OverlapStep
<1>1. CASE UNCHANGED vars \/ NextDay
  BY <1>0, <1>1 DEF vars, tables, NextDay, Accounts, Staged
<1>2. ASSUME NEW t \in Threads, Commit(t) PROVE Accounts'
  <2>1. /\ Staged(t)
        /\ ledger' = Overlay(ledger, tx[t].rows) /\ payout' = Overlay(payout, tx[t].payouts)
        /\ \A u \in Threads : tx'[u] = IF u = t THEN Idle ELSE tx[u]
    BY <1>2 DEF Commit, Staged, TypeOK
  <2>2. Books(ledger', payout')
    BY <1>0, <2>1 DEF Accounts
  <2>3. Alone(t)
    BY <1>0, <2>1 DEF Apart, Staged, Idle
  <2>4. \A u \in Threads : tx'[u].pc = "idle"
    BY <2>1, <2>3 DEF Alone, Idle
  <2>5. Books(ledger, payout)'
    BY <2>2 DEF Books, Filed, Figures, Even, Total, Attached, PaidIn, PaidFrom
  <2>6. QED BY <2>4, <2>5 DEF Accounts, Staged
<1>3. ASSUME NEW t \in Threads, NEW x, ReadsTrue(t, x) PROVE Accounts'
  <2>1. /\ UNCHANGED <<ledger, payout>>
        /\ \A u \in Threads : tx'[u] = IF u = t THEN x ELSE tx[u]
    BY <1>3 DEF ReadsTrue, tables, TypeOK
  <2>2. QED BY <1>0, <1>3, <2>1 DEF Accounts, ReadsTrue, Staged
<1>4. ASSUME NEW t \in Threads, NEW rows, NEW payouts, StagesBooks(t, rows, payouts)
      PROVE  Accounts'
  <2>1. /\ UNCHANGED <<ledger, payout>>
        /\ \A u \in Threads \ {t} : tx'[u] = tx[u]
        /\ tx'[t].pc = "staged" /\ tx'[t].rows = rows /\ tx'[t].payouts = payouts
    BY <1>4 DEF StagesBooks, Write, tables, TypeOK
  <2>2. Books(Overlay(ledger, rows), Overlay(payout, payouts))
    BY <1>4 DEF StagesBooks
  <2>3. QED BY <1>0, <2>1, <2>2 DEF Accounts, Staged
<1>5. CASE Next
  <2>0. Books(ledger, payout)
    BY <1>0 DEF Accounts
  <2>1. ASSUME NEW t \in Threads,
               \/ Abort(t)
               \/ \E returned \in SUBSET Rows : FindDue(t, returned)
               \/ \E d \in 1..clock : Preview(t, d)
               \/ \E p \in Payouts,
                    to \in {"APPROVED", "PROCESSING", "PAID", "FAILED", "CANCELLED"} :
                    LoadPayout(t, p, to)
        PROVE  Accounts'
    BY <1>3, <2>1, ReadingTrue
  <2>2. ASSUME NEW t \in Threads, NEW r \in Rows,
               \/ \E a \in Amounts, at \in 1..MaxClock : RecordEarnings(t, r, a, at)
               \/ \E e \in Rows : \E s \in 1..Remaining(e) : ReverseEarnings(t, r, e, s)
               \/ \E a \in Adjustments : RecordAdjustment(t, r, a)
        PROVE  Accounts'
    BY <1>4, <2>0, <2>2, RecordsBooks
  <2>3. ASSUME NEW t \in Threads, RecomputeBalance(t) \/ MarkAvailable(t) \/ Advance(t)
        PROVE  Accounts'
    BY <1>0, <1>4, <2>3, KeepingBooks
  <2>4. ASSUME NEW t \in Threads, NEW p \in Payouts, SchedulePayout(t, p)
        PROVE  Accounts'
    BY <1>4, <2>0, <2>4, ScheduleBooks
  <2>5. ASSUME NEW t \in Threads, Release(t) PROVE Accounts'
    BY <1>0, <1>4, <2>5, ReleaseBooks
  <2>6. ASSUME NEW t \in Threads, NEW r \in Rows, Pay(t, r) PROVE Accounts'
    BY <1>0, <1>4, <2>6, PayBooks
  <2>7. QED
    BY <1>1, <1>2, <1>5, <2>1, <2>2, <2>3, <2>4, <2>5, <2>6 DEF Next
<1>6. QED BY <1>1, <1>5

LEMMA AccountsInvariant == Spec => []Accounts
<1>1. Init => Accounts
  <2> SUFFICES ASSUME Init PROVE Books(ledger, payout) /\ \A t \in Threads : tx[t].pc = "idle"
    BY DEF Accounts, Staged
  <2>1. \A t \in Threads : tx[t].pc = "idle"
    BY DEF Init, Idle
  <2>2. \A r \in Rows : ledger[r] = Absent
    BY DEF Init
  <2>3. Filed(ledger, payout)
    BY <2>2 DEF Filed, Absent
  <2>4. Figures(ledger, payout)
    BY DEF Init, Figures, NoStatement, Counted, OpenStatus
  <2>5. PaidFrom(ledger) = {} /\ PaidIn(ledger) = {}
    BY <2>2 DEF PaidFrom, PaidIn, Absent
  <2>6. Total(ledger, {}) = 0
    BY SumOverEmpty DEF Total
  <2>7. Even(ledger)
    BY <2>5, <2>6 DEF Even
  <2>8. QED BY <2>1, <2>3, <2>4, <2>7 DEF Books
<1>2. QED BY <1>1, AccountsStep, TypeCorrect, LedgerInvariant, ApartInvariant, PTL DEF Spec

\* As long as no two transactions have overlapped, a seller has been paid exactly
\* what the PAID rows add up to, whatever failed, was handed back and scheduled
\* again in between (transitionPayout).
THEOREM PaidOutOnce == Spec => []PaidOnce
<1>1. Accounts => PaidOnce
  BY DEF Accounts, Books, Even, PaidOnce, PaidOut, PaidRows, PaidFrom, PaidIn
<1>2. QED BY <1>1, AccountsInvariant, PTL

\* As long as no two transactions have overlapped, the figure of a statement is the
\* sum of its rows from the moment it is made until it is paid (generatePayout).
THEOREM StatementsMatch == Spec => []StatementMatchesRows
<1>1. \A p \in Payouts : { r \in Rows : ledger[r].payout = p } \ PayoutRows(p) = Attached(ledger, p)
  BY DEF PayoutRows, Attached
<1>2. Accounts => StatementMatchesRows
  BY <1>1 DEF Accounts, Books, Figures, Counted, StatementMatchesRows
<1>3. QED BY <1>2, AccountsInvariant, PTL
=============================================================================
