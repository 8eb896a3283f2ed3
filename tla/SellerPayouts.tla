--------------------------- MODULE SellerPayouts ---------------------------
(***************************************************************************)
(* One seller's ledger and the statements paid from it: the earnings of     *)
(* delivered items, their reversal by refunds, manual adjustments, the end  *)
(* of the hold (markEarningsAvailable), generatePayout, transitionPayout    *)
(* and the SellerBalance that every one of them recomputes.                 *)
(*                                                                         *)
(* Transactions are READ COMMITTED and take no lock before they write.  One *)
(* that decides from what it has read does so in a step of its own; then it *)
(* writes (its rows are locked, and visible to itself alone) and sums up    *)
(* the balance it sees; its last step overwrites SellerBalance and commits. *)
(*                                                                         *)
(* The SALE, COMMISSION and CHARGE rows of an item are written, released,   *)
(* scheduled and paid together: they are one row, EARNING, with their sum.  *)
(***************************************************************************)
EXTENDS Integers, FiniteSets, Sums

CONSTANTS
  Rows,         \* ids of SellerLedgerEntry rows
  NoRow,        \* no row
  Payouts,      \* ids of SellerPayout rows
  NoPayout,     \* payoutId null
  Threads,      \* requests and job runs that may overlap
  Amounts,      \* what a delivered item earns
  Charge,       \* the part of it that was charged and is never reversed
  Adjustments,  \* manual credits and debits
  MinPayout,    \* the setting marketplace.min_payout_paise
  MaxClock      \* bound: days

ASSUME RowsAssumption == IsFiniteSet(Rows) /\ NoRow \notin Rows
ASSUME PayoutsAssumption == NoPayout \notin Payouts
ASSUME AmountsAssumption ==
  /\ Amounts \subseteq Int /\ Charge \in Nat /\ Adjustments \subseteq Int
  /\ MinPayout \in Nat /\ MaxClock \in Nat \ {0}

VARIABLES
  ledger,     \* SellerLedgerEntry
  payout,     \* SellerPayout
  balance,    \* SellerBalance
  clock,      \* today
  tx,         \* the transactions in flight
  overlapped  \* history: two of them have been in flight at once

tables == <<ledger, payout, balance>>
vars == <<tables, clock, tx, overlapped>>

----------------------------------------------------------------------------
OpenStatus == {"PENDING", "APPROVED", "PROCESSING"}

PayoutTransitions ==
  { <<"PENDING", "APPROVED">>, <<"PENDING", "CANCELLED">>,
    <<"APPROVED", "PROCESSING">>, <<"APPROVED", "CANCELLED">>,
    <<"PROCESSING", "PAID">>, <<"PROCESSING", "FAILED">> }

Absent == [kind |-> "NONE", amount |-> 0, status |-> "NONE", payout |-> NoPayout,
           at |-> 0, of |-> NoRow]
NoStatement == [status |-> "ABSENT", net |-> 0]

Entry(kind, amount, status, at, of) ==
  [kind |-> kind, amount |-> amount, status |-> status, payout |-> NoPayout,
   at |-> at, of |-> of]

\* A table as the transaction that changed the rows of g sees it.
Overlay(f, g) == [x \in DOMAIN f |-> IF x \in DOMAIN g THEN g[x] ELSE f[x]]

Total(l, S) == SumOver([r \in Rows |-> l[r].amount], S)

\* recomputeSellerBalance.
Balance(l) ==
  LET WithStatus(s) == { r \in Rows : l[r].status = s }
  IN  [ pending |-> Total(l, WithStatus("PENDING")),
        available |-> Total(l, WithStatus("AVAILABLE")),
        scheduled |-> Total(l, WithStatus("SCHEDULED")),
        paid |-> 0 - Total(l, { r \in Rows : l[r].kind = "PAYOUT" }) ]

Idle == [pc |-> "idle"]

Init ==
  /\ ledger = [r \in Rows |-> Absent]
  /\ payout = [p \in Payouts |-> NoStatement]
  /\ balance = Balance(ledger)
  /\ clock = 1
  /\ tx = [t \in Threads |-> Idle]
  /\ overlapped = FALSE

----------------------------------------------------------------------------
(* Transactions.                                                            *)

Begins(t) ==
  /\ tx[t] = Idle
  /\ overlapped' = (overlapped \/ \E u \in Threads : tx[u] # Idle)

Goes == UNCHANGED overlapped

Staged(t) == tx[t].pc = "staged"

\* A row nobody has inserted.
Fresh(r) ==
  /\ ledger[r] = Absent
  /\ \A u \in Threads : Staged(u) => r \notin DOMAIN tx[u].rows

\* Mutant: the balance is recomputed before the write.
OwnView_Before(rows) == ledger

OwnView(rows) == Overlay(ledger, rows)

\* The row locks of those who have written, then the writes and the sums.
Write(t, rows, payouts) ==
  /\ \A u \in Threads \ {t} : Staged(u) =>
       /\ DOMAIN rows \cap DOMAIN tx[u].rows = {}
       /\ DOMAIN payouts \cap DOMAIN tx[u].payouts = {}
  /\ tx' = [tx EXCEPT ![t] = [pc |-> "staged", rows |-> rows, payouts |-> payouts,
                              balance |-> Balance(OwnView(rows))]]
  /\ UNCHANGED <<tables, clock>>

Insert(t, r, row) ==
  /\ Begins(t)
  /\ Fresh(r)
  /\ Write(t, [x \in {r} |-> row], [p \in {} |-> NoStatement])

Commit(t) ==
  /\ Staged(t)
  /\ ledger' = Overlay(ledger, tx[t].rows)
  /\ payout' = Overlay(payout, tx[t].payouts)
  /\ balance' = tx[t].balance
  /\ tx' = [tx EXCEPT ![t] = Idle]
  /\ UNCHANGED <<clock, overlapped>>

\* A crash, a time-out, a deadlock or a unique index: nothing is kept.
Abort(t) ==
  /\ tx[t] # Idle
  /\ tx' = [tx EXCEPT ![t] = Idle]
  /\ UNCHANGED <<tables, clock, overlapped>>

----------------------------------------------------------------------------
(* What the ledger records.                                                 *)

Recording == \E u \in Threads : Staged(u) /\ \E x \in DOMAIN tx[u].rows :
               tx[u].rows[x].status = "PENDING"
Reversing(e) == \E u \in Threads : Staged(u) /\ \E x \in DOMAIN tx[u].rows :
                  tx[u].rows[x].of = e

\* recordEarningsForDeliveredItems; its update of the Seller row makes two of
\* them wait for each other.
RecordEarnings(t, r, amount, at) ==
  /\ ~Recording
  /\ at >= clock
  /\ Insert(t, r, Entry("EARNING", amount, "PENDING", at, NoRow))

\* Sale less commission, less what earlier refunds reversed of it.
Remaining(e) ==
  ledger[e].amount + Charge + Total(ledger, { r \in Rows : ledger[r].of = e })

\* Mutant: the reversal has the sign of the sale.
Reversal_Positive(e, share) == Entry("REVERSAL", share, "AVAILABLE", clock, e)

Reversal(e, share) == Entry("REVERSAL", 0 - share, "AVAILABLE", clock, e)

\* reverseEarningsForRefund, under the lock of the refund's order.
ReverseEarnings(t, r, e, share) ==
  /\ ledger[e].kind = "EARNING"
  /\ ~Reversing(e)
  /\ Insert(t, r, Reversal(e, share))

RecordAdjustment(t, r, amount) ==
  Insert(t, r, Entry("ADJUSTMENT", amount, "AVAILABLE", clock, NoRow))

\* recomputeBalanceForSeller.
RecomputeBalance(t) ==
  /\ Begins(t)
  /\ Write(t, [r \in {} |-> Absent], [p \in {} |-> NoStatement])

----------------------------------------------------------------------------
(* markEarningsAvailable.                                                   *)

\* Mutant: rows are due whatever became of them.
Due_AnyStatus == { r \in Rows : ledger[r].kind = "EARNING" /\ ledger[r].at <= clock }

\* The hold is over.
Due == { r \in Rows : ledger[r].status = "PENDING" /\ ledger[r].at <= clock }

\* Rows whose item has an open return request are left out.
FindDue(t, returned) ==
  /\ Begins(t)
  /\ Due \ returned # {}
  /\ tx' = [tx EXCEPT ![t] = [pc |-> "marking", due |-> Due \ returned]]
  /\ UNCHANGED <<tables, clock>>

\* The update is by id: it does not look at the status again.
MarkAvailable(t) ==
  /\ tx[t].pc = "marking" /\ Goes
  /\ Write(t, [r \in tx[t].due |-> [ledger[r] EXCEPT !.status = "AVAILABLE"]],
           [p \in {} |-> NoStatement])

----------------------------------------------------------------------------
(* generatePayout.                                                          *)

Eligible(periodTo) ==
  { r \in Rows : /\ ledger[r].status = "AVAILABLE" /\ ledger[r].payout = NoPayout
                 /\ ledger[r].at <= periodTo }

\* Mutant: the minimum itself is paid out.
WorthPaying_AtMinimum(net) == net >= MinPayout

WorthPaying(net) == net > MinPayout

NoneOpen == \A p \in Payouts : payout[p].status \notin OpenStatus

Preview(t, periodTo) ==
  /\ Begins(t)
  /\ NoneOpen
  /\ WorthPaying(Total(ledger, Eligible(periodTo)))
  /\ tx' = [tx EXCEPT ![t] = [pc |-> "generating", periodTo |-> periodTo]]
  /\ UNCHANGED <<tables, clock>>

\* Mutant: no unique index.
OnlyOpen_Unchecked(t, p) == TRUE

\* SellerPayout_open_per_seller: another open statement, or one that is being
\* opened, stands in the way.
OnlyOpen(t, p) ==
  /\ \A q \in Payouts \ {p} : payout[q].status \notin OpenStatus
  /\ \A u \in Threads \ {t} : Staged(u) =>
       \A q \in DOMAIN tx[u].payouts : tx[u].payouts[q].status \notin OpenStatus

\* Mutant: the statement's figures are those of all that is available.
Net_Available(rows) == Total(ledger, Eligible(MaxClock))

\* Read back from the rows that were scheduled.
Net(rows) == Total(ledger, rows)

SchedulePayout(t, p) ==
  /\ tx[t].pc = "generating" /\ Goes
  /\ payout[p] = NoStatement
  /\ OnlyOpen(t, p)
  /\ LET rows == Eligible(tx[t].periodTo)
     IN  Write(t,
           [r \in rows |-> [ledger[r] EXCEPT !.status = "SCHEDULED", !.payout = p]],
           [q \in {p} |-> [status |-> "PENDING", net |-> Net(rows)]])

----------------------------------------------------------------------------
(* transitionPayout.                                                        *)

LoadPayout(t, p, to) ==
  /\ Begins(t)
  /\ <<payout[p].status, to>> \in PayoutTransitions
  /\ tx' = [tx EXCEPT ![t] = [pc |-> "moving", payout |-> p, to |-> to]]
  /\ UNCHANGED <<tables, clock>>

Scheduled(p) == { r \in Rows : ledger[r].payout = p /\ ledger[r].status = "SCHEDULED" }

\* The statement's status is written by id.
SetStatus(t) ==
  [q \in {tx[t].payout} |-> [payout[q] EXCEPT !.status = tx[t].to]]

Advance(t) ==
  /\ tx[t].pc = "moving" /\ tx[t].to \in {"APPROVED", "PROCESSING"} /\ Goes
  /\ OnlyOpen(t, tx[t].payout)
  /\ Write(t, [r \in {} |-> Absent], SetStatus(t))

\* Mutant: the row that pays adds to the ledger.
PayoutRow_Positive(p) ==
  [Entry("PAYOUT", payout[p].net, "PAID", clock, NoRow) EXCEPT !.payout = p]

PayoutRow(p) ==
  [Entry("PAYOUT", 0 - payout[p].net, "PAID", clock, NoRow) EXCEPT !.payout = p]

Pay(t, r) ==
  LET p == tx[t].payout
  IN  /\ tx[t].pc = "moving" /\ tx[t].to = "PAID" /\ Goes
      /\ Fresh(r)
      /\ Write(t, [x \in Scheduled(p) \cup {r} |->
                     IF x = r THEN PayoutRow(p) ELSE [ledger[x] EXCEPT !.status = "PAID"]],
               SetStatus(t))

\* Mutant: only a failed statement hands its rows back.
HandedBack_Failed(p, to) == IF to = "FAILED" THEN Scheduled(p) ELSE {}

HandedBack(p, to) == Scheduled(p)

Release(t) ==
  LET p == tx[t].payout
  IN  /\ tx[t].pc = "moving" /\ tx[t].to \in {"FAILED", "CANCELLED"} /\ Goes
      /\ Write(t, [r \in HandedBack(p, tx[t].to) |->
                     [ledger[r] EXCEPT !.status = "AVAILABLE", !.payout = NoPayout]],
               SetStatus(t))

----------------------------------------------------------------------------
NextDay ==
  /\ clock < MaxClock
  /\ clock' = clock + 1
  /\ UNCHANGED <<tables, tx, overlapped>>

----------------------------------------------------------------------------
Next ==
  \/ \E t \in Threads :
       \/ Commit(t) \/ Abort(t)
       \/ \E r \in Rows :
            \/ \E a \in Amounts, at \in 1..MaxClock : RecordEarnings(t, r, a, at)
            \/ \E e \in Rows : \E s \in 1..Remaining(e) : ReverseEarnings(t, r, e, s)
            \/ \E a \in Adjustments : RecordAdjustment(t, r, a)
            \/ Pay(t, r)
       \/ RecomputeBalance(t)
       \/ \E returned \in SUBSET Rows : FindDue(t, returned)
       \/ MarkAvailable(t)
       \/ \E d \in 1..clock : Preview(t, d)
       \/ \E p \in Payouts : SchedulePayout(t, p)
       \/ \E p \in Payouts, to \in {"APPROVED", "PROCESSING", "PAID", "FAILED", "CANCELLED"} :
            LoadPayout(t, p, to)
       \/ Advance(t) \/ Release(t)
  \/ NextDay

Spec == Init /\ [][Next]_vars

----------------------------------------------------------------------------
(* Properties.                                                              *)

EntryType ==
  [kind : {"NONE", "EARNING", "REVERSAL", "ADJUSTMENT", "PAYOUT"}, amount : Int,
   status : {"NONE", "PENDING", "AVAILABLE", "SCHEDULED", "PAID"},
   payout : Payouts \cup {NoPayout}, at : 0..MaxClock, of : Rows \cup {NoRow}]

\* Reversals are debits.
Signed(row) == row.kind = "REVERSAL" => row.amount < 0

StatementType ==
  [status : OpenStatus \cup {"ABSENT", "PAID", "FAILED", "CANCELLED"}, net : Int]

BalanceType == [pending : Int, available : Int, scheduled : Int, paid : Int]

TxOK(x) ==
  \/ x = Idle
  \/ x.pc = "marking" /\ x.due \subseteq Rows
  \/ x.pc = "generating" /\ x.periodTo \in 1..MaxClock
  \/ x.pc = "moving" /\ x.payout \in Payouts
     /\ x.to \in {"APPROVED", "PROCESSING", "PAID", "FAILED", "CANCELLED"}
  \/ /\ x.pc = "staged"
     /\ DOMAIN x.rows \subseteq Rows
     /\ \A r \in DOMAIN x.rows : x.rows[r] \in EntryType /\ Signed(x.rows[r])
     /\ DOMAIN x.payouts \subseteq Payouts
     /\ \A p \in DOMAIN x.payouts : x.payouts[p] \in StatementType
     /\ x.balance \in BalanceType

\* Every variable has its type, and reversals are debits.
TypeOK ==
  /\ ledger \in [Rows -> EntryType] /\ \A r \in Rows : Signed(ledger[r])
  /\ payout \in [Payouts -> StatementType]
  /\ balance \in BalanceType
  /\ clock \in 1..MaxClock /\ overlapped \in BOOLEAN
  /\ DOMAIN tx = Threads /\ \A t \in Threads : TxOK(tx[t])

\* However transactions overlap, a row that is SCHEDULED waits for a statement
\* that can still be paid or released: none is left behind in limbo.
ScheduledIsOpen ==
  \A r \in Rows : ledger[r].status = "SCHEDULED" =>
    ledger[r].payout \in Payouts /\ payout[ledger[r].payout].status \in OpenStatus

\* A seller has at most one open statement at a time.
OneOpenStatement == Cardinality({ p \in Payouts : payout[p].status \in OpenStatus }) <= 1

PaidRows == { r \in Rows : ledger[r].status = "PAID" /\ ledger[r].kind # "PAYOUT" }
PayoutRows(p) == { r \in Rows : ledger[r].kind = "PAYOUT" /\ ledger[r].payout = p }
PaidOut == 0 - Total(ledger, { r \in Rows : ledger[r].kind = "PAYOUT" })

\* Whatever is shown as paid has been paid: a PAID statement, and each PAID
\* row's statement, has a PAYOUT row, and every PAYOUT row takes the
\* statement's net off the ledger.
PaidIsPaidOut ==
  /\ \A p \in Payouts : payout[p].status = "PAID" => PayoutRows(p) # {}
  /\ \A r \in PaidRows : PayoutRows(ledger[r].payout) # {}
  /\ \A p \in Payouts : \A r \in PayoutRows(p) : ledger[r].amount = 0 - payout[p].net

\* As long as no two transactions have overlapped, the seller gets exactly what
\* the PAID rows add up to: nothing is paid twice or not at all ...
PaidOnce == ~overlapped => PaidOut = Total(ledger, PaidRows)

\* ... a statement's figure is the sum of its rows, while it can be paid and
\* once it is ...
StatementMatchesRows ==
  ~overlapped => \A p \in Payouts : payout[p].status \in OpenStatus \cup {"PAID"} =>
    payout[p].net = Total(ledger, { r \in Rows : ledger[r].payout = p } \ PayoutRows(p))

\* ... it is above the minimum payout ...
AboveMinimum ==
  ~overlapped => \A p \in Payouts : payout[p].status # "ABSENT" => payout[p].net > MinPayout

\* ... and the balance shown to the seller is that of the ledger.
BalanceMatchesLedger == ~overlapped => balance = Balance(ledger)

----------------------------------------------------------------------------
(* Statements of the code's comments.                                       *)

\* "PAID moves the rows to PAID and appends the single PAYOUT row".
SinglePayoutRow == \A p \in Payouts : Cardinality(PayoutRows(p)) <= 1
=============================================================================
