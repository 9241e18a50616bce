--------------------------- MODULE CustodyProofs ---------------------------
(***************************************************************************)
(* What holds of Custody for every price, policy, number of workers and    *)
(* fault switch; and, from Once on, what a day without retries keeps,      *)
(* stated as a hypothesis of the theorems that need one.                   *)
(***************************************************************************)
EXTENDS Custody, TLAPS

-----------------------------------------------------------------------------
(* The helpers stay inside their types.                                    *)

(* Amounts never go below zero.                                            *)
LEMMA AmountTypes ==
    ASSUME NEW n \in Nat, NEW m \in Nat
    PROVE  Less(n, m) \in Nat /\ Least(n, m) \in Nat
BY DEF Less, Least

(* The customer's share of the paid amount, rounded down, is an amount.     *)
LEMMA PercentTypes ==
    ASSUME NEW n \in Nat, NEW percent \in 0..100
    PROVE  (n * percent) \div 100 \in Nat
<1> DEFINE k == n * percent
<1>1. k \in Nat
  OBVIOUS
<1> HIDE DEF k
<1>2. k \div 100 \in Nat
  BY <1>1
<1> QED
  BY <1>2 DEF k

(* Every event the actions name is one of Events, and the sweep is none.   *)
LEMMA EventTypes ==
    /\ {Completed, NoShow, Cancelled, Returned, BookingRefunded, BalancePaid,
        ReleaseRequested, RefundRequested} \subseteq Events
    /\ \A r \in Reasons : RefundCompleted(r) \in Events /\ RecoveryRequested(r) \in Events
    /\ ClawbackEvents \subseteq Events
    /\ Sweep \notin Events
    /\ {Cancellation, SecurityRefund, DisputeRefund} \subseteq Reasons
BY DEF Events, ClawbackEvents, RefundCompleted, RecoveryRequested, Completed, NoShow, Cancelled,
       Returned, BookingRefunded, BalancePaid, ReleaseRequested, RefundRequested, Ev, Sweep, Reasons

(* Emitting an event and committing a handler change one row of the outbox. *)
LEMMA OutboxTypes ==
    ASSUME NEW box \in [Events -> OutboxRow], NEW e \in Events \cup {Sweep}, NEW i \in 0..3
    PROVE  /\ e \in Events => Emit(box, e) \in [Events -> OutboxRow]
           /\ Ran(box, e, i) \in [Events -> OutboxRow]
BY EventTypes DEF Emit, Ran, OutboxRow

(* A dispute window, a freeze and a finalized refund leave a settlement row. *)
LEMMA WindowTypes ==
    ASSUME NEW row \in SettlementRow, NEW kind \in Kinds, NEW n \in Nat
    PROVE  Window(row, kind, n) \in SettlementRow
BY AmountTypes DEF Window, SettlementRow, SettlementStates

(* The freeze of prepareRefund leaves a settlement row.                    *)
LEMMA FrozenTypes ==
    ASSUME NEW row \in SettlementRow, NEW n \in Nat
    PROVE  Frozen(row, n) \in SettlementRow
BY AmountTypes DEF Frozen, SettlementRow, SettlementStates

(* Finalizing a refund, in part or in full, leaves a settlement row.       *)
LEMMA FinalizedTypes ==
    ASSUME NEW row \in SettlementRow, NEW r \in Reasons, NEW n \in Nat
    PROVE  Finalized(row, r, n) \in SettlementRow
BY AmountTypes DEF Finalized, SettlementRow, SettlementStates

-----------------------------------------------------------------------------
(* Type correctness.  Two facts strengthen it: the partner's on-site figure *)
(* is a difference that must not be negative, and a clawback indexes the   *)
(* ledger with what it read in an earlier statement.                       *)
TypeInv ==
    /\ TypeOK
    /\ paid <= Final
    /\ \A w \in Workers : txs[w].op = "clawback_write" => txs[w].arg \in 1..Len(ledger)

(* A freshly confirmed booking starts inside the type invariant.           *)
LEMMA TypeInit == Init => TypeInv
BY MoneyAssumption, EventTypes
DEF Init, TypeInv, TypeOK, BookingStates, SettlementRow, SettlementStates, Kinds, DisputeRow,
    BatchRow, Journal, TaxRows, OutboxRow, Transaction, Idle

(* Completing, returning, cancelling and paying keep the types.            *)
LEMMA BookingTypes == TypeInv /\ BookingNext => TypeInv'
<1> SUFFICES ASSUME TypeInv, BookingNext PROVE TypeInv'
  OBVIOUS
<1> USE MoneyAssumption, EventTypes, OutboxTypes
    DEF TypeInv, TypeOK, BookingStates, bookingVars, financeVars
<1>1. CASE MarkCompleted
  BY <1>1 DEF MarkCompleted
<1>2. CASE MarkReturned
  <2> DEFINE once == Emit(outbox, Returned)
  <2>1. once \in [Events -> OutboxRow]
    OBVIOUS
  <2>2. [state |-> "pending", ran |-> 0] \in OutboxRow
    BY DEF OutboxRow
  <2> HIDE DEF once
  <2>3. Emit(once, Completed) \in [Events -> OutboxRow]
    BY ONLY <2>1, <2>2 DEF Emit
  <2> QED
    BY <1>2, <2>3 DEF MarkReturned, once
<1>3. CASE MarkNoShow
  BY <1>3 DEF MarkNoShow
<1>4. ASSUME NEW percent \in RefundPercents \cup {100}, CancelBooking(percent)
      PROVE  TypeInv'
  <2>1. paid \in Nat /\ percent \in 0..100
    OBVIOUS
  <2>2. (paid * percent) \div 100 \in Nat
    BY ONLY <2>1, PercentTypes
  <2> QED
    BY <1>4, <2>2 DEF CancelBooking
<1>5. CASE OpenBalanceLink
  BY <1>5 DEF OpenBalanceLink
<1>6. CASE BalanceSucceeds
  BY <1>6 DEF BalanceSucceeds
<1> QED
  BY <1>1, <1>2, <1>3, <1>4, <1>5, <1>6 DEF BookingNext

(* Outdating the open releases disturbs no clawback.                       *)
LEMMA OutdatedTypes ==
    ASSUME txs \in [Workers -> Transaction]
    PROVE  /\ Outdated \in [Workers -> Transaction]
           /\ \A w \in Workers : Outdated[w].op = txs[w].op /\ Outdated[w].arg = txs[w].arg
BY DEF Outdated, Transaction

(* Opening and resolving the dispute keep the types.                       *)
LEMMA DisputeTypes == TypeInv /\ DisputeNext => TypeInv'
<1> SUFFICES ASSUME TypeInv, DisputeNext PROVE TypeInv'
  OBVIOUS
<1> USE DEF TypeInv, TypeOK, bookingVars, financeVars
<1>1. CASE OpenSettlementDispute
  BY <1>1 DEF OpenSettlementDispute, SettlementRow, SettlementStates, DisputeRow
<1>2. CASE ResolveForRelease
  <2>1. outbox' \in [Events -> OutboxRow]
    BY <1>2, OutboxTypes, EventTypes DEF ResolveForRelease
  <2>2. settlement' \in SettlementRow /\ dispute' \in DisputeRow
    BY <1>2 DEF ResolveForRelease, SettlementRow, SettlementStates, DisputeRow
  <2> QED
    BY <1>2, <2>1, <2>2, OutdatedTypes DEF ResolveForRelease
<1>3. ASSUME NEW amount \in 1..settlement.held, ResolveWithRefund(amount)
      PROVE  TypeInv'
  <2>1. amount \in Nat /\ settlement.refunded \in Nat
    BY DEF SettlementRow
  <2>2. Frozen(settlement, settlement.refunded + amount) \in SettlementRow
    BY <2>1, FrozenTypes
  <2>3. outbox' \in [Events -> OutboxRow]
    BY <1>3, OutboxTypes, EventTypes DEF ResolveWithRefund
  <2>4. dispute' \in DisputeRow
    BY <1>3, <2>1 DEF ResolveWithRefund, DisputeRow
  <2> QED
    BY <1>3, <2>2, <2>3, <2>4 DEF ResolveWithRefund
<1> QED
  BY <1>1, <1>2, <1>3 DEF DisputeNext

(* Planning a batch of any reason and amount keeps the types.              *)
LEMMA ExecuteRefundTypes ==
    ASSUME TypeInv, NEW e \in Events, NEW i \in 1..3, NEW reason \in Reasons,
           NEW amount \in Nat, NEW affects \in BOOLEAN, ExecuteRefund(e, i, reason, amount, affects)
    PROVE  TypeInv'
<1>1. outbox' \in [Events -> OutboxRow]
  BY OutboxTypes DEF ExecuteRefund, TypeInv, TypeOK
<1>2. batches' \in [Reasons -> BatchRow]
  BY DEF ExecuteRefund, TypeInv, TypeOK, BatchRow
<1> QED
  BY <1>1, <1>2 DEF ExecuteRefund, TypeInv, TypeOK, bookingVars, financeVars

(* A reversal adds what is missing up to the refunded part of the tax base. *)
LEMMA ReversalTypes ==
    ASSUME tax \in TaxRows, NEW r \in Reasons, NEW n \in Nat
    PROVE  WithholdingReversal(r, n) \in TaxRows
<1>1. tax.assessed \in Nat /\ Reversed \in Nat
  BY EventTypes DEF Reversed, TaxRows
<1>2. Least(n, tax.assessed) \in Nat
  BY <1>1, AmountTypes
<1>3. CASE Least(n, tax.assessed) > Reversed
  <2>1. Least(n, tax.assessed) - Reversed \in Nat
    BY <1>1, <1>2, <1>3
  <2> QED
    BY <2>1 DEF WithholdingReversal, TaxRows
<1> QED
  BY <1>3 DEF WithholdingReversal

(* What a release books is an amount, and an active journal is in the ledger. *)
LEMMA ActiveRevenueTypes ==
    ASSUME ledger \in Seq(Journal)
    PROVE  /\ ActiveRevenue(ledger) \in Nat
           /\ ActiveRevenue(ledger) # 0 => ActiveRevenue(ledger) \in 1..Len(ledger)
BY DEF ActiveRevenue

(* A transaction that begins is none that is about to write a clawback.    *)
LEMMA BeginTypes ==
    ASSUME txs \in [Workers -> Transaction], NEW w \in Workers,
           NEW op \in {"release", "clawback_read"}, NEW e \in Events \cup {Sweep},
           NEW i \in 1..2, NEW arg \in Nat, Begin(w, op, e, i, arg)
    PROVE  /\ txs' \in [Workers -> Transaction]
           /\ \A v \in Workers : txs'[v].op = "clawback_write" => txs'[v] = txs[v]
<1> DEFINE tx == [op |-> op, event |-> e, step |-> i, arg |-> arg, current |-> TRUE]
<1>1. tx \in Transaction /\ tx.op # "clawback_write"
  BY DEF Transaction
<1>2. txs' = [txs EXCEPT ![w] = tx]
  BY DEF Begin
<1> HIDE DEF tx
<1> QED
  BY <1>1, <1>2

(* A release begins with an amount that is never negative.                 *)
LEMMA BeginReleaseTypes ==
    ASSUME TypeInv, NEW w \in Workers, NEW e \in Events \cup {Sweep}, BeginRelease(w, e)
    PROVE  TypeInv'
<1> USE DEF TypeInv, TypeOK
<1>1. ReleasePlan \in Nat
  BY AmountTypes DEF ReleasePlan, SettlementRow
<1>2. txs' \in [Workers -> Transaction]
      /\ \A v \in Workers : txs'[v].op = "clawback_write" => txs'[v] = txs[v]
  <2>1. txs \in [Workers -> Transaction] /\ 1 \in 1..2
    OBVIOUS
  <2>2. Begin(w, "release", e, 1, ReleasePlan)
    BY DEF BeginRelease
  <2> QED
    BY ONLY <1>1, <2>1, <2>2, BeginTypes
<1> QED
  BY <1>2 DEF BeginRelease, bookingVars, financeVars

(* Every outbox handler, run first or again, keeps the types.              *)
LEMMA HandlerTypes == TypeInv /\ HandlerNext => TypeInv'
<1> SUFFICES ASSUME TypeInv, HandlerNext PROVE TypeInv'
  OBVIOUS
<1> USE DEF TypeInv, TypeOK, bookingVars, financeVars
<1>1. CASE RecordHeldSettlement
  <2>1. outbox' \in [Events -> OutboxRow]
    BY <1>1, OutboxTypes, EventTypes DEF RecordHeldSettlement
  <2>2. Captured - Security \in Nat
    BY MoneyAssumption DEF Captured
  <2>3. settlement' \in SettlementRow
    BY <1>1, <2>2 DEF RecordHeldSettlement, SettlementRow
  <2> QED
    BY <1>1, <2>1, <2>3 DEF RecordHeldSettlement
<1>2. CASE RecordBalancePayment
  <2>1. outbox' \in [Events -> OutboxRow]
    BY <1>2, OutboxTypes, EventTypes DEF RecordBalancePayment
  <2> QED
    BY <1>2, <2>1, MoneyAssumption DEF RecordBalancePayment
<1>3. CASE StartSettlementWindow
  <2>1. outbox' \in [Events -> OutboxRow]
    BY <1>3, OutboxTypes, EventTypes DEF StartSettlementWindow
  <2>2. settlement.held \in Nat /\ Less(Final, settlement.held) \in Nat
    BY AmountTypes, MoneyAssumption DEF SettlementRow
  <2>3. settlement' \in SettlementRow
    BY <1>3, <2>2, WindowTypes DEF StartSettlementWindow, Kinds
  <2>4. tax' \in TaxRows
    BY <1>3, MoneyAssumption DEF StartSettlementWindow, Assess, TaxRows
  <2> QED
    BY <1>3, <2>1, <2>3, <2>4 DEF StartSettlementWindow
<1>4. CASE StartNoShowWindow
  <2>1. outbox' \in [Events -> OutboxRow]
    BY <1>4, OutboxTypes, EventTypes DEF StartNoShowWindow
  <2>2. settlement.held \in Nat
    BY DEF SettlementRow
  <2>3. settlement' \in SettlementRow
    BY <1>4, WindowTypes DEF StartNoShowWindow, Kinds
  <2>4. tax' \in TaxRows
    BY <1>4, <2>2 DEF StartNoShowWindow, Assess, TaxRows
  <2> QED
    BY <1>4, <2>1, <2>3, <2>4 DEF StartNoShowWindow
<1>5. CASE PrepareCancellationRefund
  <2>1. outbox' \in [Events -> OutboxRow]
    BY <1>5, OutboxTypes, EventTypes DEF PrepareCancellationRefund
  <2>2. Less(refundDue, Security) \in Nat
    BY AmountTypes, MoneyAssumption
  <2> DEFINE row == Frozen(settlement, Less(refundDue, Security))
  <2>3. row \in SettlementRow /\ [row EXCEPT !.kind = "cancellation_fee"] \in SettlementRow
    <3>1. row \in SettlementRow
      BY <2>2, FrozenTypes
    <3> HIDE DEF row
    <3> QED
      BY <3>1 DEF SettlementRow, Kinds
  <2>4. Window(settlement, "cancellation_fee", 0) \in SettlementRow
    BY WindowTypes DEF Kinds
  <2>5. settlement' \in {settlement, Window(settlement, "cancellation_fee", 0), row,
                         [row EXCEPT !.kind = "cancellation_fee"]}
    BY <1>5 DEF PrepareCancellationRefund
  <2> HIDE DEF row
  <2>6. settlement' \in SettlementRow
    BY <2>3, <2>4, <2>5
  <2> QED
    BY <1>5, <2>1, <2>6 DEF PrepareCancellationRefund
<1>6. CASE PlanRefunds
  <2>1. refundDue \in Nat /\ returned \in Nat /\ Security \in Nat
        /\ dispute.refund \in Nat /\ dispute.full \in BOOLEAN
        /\ 1 \in 1..3 /\ 2 \in 1..3 /\ TRUE \in BOOLEAN /\ FALSE \in BOOLEAN
    BY MoneyAssumption DEF DisputeRow
  <2> HIDE DEF TypeInv
  <2>2. CASE ExecuteRefund(Cancelled, 2, Cancellation, refundDue, TRUE)
    BY ONLY <2>1, <2>2, TypeInv, EventTypes, ExecuteRefundTypes
  <2>3. CASE ExecuteRefund(Returned, 1, SecurityRefund, returned, FALSE)
    BY ONLY <2>1, <2>3, TypeInv, EventTypes, ExecuteRefundTypes
  <2>4. CASE ExecuteRefund(NoShow, 2, SecurityRefund, Security, FALSE)
    BY ONLY <2>1, <2>4, TypeInv, EventTypes, ExecuteRefundTypes
  <2>5. CASE ExecuteRefund(RefundRequested, 1, DisputeRefund, dispute.refund, dispute.full)
    BY ONLY <2>1, <2>5, TypeInv, EventTypes, ExecuteRefundTypes
  <2>6. CASE ExecuteRefund(RecoveryRequested(Cancellation), 1, Cancellation, refundDue, TRUE)
    BY ONLY <2>1, <2>6, TypeInv, EventTypes, ExecuteRefundTypes
  <2>7. CASE ExecuteRefund(RecoveryRequested(SecurityRefund), 1, SecurityRefund, Security, FALSE)
    BY ONLY <2>1, <2>7, TypeInv, EventTypes, ExecuteRefundTypes
  <2> QED
    BY <1>6, <2>2, <2>3, <2>4, <2>5, <2>6, <2>7 DEF PlanRefunds
<1>7. CASE SkipRelease
  <2>1. outbox' \in [Events -> OutboxRow]
    BY <1>7, OutboxTypes, EventTypes DEF SkipRelease
  <2> QED
    BY <1>7, <2>1 DEF SkipRelease
<1>8. ASSUME NEW r \in Reasons, IgnoreRefundCompleted(r) PROVE TypeInv'
  BY <1>8, OutboxTypes, EventTypes DEF IgnoreRefundCompleted
<1>9. ASSUME NEW r \in Reasons, FinalizeRefundedBooking(r) PROVE TypeInv'
  <2>1. outbox' \in [Events -> OutboxRow]
    <3>1. Ran(outbox, RefundCompleted(r), 3) \in [Events -> OutboxRow]
      BY OutboxTypes, EventTypes
    <3>2. Emit(Ran(outbox, RefundCompleted(r), 3), BookingRefunded) \in [Events -> OutboxRow]
      BY <3>1, OutboxTypes, EventTypes
    <3> QED
      BY <1>9, <3>1, <3>2 DEF FinalizeRefundedBooking
  <2> QED
    BY <1>9, <2>1 DEF FinalizeRefundedBooking, BookingStates
<1>10. ASSUME NEW r \in Reasons, FinalizeSettlementRefund(r) PROVE TypeInv'
  <2>1. outbox' \in [Events -> OutboxRow]
    BY <1>10, OutboxTypes, EventTypes DEF FinalizeSettlementRefund
  <2>2. batches[r].amount \in Nat /\ settlement.refunded \in Nat
    BY DEF BatchRow, SettlementRow
  <2>3. FinalRefunded(r) \in Nat
    <3>1. Less(batches[r].amount, Security) \in Nat
      BY <2>2, AmountTypes, MoneyAssumption
    <3> QED
      BY <2>2, <3>1 DEF FinalRefunded, Reasons
  <2>4. settlement' \in SettlementRow
    BY <1>10, <2>3, FinalizedTypes DEF FinalizeSettlementRefund
  <2>5. WithholdingReversal(r, FinalRefunded(r)) \in TaxRows
    BY <2>3, ReversalTypes
  <2>6. tax' \in TaxRows
    BY <1>10, <2>5 DEF FinalizeSettlementRefund
  <2> QED
    BY <1>10, <2>1, <2>4, <2>6, OutdatedTypes DEF FinalizeSettlementRefund
<1>11. ASSUME NEW w \in Workers, BeginRelease(w, ReleaseRequested) PROVE TypeInv'
  BY <1>11, BeginReleaseTypes, EventTypes
<1>12. ASSUME NEW w \in Workers, NEW e \in ClawbackEvents, BeginClawback(w, e) PROVE TypeInv'
  <2>1. e \in Events /\ ClawbackStep(e) \in 1..2
    BY EventTypes DEF ClawbackStep
  <2>2. outbox' \in [Events -> OutboxRow]
    BY <1>12, <2>1, OutboxTypes DEF BeginClawback
  <2>3. CASE UNCHANGED txs
    BY <1>12, <2>2, <2>3 DEF BeginClawback
  <2>4. CASE Begin(w, "clawback_read", e, ClawbackStep(e), 0)
    <3>1. txs' \in [Workers -> Transaction]
          /\ \A v \in Workers : txs'[v].op = "clawback_write" => txs'[v] = txs[v]
      BY <2>1, <2>4, BeginTypes
    <3> QED
      BY <1>12, <2>2, <3>1 DEF BeginClawback
  <2> QED
    BY <1>12, <2>3, <2>4 DEF BeginClawback
<1>13. ASSUME NEW e \in Events, MarkProcessed(e) PROVE TypeInv'
  BY <1>13 DEF MarkProcessed, OutboxRow
<1> QED
  BY <1>1, <1>2, <1>3, <1>4, <1>5, <1>6, <1>7, <1>8, <1>9, <1>10, <1>11, <1>12, <1>13
  DEF HandlerNext

(* Every statement of a release or a clawback keeps the types.             *)
LEMMA WorkerTypes == TypeInv /\ WorkerNext => TypeInv'
<1> SUFFICES ASSUME TypeInv, NEW w \in Workers,
                    \/ BeginRelease(w, Sweep) \/ CommitRelease(w) \/ AbortRelease(w)
                    \/ ReadClawbackEntries(w) \/ CommitClawback(w)
             PROVE  TypeInv'
  BY DEF WorkerNext
<1> USE DEF TypeInv, TypeOK, bookingVars, financeVars
<1>1. txs[w].event \in Events \cup {Sweep} /\ txs[w].step \in 0..3 /\ txs[w].arg \in Nat
  BY DEF Transaction
<1>2. Idle \in Transaction /\ Idle.op = "idle"
  BY DEF Idle, Transaction
<1>3. CASE BeginRelease(w, Sweep)
  BY <1>3, BeginReleaseTypes
<1>4. CASE CommitRelease(w)
  <2>1. outbox' \in [Events -> OutboxRow]
    BY <1>1, <1>4, OutboxTypes DEF CommitRelease
  <2>2. settlement' \in SettlementRow
    BY <1>4 DEF CommitRelease, SettlementRow, SettlementStates
  <2>3. [type |-> "revenue", cash |-> txs[w].arg, journal |-> Len(ledger) + 1] \in Journal
    BY <1>1 DEF Journal
  <2>4. ledger' \in Seq(Journal) /\ Len(ledger') = Len(ledger) + 1
    BY <1>4, <2>3 DEF CommitRelease
  <2> QED
    BY <1>2, <1>4, <2>1, <2>2, <2>4 DEF CommitRelease
<1>5. CASE AbortRelease(w)
  BY <1>2, <1>5 DEF AbortRelease
<1>6. CASE ReadClawbackEntries(w)
  <2>1. outbox' \in [Events -> OutboxRow]
    BY <1>1, <1>6, OutboxTypes DEF ReadClawbackEntries
  <2>2. ActiveRevenue(ledger) \in Nat
        /\ (ActiveRevenue(ledger) # 0 => ActiveRevenue(ledger) \in 1..Len(ledger))
    BY ActiveRevenueTypes
  <2>3. CASE ActiveRevenue(ledger) = 0
    BY <1>2, <1>6, <2>1, <2>3 DEF ReadClawbackEntries
  <2>4. CASE ActiveRevenue(ledger) # 0
    <3> DEFINE tx == [txs[w] EXCEPT !.op = "clawback_write", !.arg = ActiveRevenue(ledger)]
    <3>1. tx \in Transaction /\ tx.arg \in 1..Len(ledger)
      BY <2>2, <2>4 DEF Transaction
    <3>2. txs' = [txs EXCEPT ![w] = tx]
      BY <1>6, <2>4 DEF ReadClawbackEntries
    <3> HIDE DEF tx
    <3> QED
      BY <1>6, <2>1, <3>1, <3>2 DEF ReadClawbackEntries
  <2> QED
    BY <2>3, <2>4
<1>7. CASE CommitClawback(w)
  <2>1. outbox' \in [Events -> OutboxRow]
    BY <1>1, <1>7, OutboxTypes DEF CommitClawback
  <2>2. ledger[txs[w].arg].cash \in Nat
    <3>1. txs[w].arg \in 1..Len(ledger) /\ ledger \in Seq(Journal)
      BY <1>7 DEF CommitClawback
    <3>2. ledger[txs[w].arg] \in Journal
      BY ONLY <3>1
    <3> QED
      BY ONLY <3>2 DEF Journal
  <2>3. [type |-> "clawback", cash |-> ledger[txs[w].arg].cash, journal |-> txs[w].arg] \in Journal
    BY <1>1, <2>2 DEF Journal
  <2>4. ledger' \in Seq(Journal) /\ Len(ledger') = Len(ledger) + 1
    BY <1>7, <2>3 DEF CommitClawback
  <2> QED
    BY <1>2, <1>7, <2>1, <2>4 DEF CommitClawback
<1> QED
  BY <1>3, <1>4, <1>5, <1>6, <1>7

(* Recovery, the provider, lost events and the clock keep the types.       *)
LEMMA RestTypes ==
    TypeInv /\ (RecoveryNext \/ EnvironmentNext \/ WindowElapses \/ UNCHANGED vars) => TypeInv'
<1> SUFFICES ASSUME TypeInv,
                    RecoveryNext \/ EnvironmentNext \/ WindowElapses \/ UNCHANGED vars
             PROVE  TypeInv'
  OBVIOUS
<1> USE DEF TypeInv, TypeOK, bookingVars, financeVars
<1>1. ASSUME NEW r \in Reasons, RecoverBatch(r) PROVE TypeInv'
  <2>1. outbox' \in [Events -> OutboxRow]
    BY <1>1, OutboxTypes, EventTypes DEF RecoverBatch
  <2> QED
    BY <1>1, <2>1 DEF RecoverBatch
<1>2. ASSUME NEW r \in Reasons, RecoverMissingRefund(r) PROVE TypeInv'
  <2>1. outbox' \in [Events -> OutboxRow]
    BY <1>2, OutboxTypes, EventTypes DEF RecoverMissingRefund
  <2> QED
    BY <1>2, <2>1 DEF RecoverMissingRefund
<1>3. ASSUME NEW r \in Reasons, BatchCompletes(r) PROVE TypeInv'
  <2>1. outbox' \in [Events -> OutboxRow]
    BY <1>3, OutboxTypes, EventTypes DEF BatchCompletes
  <2> QED
    BY <1>3, <2>1 DEF BatchCompletes, BatchRow
<1>4. ASSUME NEW r \in Reasons, BatchFails(r) PROVE TypeInv'
  BY <1>4 DEF BatchFails, BatchRow
<1>5. ASSUME NEW e \in Events, DeadLetter(e) PROVE TypeInv'
  BY <1>5 DEF DeadLetter, OutboxRow
<1>6. CASE WindowElapses
  BY <1>6 DEF WindowElapses, SettlementRow
<1>7. CASE UNCHANGED vars
  BY <1>7 DEF vars
<1> QED
  BY <1>1, <1>2, <1>3, <1>4, <1>5, <1>6, <1>7 DEF RecoveryNext, EnvironmentNext

(* In every reachable state the rows have their types, the figures are     *)
(* never negative and a clawback writes for a journal that exists.         *)
THEOREM TypeInvariant == Spec => []TypeInv
<1>1. TypeInv /\ [Next]_vars => TypeInv'
  BY BookingTypes, DisputeTypes, HandlerTypes, WorkerTypes, RestTypes DEF Next
<1> QED
  BY <1>1, TypeInit, PTL DEF Spec

(* TypeOK, the part of the type invariant that the runs check.             *)
THEOREM TypeCorrect == Spec => []TypeOK
BY TypeInvariant, PTL DEF TypeInv

-----------------------------------------------------------------------------
(* What finance and booking say about refunds is true.  The strengthening  *)
(* is about the outbox: refund.completed exists only for a completed batch, *)
(* so whoever handles it, however late or often, has a refund to point at. *)
RefundInv ==
    /\ RefundTruth
    /\ \A r \in Reasons :
         outbox[RefundCompleted(r)].state # "absent" => batches[r].status = "completed"

(* A step that announces no refund, completes nothing and marks nothing as *)
(* refunded keeps the invariant; all actions but four are such steps.      *)
RefundFrame ==
    /\ \A r \in Reasons : outbox'[RefundCompleted(r)].state # "absent"
                           => outbox[RefundCompleted(r)].state # "absent"
    /\ \A r \in Reasons : batches[r].status = "completed" => batches'[r] = batches[r]
    /\ settlement'.refundId = settlement.refundId
    /\ settlement'.status = "refunded" => settlement.status = "refunded"
    /\ booking' = "refunded" => booking = "refunded"

(* The frame is enough: such a step cannot make a refund untrue.           *)
LEMMA RefundFrameKeeps == TypeInv /\ RefundInv /\ RefundFrame => RefundInv'
<1> SUFFICES ASSUME TypeInv, RefundInv, RefundFrame PROVE RefundInv'
  OBVIOUS
<1>1. settlement.refundId \in Reasons \cup {"none"}
  BY DEF TypeInv, TypeOK, SettlementRow
<1>2. settlement'.refundId # "none" => batches'[settlement'.refundId].status = "completed"
  BY <1>1 DEF RefundInv, RefundTruth, RefundFrame
<1>3. booking' = "refunded" =>
        \E r \in Reasons : batches'[r].status = "completed" /\ batches'[r].affects
  BY DEF RefundInv, RefundTruth, RefundFrame
<1> QED
  BY <1>2, <1>3 DEF RefundInv, RefundTruth, RefundFrame

(* Committing a handler keeps the state of every row; emitting an event    *)
(* that is not refund.completed keeps the state of those that are.         *)
LEMMA OutboxStates ==
    ASSUME NEW box \in [Events -> OutboxRow], NEW e \in Events \cup {Sweep}, NEW i \in 0..3,
           NEW d \in Events
    PROVE  /\ Ran(box, e, i)[d].state = box[d].state
           /\ e \in Events /\ d # e => Emit(box, e)[d] = box[d]
BY DEF Ran, Emit, OutboxRow

(* The refund.completed events are one per reason, and no other event is one. *)
LEMMA RefundEventsDiffer ==
    /\ \A r, q \in Reasons : RefundCompleted(r) = RefundCompleted(q) => r = q
    /\ \A r, q \in Reasons : RefundCompleted(r) # RecoveryRequested(q)
    /\ \A r \in Reasons :
         RefundCompleted(r) \notin {Completed, NoShow, Cancelled, Returned, BookingRefunded,
                                   BalancePaid, ReleaseRequested, RefundRequested}
BY DEF RefundCompleted, RecoveryRequested, Completed, NoShow, Cancelled, Returned,
       BookingRefunded, BalancePaid, ReleaseRequested, RefundRequested, Ev, Reasons

(* Initially nothing claims to be refunded.                                *)
LEMMA RefundInit == Init => RefundInv
BY EventTypes DEF Init, RefundInv, RefundTruth

(* Booking use cases say nothing new about refunds.                        *)
LEMMA BookingFrame == TypeInv /\ BookingNext => RefundFrame
<1> SUFFICES ASSUME TypeInv, BookingNext PROVE RefundFrame
  OBVIOUS
<1>1. outbox \in [Events -> OutboxRow]
  BY DEF TypeInv, TypeOK
<1>2. \/ UNCHANGED outbox
      \/ \E e \in {Completed, NoShow, Cancelled, BalancePaid} : outbox' = Emit(outbox, e)
      \/ outbox' = Emit(Emit(outbox, Returned), Completed)
  BY DEF BookingNext, MarkCompleted, MarkReturned, MarkNoShow, CancelBooking, OpenBalanceLink,
         BalanceSucceeds
<1>3. \A r \in Reasons : outbox'[RefundCompleted(r)] = outbox[RefundCompleted(r)]
  <2> TAKE r \in Reasons
  <2>1. ASSUME NEW e \in {Completed, NoShow, Cancelled, BalancePaid}, outbox' = Emit(outbox, e)
        PROVE  outbox'[RefundCompleted(r)] = outbox[RefundCompleted(r)]
    BY <1>1, <2>1, OutboxStates, EventTypes, RefundEventsDiffer
  <2>2. CASE outbox' = Emit(Emit(outbox, Returned), Completed)
    <3>1. Emit(outbox, Returned) \in [Events -> OutboxRow]
      BY <1>1, OutboxTypes, EventTypes
    <3> QED
      BY <1>1, <2>2, <3>1, OutboxStates, EventTypes, RefundEventsDiffer
  <2> QED
    BY <1>2, <2>1, <2>2
<1>4. UNCHANGED <<settlement, batches>> /\ (booking' = "refunded" => booking = "refunded")
  BY DEF BookingNext, MarkCompleted, MarkReturned, MarkNoShow, CancelBooking, OpenBalanceLink,
         BalanceSucceeds, financeVars
<1> QED
  BY <1>3, <1>4 DEF RefundFrame

(* Disputes ask for refunds but complete none.                             *)
LEMMA DisputeFrame == TypeInv /\ DisputeNext => RefundFrame
<1> SUFFICES ASSUME TypeInv, DisputeNext PROVE RefundFrame
  OBVIOUS
<1>1. outbox \in [Events -> OutboxRow] /\ settlement \in SettlementRow
  BY DEF TypeInv, TypeOK
<1>2. \/ UNCHANGED outbox
      \/ \E e \in {ReleaseRequested, RefundRequested} : outbox' = Emit(outbox, e)
  BY DEF DisputeNext, OpenSettlementDispute, ResolveForRelease, ResolveWithRefund
<1>3. \A r \in Reasons : outbox'[RefundCompleted(r)] = outbox[RefundCompleted(r)]
  BY <1>1, <1>2, OutboxStates, EventTypes, RefundEventsDiffer
<1>4. /\ settlement'.refundId = settlement.refundId
      /\ settlement'.status = "refunded" => settlement.status = "refunded"
  BY <1>1 DEF DisputeNext, OpenSettlementDispute, ResolveForRelease, ResolveWithRefund, Frozen,
              SettlementRow
<1>5. UNCHANGED <<batches, booking>>
  BY DEF DisputeNext, OpenSettlementDispute, ResolveForRelease, ResolveWithRefund, bookingVars
<1> QED
  BY <1>3, <1>4, <1>5 DEF RefundFrame

(* Steps that change the outbox by committing one handler at most.         *)
LEMMA RanFrame ==
    ASSUME TypeInv, NEW e \in Events \cup {Sweep}, NEW i \in 0..3,
           outbox' \in {outbox, Ran(outbox, e, i)}
    PROVE  \A r \in Reasons :
             outbox'[RefundCompleted(r)].state = outbox[RefundCompleted(r)].state
BY OutboxStates, EventTypes DEF TypeInv, TypeOK

(* Planning a batch completes none, and leaves completed ones alone.       *)
LEMMA ExecuteRefundFrame ==
    ASSUME TypeInv, NEW e \in Events, NEW i \in 1..3, NEW reason \in Reasons,
           NEW amount, NEW affects, ExecuteRefund(e, i, reason, amount, affects)
    PROVE  RefundFrame
<1>1. \A r \in Reasons : outbox'[RefundCompleted(r)].state = outbox[RefundCompleted(r)].state
  BY RanFrame DEF ExecuteRefund
<1>2. \A r \in Reasons : batches[r].status = "completed" => batches'[r] = batches[r]
  BY DEF ExecuteRefund, TypeInv, TypeOK
<1> QED
  BY <1>1, <1>2 DEF ExecuteRefund, RefundFrame, bookingVars, financeVars

(* All handlers but the two that handle refund.completed are frame steps.  *)
LEMMA HandlerFrame ==
    ASSUME TypeInv, HandlerNext
    PROVE  \/ RefundFrame
           \/ \E r \in Reasons : FinalizeSettlementRefund(r) \/ FinalizeRefundedBooking(r)
<1>1. settlement \in SettlementRow /\ outbox \in [Events -> OutboxRow]
  BY DEF TypeInv, TypeOK
<1>2. CASE \/ RecordHeldSettlement \/ RecordBalancePayment \/ StartSettlementWindow
           \/ StartNoShowWindow \/ PrepareCancellationRefund
  <2>1. \E e \in Events, i \in 1..3 : outbox' = Ran(outbox, e, i)
    BY <1>2, EventTypes
    DEF RecordHeldSettlement, RecordBalancePayment, StartSettlementWindow, StartNoShowWindow,
        PrepareCancellationRefund
  <2>2. \A r \in Reasons : outbox'[RefundCompleted(r)].state = outbox[RefundCompleted(r)].state
    BY <2>1, RanFrame
  <2>3. /\ settlement'.refundId = settlement.refundId
        /\ settlement'.status = "refunded" => settlement.status = "refunded"
    BY <1>1, <1>2
    DEF RecordHeldSettlement, RecordBalancePayment, StartSettlementWindow, StartNoShowWindow,
        PrepareCancellationRefund, Window, Frozen, SettlementRow, financeVars
  <2>4. UNCHANGED <<batches, booking>>
    BY <1>2
    DEF RecordHeldSettlement, RecordBalancePayment, StartSettlementWindow, StartNoShowWindow,
        PrepareCancellationRefund, bookingVars
  <2> QED
    BY <2>2, <2>3, <2>4 DEF RefundFrame
<1>3. CASE PlanRefunds
  <2>1. 1 \in 1..3 /\ 2 \in 1..3
    OBVIOUS
  <2> QED
    BY ONLY <1>3, <2>1, TypeInv, EventTypes, ExecuteRefundFrame DEF PlanRefunds
<1>4. CASE \/ SkipRelease \/ \E r \in Reasons : IgnoreRefundCompleted(r)
           \/ \E w \in Workers : \/ BeginRelease(w, ReleaseRequested)
                               \/ \E c \in ClawbackEvents : BeginClawback(w, c)
  <2>1. \E c \in Events, k \in 1..3 : outbox' \in {outbox, Ran(outbox, c, k)}
    BY <1>4, EventTypes
    DEF SkipRelease, IgnoreRefundCompleted, BeginRelease, BeginClawback, ClawbackStep
  <2>2. \A r \in Reasons : outbox'[RefundCompleted(r)].state = outbox[RefundCompleted(r)].state
    BY <2>1, RanFrame
  <2>3. UNCHANGED <<batches, booking, settlement>>
    BY <1>4
    DEF SkipRelease, IgnoreRefundCompleted, BeginRelease, BeginClawback, bookingVars, financeVars
  <2> QED
    BY <2>2, <2>3 DEF RefundFrame
<1>5. ASSUME NEW e \in Events, MarkProcessed(e) PROVE RefundFrame
  BY <1>1, <1>5, EventTypes DEF MarkProcessed, RefundFrame, OutboxRow, bookingVars, financeVars
<1> QED
  BY <1>2, <1>3, <1>4, <1>5 DEF HandlerNext

(* Releases and clawbacks are frame steps.                                 *)
LEMMA WorkerFrame == TypeInv /\ WorkerNext => RefundFrame
<1> SUFFICES ASSUME TypeInv, NEW w \in Workers,
                    \/ BeginRelease(w, Sweep) \/ CommitRelease(w) \/ AbortRelease(w)
                    \/ ReadClawbackEntries(w) \/ CommitClawback(w)
             PROVE  RefundFrame
  BY DEF WorkerNext
<1>1. settlement \in SettlementRow /\ txs[w].event \in Events \cup {Sweep}
      /\ txs[w].step \in 0..3
  BY DEF TypeInv, TypeOK, Transaction
<1>2. \E i \in 0..3 : outbox' \in {outbox, Ran(outbox, txs[w].event, i)}
  BY <1>1 DEF BeginRelease, CommitRelease, AbortRelease, ReadClawbackEntries, CommitClawback
<1>3. \A r \in Reasons : outbox'[RefundCompleted(r)].state = outbox[RefundCompleted(r)].state
  BY <1>1, <1>2, RanFrame
<1>4. /\ settlement'.refundId = settlement.refundId
      /\ settlement'.status = "refunded" => settlement.status = "refunded"
  BY <1>1 DEF BeginRelease, CommitRelease, AbortRelease, ReadClawbackEntries, CommitClawback,
              SettlementRow, financeVars
<1>5. UNCHANGED <<batches, booking>>
  BY DEF BeginRelease, CommitRelease, AbortRelease, ReadClawbackEntries, CommitClawback,
         bookingVars
<1> QED
  BY <1>3, <1>4, <1>5 DEF RefundFrame

(* The four steps that say something new about a refund.                   *)
LEMMA RefundSteps ==
    ASSUME TypeInv, RefundInv, NEW r \in Reasons,
           \/ FinalizeSettlementRefund(r) \/ FinalizeRefundedBooking(r)
           \/ BatchCompletes(r) \/ RecoverBatch(r)
    PROVE  RefundInv'
<1>1. /\ settlement \in SettlementRow /\ outbox \in [Events -> OutboxRow]
      /\ batches \in [Reasons -> BatchRow]
  BY DEF TypeInv, TypeOK
<1>2. CASE FinalizeSettlementRefund(r)
  <2>1. batches[r].status = "completed"
    BY <1>2 DEF FinalizeSettlementRefund, CanRun, RefundInv
  <2>2. \A q \in Reasons : outbox'[RefundCompleted(q)].state = outbox[RefundCompleted(q)].state
    BY <1>2, RanFrame, EventTypes DEF FinalizeSettlementRefund
  <2>3. settlement' = settlement \/ settlement'.refundId = r
    BY <1>1, <1>2 DEF FinalizeSettlementRefund, Finalized, SettlementRow
  <2>4. UNCHANGED <<batches, booking>> /\ "none" \notin Reasons
    BY <1>2 DEF FinalizeSettlementRefund, bookingVars, Reasons, Cancellation, SecurityRefund,
                DisputeRefund
  <2> QED
    BY <2>1, <2>2, <2>3, <2>4 DEF RefundInv, RefundTruth
<1>3. CASE FinalizeRefundedBooking(r)
  <2>1. batches[r].status = "completed"
    BY <1>3 DEF FinalizeRefundedBooking, CanRun, RefundInv
  <2>2. Ran(outbox, RefundCompleted(r), 3) \in [Events -> OutboxRow]
    BY <1>1, OutboxTypes, EventTypes
  <2>3. \A q \in Reasons : outbox'[RefundCompleted(q)].state = outbox[RefundCompleted(q)].state
    <3> TAKE q \in Reasons
    <3>1. Ran(outbox, RefundCompleted(r), 3)[RefundCompleted(q)].state
            = outbox[RefundCompleted(q)].state
      BY <1>1, OutboxStates, EventTypes
    <3>2. Emit(Ran(outbox, RefundCompleted(r), 3), BookingRefunded)[RefundCompleted(q)]
            = Ran(outbox, RefundCompleted(r), 3)[RefundCompleted(q)]
      BY <2>2, OutboxStates, EventTypes, RefundEventsDiffer
    <3> QED
      BY <1>3, <3>1, <3>2 DEF FinalizeRefundedBooking
  <2>4. UNCHANGED <<batches, settlement>> /\ (booking' = booking \/ batches[r].affects)
    BY <1>3 DEF FinalizeRefundedBooking, financeVars
  <2> QED
    BY <2>1, <2>3, <2>4 DEF RefundInv, RefundTruth
<1>4. CASE BatchCompletes(r)
  <2>1. \A q \in Reasons : q # r =>
          /\ outbox'[RefundCompleted(q)] = outbox[RefundCompleted(q)]
          /\ batches'[q] = batches[q]
    BY <1>1, <1>4, OutboxStates, EventTypes, RefundEventsDiffer DEF BatchCompletes
  <2>2. batches'[r].status = "completed" /\ batches'[r].affects = batches[r].affects
    BY <1>1, <1>4 DEF BatchCompletes, BatchRow
  <2>3. UNCHANGED <<booking, settlement>> /\ settlement.refundId \in Reasons \cup {"none"}
    BY <1>1, <1>4 DEF BatchCompletes, bookingVars, financeVars, SettlementRow
  <2> QED
    BY <2>1, <2>2, <2>3 DEF RefundInv, RefundTruth
<1>5. CASE RecoverBatch(r)
  <2>1. \A q \in Reasons : q # r => outbox'[RefundCompleted(q)] = outbox[RefundCompleted(q)]
    BY <1>1, <1>5, OutboxStates, EventTypes, RefundEventsDiffer DEF RecoverBatch
  <2>2. UNCHANGED <<booking, settlement, batches>> /\ batches[r].status = "completed"
    BY <1>5 DEF RecoverBatch, bookingVars, financeVars
  <2> QED
    BY <2>1, <2>2 DEF RefundInv, RefundTruth
<1> QED
  BY <1>2, <1>3, <1>4, <1>5

(* Recovery, failing batches, lost events and the clock are frame steps.   *)
LEMMA RestFrame ==
    ASSUME TypeInv, RecoveryNext \/ EnvironmentNext \/ WindowElapses \/ UNCHANGED vars
    PROVE  RefundFrame \/ \E r \in Reasons : BatchCompletes(r) \/ RecoverBatch(r)
<1>1. /\ settlement \in SettlementRow /\ outbox \in [Events -> OutboxRow]
      /\ batches \in [Reasons -> BatchRow]
  BY DEF TypeInv, TypeOK
<1>2. ASSUME NEW r \in Reasons, RecoverMissingRefund(r) PROVE RefundFrame
  <2>1. \A q \in Reasons : outbox'[RefundCompleted(q)] = outbox[RefundCompleted(q)]
    BY <1>1, <1>2, OutboxStates, EventTypes, RefundEventsDiffer DEF RecoverMissingRefund
  <2> QED
    BY <1>2, <2>1 DEF RecoverMissingRefund, RefundFrame, bookingVars, financeVars
<1>3. ASSUME NEW r \in Reasons, BatchFails(r) PROVE RefundFrame
  BY <1>1, <1>3 DEF BatchFails, RefundFrame, bookingVars, financeVars
<1>4. ASSUME NEW e \in Events, DeadLetter(e) PROVE RefundFrame
  BY <1>1, <1>4, EventTypes DEF DeadLetter, RefundFrame, OutboxRow, bookingVars, financeVars
<1>5. CASE WindowElapses \/ UNCHANGED vars
  BY <1>1, <1>5 DEF WindowElapses, vars, RefundFrame, SettlementRow, bookingVars
<1> QED
  BY <1>2, <1>3, <1>4, <1>5 DEF RecoveryNext, EnvironmentNext

(* RefundInv is inductive.                                                 *)
LEMMA RefundInvStep == TypeInv /\ RefundInv /\ [Next]_vars => RefundInv'
<1> SUFFICES ASSUME TypeInv, RefundInv, [Next]_vars PROVE RefundInv'
  OBVIOUS
<1>1. \/ RefundFrame
      \/ \E r \in Reasons : \/ FinalizeSettlementRefund(r) \/ FinalizeRefundedBooking(r)
                            \/ BatchCompletes(r) \/ RecoverBatch(r)
  BY BookingFrame, DisputeFrame, HandlerFrame, WorkerFrame, RestFrame DEF Next
<1> QED
  BY <1>1, RefundFrameKeeps, RefundSteps

(* RefundInv holds for every price and switch.                             *)
LEMMA RefundInvariant == Spec => []RefundInv
BY RefundInit, RefundInvStep, TypeInvariant, PTL DEF Spec

(* RefundTruth for every price, policy, number of workers, redelivery,     *)
(* recovery and lost event: settlements and bookings that say `refunded`   *)
(* can always name the completed batch that makes it true.                 *)
THEOREM RefundsAreTrue == Spec => []RefundTruth
<1>1. RefundInv => RefundTruth
  BY DEF RefundInv
<1> QED
  BY <1>1, RefundInvariant, PTL

-----------------------------------------------------------------------------
(* `refunded` is final.  No invariant beyond the types is needed: every    *)
(* write of a status is guarded by the status it expects to find.          *)
LEMMA BookingStaysRefunded == [Next]_vars /\ booking = "refunded" => booking' = "refunded"
<1> SUFFICES ASSUME [Next]_vars, booking = "refunded" PROVE booking' = "refunded"
  OBVIOUS
<1> USE DEF bookingVars
<1>1. ~BookingNext \/ booking' = booking
  BY DEF BookingNext, MarkCompleted, MarkReturned, MarkNoShow, CancelBooking, OpenBalanceLink,
         BalanceSucceeds
<1>2. CASE DisputeNext
  BY <1>2 DEF DisputeNext, OpenSettlementDispute, ResolveForRelease, ResolveWithRefund
<1>3. CASE HandlerNext
  BY <1>3
  DEF HandlerNext, RecordHeldSettlement, RecordBalancePayment, StartSettlementWindow,
      StartNoShowWindow, PrepareCancellationRefund, PlanRefunds, ExecuteRefund, SkipRelease,
      IgnoreRefundCompleted, FinalizeSettlementRefund, FinalizeRefundedBooking, BeginRelease,
      BeginClawback, MarkProcessed
<1>4. CASE WorkerNext
  BY <1>4
  DEF WorkerNext, BeginRelease, CommitRelease, AbortRelease, ReadClawbackEntries, CommitClawback
<1>5. CASE RecoveryNext \/ EnvironmentNext \/ WindowElapses \/ UNCHANGED vars
  BY <1>5
  DEF RecoveryNext, RecoverBatch, RecoverMissingRefund, EnvironmentNext, BatchCompletes,
      BatchFails, DeadLetter, WindowElapses, vars
<1> QED
  BY <1>1, <1>2, <1>3, <1>4, <1>5 DEF Next

(* No step takes a settlement out of `refunded`.                           *)
LEMMA SettlementStaysRefunded ==
    TypeInv /\ [Next]_vars /\ settlement.status = "refunded" => settlement'.status = "refunded"
<1> SUFFICES ASSUME TypeInv, [Next]_vars, settlement.status = "refunded"
             PROVE  settlement'.status = "refunded"
  OBVIOUS
<1> USE DEF financeVars
<1>1. settlement \in SettlementRow
  BY DEF TypeInv, TypeOK
<1>2. CASE BookingNext
  BY <1>2
  DEF BookingNext, MarkCompleted, MarkReturned, MarkNoShow, CancelBooking, OpenBalanceLink,
      BalanceSucceeds
<1>3. CASE DisputeNext
  BY <1>1, <1>3
  DEF DisputeNext, OpenSettlementDispute, ResolveForRelease, ResolveWithRefund, Frozen
<1>4. CASE RecordHeldSettlement
  BY <1>1, <1>4 DEF RecordHeldSettlement, SettlementRow
<1>5. CASE PrepareCancellationRefund
  BY <1>5 DEF PrepareCancellationRefund
<1>6. ASSUME NEW r \in Reasons, FinalizeSettlementRefund(r)
      PROVE  settlement'.status = "refunded"
  BY <1>6 DEF FinalizeSettlementRefund, Finalized
<1>7. CASE HandlerNext
  BY <1>4, <1>5, <1>6, <1>7
  DEF HandlerNext, RecordBalancePayment, StartSettlementWindow, StartNoShowWindow, PlanRefunds,
      ExecuteRefund, SkipRelease, IgnoreRefundCompleted, FinalizeRefundedBooking, BeginRelease,
      BeginClawback, MarkProcessed
<1>8. CASE WorkerNext
  BY <1>8
  DEF WorkerNext, BeginRelease, CommitRelease, StillReleasable, AbortRelease,
      ReadClawbackEntries, CommitClawback
<1>9. CASE RecoveryNext \/ EnvironmentNext \/ WindowElapses \/ UNCHANGED vars
  BY <1>9
  DEF RecoveryNext, RecoverBatch, RecoverMissingRefund, EnvironmentNext, BatchCompletes,
      BatchFails, DeadLetter, WindowElapses, vars
<1> QED
  BY <1>2, <1>3, <1>7, <1>8, <1>9 DEF Next

(* No repeated, late or re-emitted event, and no overlap of transactions,  *)
(* takes a booking or a settlement out of `refunded`.                      *)
THEOREM RefundedIsFinal == Spec => TerminalStatesStay
<1>1. TypeInv /\ [Next]_vars =>
        [/\ booking = "refunded" => booking' = "refunded"
         /\ settlement.status = "refunded" => settlement'.status = "refunded"]_vars
  BY BookingStaysRefunded, SettlementStaysRefunded
<1> QED
  BY <1>1, TypeInvariant, PTL DEF Spec, TerminalStatesStay

-----------------------------------------------------------------------------
(* Tax.  Whatever a refund claims, a reversal only fills up to the smaller *)
(* of the refunded amount and the withheld base.                           *)
LEMMA ReversalBound ==
    ASSUME tax \in TaxRows, TaxNeverOverReversed, NEW r \in Reasons, NEW n \in Nat,
           tax' = WithholdingReversal(r, n)
    PROVE  TaxNeverOverReversed'
<1>1. /\ tax.assessed \in Nat
      /\ \A q \in Reasons : tax.reversals[q] \in Nat
      /\ Reasons = {Cancellation, SecurityRefund, DisputeRefund}
      /\ Cancellation # SecurityRefund /\ Cancellation # DisputeRefund
      /\ SecurityRefund # DisputeRefund
  BY DEF TaxRows, Reasons, Cancellation, SecurityRefund, DisputeRefund
<1>2. Reversed \in Nat
  BY <1>1 DEF Reversed
<1>3. CASE tax' = tax
  BY <1>3 DEF TaxNeverOverReversed, Reversed
<1>4. CASE tax' # tax
  <2> DEFINE basis == Least(n, tax.assessed)
  <2>1. basis \in Nat /\ basis <= tax.assessed
    BY <1>1 DEF Least
  <2>2. /\ tax.reversals[r] = 0
        /\ tax' = [tax EXCEPT !.reversals[r] = basis - Reversed]
    BY <1>4 DEF WithholdingReversal
  <2> HIDE DEF basis
  <2>3. /\ tax'.assessed = tax.assessed
        /\ tax'.reversals = [tax.reversals EXCEPT ![r] = basis - Reversed]
    BY <2>2 DEF TaxRows
  <2>4. \A q \in Reasons :
          tax'.reversals[q] = IF q = r THEN basis - Reversed ELSE tax.reversals[q]
    BY <2>3 DEF TaxRows
  <2>5. Reversed' = basis
    BY <1>1, <1>2, <2>1, <2>2, <2>4 DEF Reversed
  <2> QED
    BY <2>1, <2>3, <2>5 DEF TaxNeverOverReversed
<1> QED
  BY <1>3, <1>4

(* Assessing once keeps the reversals within the assessment.               *)
LEMMA AssessmentBound ==
    ASSUME tax \in TaxRows, TaxNeverOverReversed, NEW n \in Nat, tax' = Assess(n)
    PROVE  TaxNeverOverReversed'
<1>1. Reversed \in Nat /\ tax.assessed \in Nat
  BY EventTypes DEF Reversed, TaxRows
<1>2. tax'.reversals = tax.reversals /\ (tax.assessed = 0 => tax'.assessed = n)
      /\ (tax.assessed # 0 => tax' = tax)
  BY DEF Assess, TaxRows
<1>3. Reversed' = Reversed
  BY <1>2 DEF Reversed
<1> QED
  BY <1>1, <1>2, <1>3 DEF TaxNeverOverReversed

(* Only assessments and reversals touch the tax rows.                      *)
LEMMA TaxSteps ==
    ASSUME TypeInv, [Next]_vars
    PROVE  \/ tax' = tax
           \/ \E n \in Nat : tax' = Assess(n)
           \/ \E r \in Reasons, n \in Nat : tax' = WithholdingReversal(r, n)
<1> USE DEF financeVars
<1>1. CASE StartSettlementWindow \/ StartNoShowWindow
  BY <1>1, MoneyAssumption
  DEF StartSettlementWindow, StartNoShowWindow, TypeInv, TypeOK, SettlementRow
<1>2. ASSUME NEW r \in Reasons, FinalizeSettlementRefund(r)
      PROVE  tax' = tax \/ \E n \in Nat : tax' = WithholdingReversal(r, n)
  <2>1. batches[r].amount \in Nat /\ settlement.refunded \in Nat
    BY DEF TypeInv, TypeOK, BatchRow, SettlementRow
  <2>2. FinalRefunded(r) \in Nat
    BY <2>1, AmountTypes, MoneyAssumption DEF FinalRefunded, Reasons
  <2> QED
    BY <1>2, <2>2 DEF FinalizeSettlementRefund
<1>3. CASE HandlerNext
  BY <1>1, <1>2, <1>3
  DEF HandlerNext, RecordHeldSettlement, RecordBalancePayment, PrepareCancellationRefund,
      PlanRefunds, ExecuteRefund, SkipRelease, IgnoreRefundCompleted, FinalizeRefundedBooking,
      BeginRelease, BeginClawback, MarkProcessed
<1>4. CASE BookingNext \/ DisputeNext
  BY <1>4
  DEF BookingNext, MarkCompleted, MarkReturned, MarkNoShow, CancelBooking, OpenBalanceLink,
      BalanceSucceeds, DisputeNext, OpenSettlementDispute, ResolveForRelease, ResolveWithRefund
<1>5. CASE WorkerNext
  BY <1>5
  DEF WorkerNext, BeginRelease, CommitRelease, AbortRelease, ReadClawbackEntries, CommitClawback
<1>6. CASE RecoveryNext \/ EnvironmentNext \/ WindowElapses \/ UNCHANGED vars
  BY <1>6
  DEF RecoveryNext, RecoverBatch, RecoverMissingRefund, EnvironmentNext, BatchCompletes,
      BatchFails, DeadLetter, WindowElapses, vars
<1> QED
  BY <1>3, <1>4, <1>5, <1>6 DEF Next

(* The withholding reversals of a booking never exceed its assessment, for *)
(* any refunds in any order, repeated or not.                              *)
THEOREM TaxIsBounded == Spec => []TaxNeverOverReversed
<1>1. Init => TaxNeverOverReversed
  BY EventTypes DEF Init, TaxNeverOverReversed, Reversed
<1>2. TypeInv /\ TaxNeverOverReversed /\ [Next]_vars => TaxNeverOverReversed'
  <2> SUFFICES ASSUME TypeInv, TaxNeverOverReversed, [Next]_vars PROVE TaxNeverOverReversed'
    OBVIOUS
  <2>1. tax \in TaxRows
    BY DEF TypeInv, TypeOK
  <2>2. CASE tax' = tax
    BY <2>2 DEF TaxNeverOverReversed, Reversed
  <2> QED
    BY <2>1, <2>2, TaxSteps, AssessmentBound, ReversalBound
<1> QED
  BY <1>1, <1>2, TypeInvariant, PTL DEF Spec
-----------------------------------------------------------------------------
(* Revenue is not booked twice.  The ledger alone is not inductive: a      *)
(* release that read an empty ledger must not commit after another one.    *)
(* While revenue stands, either the settlement is released, so that no     *)
(* guarded UPDATE matches, or every open release is older than the         *)
(* deadline that replaced the one it read.                                 *)
CycleInv ==
    /\ RevenueNotBookedTwice
    /\ ActiveRevenue(ledger) # 0 =>
         \/ settlement.status = "released"
         \/ \A w \in Workers : txs[w].op = "release" => ~txs[w].current

(* No journal is written, and no release comes to hold a deadline that is  *)
(* still good while revenue stands; all actions but the two that write a   *)
(* journal are such steps.                                                 *)
CycleFrame ==
    /\ ledger' = ledger
    /\ \/ ActiveRevenue(ledger) = 0
       \/ txs' = Outdated
       \/ /\ settlement.status = "released" => settlement'.status = "released"
          /\ \A w \in Workers : txs'[w].op = "release" /\ txs'[w].current =>
                                  txs[w].op = "release" /\ txs[w].current

(* The frame is enough: such a step leaves no release that could commit    *)
(* beside standing revenue.                                                *)
LEMMA CycleFrameKeeps == TypeInv /\ CycleInv /\ CycleFrame => CycleInv'
<1> SUFFICES ASSUME TypeInv, CycleInv, CycleFrame PROVE CycleInv'
  OBVIOUS
<1>1. RevenueNotBookedTwice'
  BY DEF CycleInv, CycleFrame, RevenueNotBookedTwice
<1>2. ActiveRevenue(ledger)' = ActiveRevenue(ledger)
  BY DEF CycleFrame, ActiveRevenue
<1>3. CASE ActiveRevenue(ledger) = 0
  BY <1>1, <1>2, <1>3 DEF CycleInv
<1>4. CASE txs' = Outdated
  <2>1. \A w \in Workers : txs'[w].op = "release" => ~txs'[w].current
    BY <1>4 DEF Outdated, TypeInv, TypeOK, Transaction
  <2> QED
    BY <1>1, <2>1 DEF CycleInv
<1>5. CASE /\ settlement.status = "released" => settlement'.status = "released"
           /\ \A w \in Workers : txs'[w].op = "release" /\ txs'[w].current =>
                                   txs[w].op = "release" /\ txs[w].current
  BY <1>1, <1>2, <1>5 DEF CycleInv
<1> QED
  BY <1>3, <1>4, <1>5 DEF CycleFrame

(* Booking use cases and disputes write no journal; a dispute resolved for *)
(* release outdates every release that is open.                            *)
LEMMA BookingCycle == TypeInv /\ (BookingNext \/ DisputeNext) => CycleFrame
<1> SUFFICES ASSUME TypeInv, BookingNext \/ DisputeNext PROVE CycleFrame
  OBVIOUS
<1>1. CASE BookingNext
  BY <1>1 DEF BookingNext, MarkCompleted, MarkReturned, MarkNoShow, CancelBooking,
              OpenBalanceLink, BalanceSucceeds, CycleFrame, financeVars
<1>2. CASE OpenSettlementDispute \/ ResolveForRelease
  BY <1>2 DEF OpenSettlementDispute, ResolveForRelease, CycleFrame
<1>3. ASSUME NEW amount \in 1..settlement.held, ResolveWithRefund(amount)
      PROVE  CycleFrame
  BY <1>3 DEF ResolveWithRefund, Frozen, CycleFrame, TypeInv, TypeOK, SettlementRow
<1> QED
  BY <1>1, <1>2, <1>3 DEF DisputeNext

(* A transaction that begins as a clawback is no release.                  *)
LEMMA BeginCycle ==
    ASSUME TypeInv, NEW w \in Workers, NEW e, NEW i, NEW arg,
           Begin(w, "clawback_read", e, i, arg)
    PROVE  \A v \in Workers : txs'[v].op = "release" => txs'[v] = txs[v]
BY DEF Begin, TypeInv, TypeOK

(* A handler that changes the settlement of a released booking outdates    *)
(* the open releases: the holding period starts anew.                      *)
LEMMA HandlerCycle == HoldingDays # 0 /\ TypeInv /\ HandlerNext => CycleFrame
<1> SUFFICES ASSUME HoldingDays # 0, TypeInv, HandlerNext PROVE CycleFrame
  OBVIOUS
<1>1. settlement \in SettlementRow
  BY DEF TypeInv, TypeOK
<1>2. CASE \/ RecordHeldSettlement \/ RecordBalancePayment \/ StartSettlementWindow
           \/ StartNoShowWindow \/ PrepareCancellationRefund
  <2>1. UNCHANGED <<ledger, txs>>
    BY <1>2 DEF RecordHeldSettlement, RecordBalancePayment, StartSettlementWindow,
                StartNoShowWindow, PrepareCancellationRefund, financeVars
  <2>2. settlement.status = "released" => settlement'.status = "released"
    BY <1>1, <1>2
    DEF RecordHeldSettlement, RecordBalancePayment, StartSettlementWindow, StartNoShowWindow,
        PrepareCancellationRefund, SettlementRow, financeVars
  <2> QED
    BY <2>1, <2>2 DEF CycleFrame
<1>3. CASE PlanRefunds
  BY <1>3 DEF PlanRefunds, ExecuteRefund, CycleFrame, financeVars
<1>4. CASE \/ SkipRelease
           \/ \E r \in Reasons : IgnoreRefundCompleted(r) \/ FinalizeRefundedBooking(r)
           \/ \E e \in Events : MarkProcessed(e)
  BY <1>4 DEF SkipRelease, IgnoreRefundCompleted, FinalizeRefundedBooking, MarkProcessed,
              CycleFrame, financeVars
<1>5. ASSUME NEW r \in Reasons, FinalizeSettlementRefund(r) PROVE CycleFrame
  BY <1>5 DEF FinalizeSettlementRefund, CycleFrame
<1>6. ASSUME NEW w \in Workers, BeginRelease(w, ReleaseRequested) PROVE CycleFrame
  BY <1>6 DEF BeginRelease, CycleFrame, financeVars
<1>7. ASSUME NEW w \in Workers, NEW e \in ClawbackEvents, BeginClawback(w, e) PROVE CycleFrame
  <2>1. UNCHANGED <<ledger, settlement>>
    BY <1>7 DEF BeginClawback, financeVars
  <2>2. \A v \in Workers : txs'[v].op = "release" => txs'[v] = txs[v]
    BY <1>7, BeginCycle DEF BeginClawback
  <2> QED
    BY <2>1, <2>2 DEF CycleFrame
<1> QED
  BY <1>2, <1>3, <1>4, <1>5, <1>6, <1>7 DEF HandlerNext

(* The recovery worker, the provider, lost events and the clock write no   *)
(* journal and release nothing.                                            *)
LEMMA RestCycle ==
    TypeInv /\ (RecoveryNext \/ EnvironmentNext \/ WindowElapses \/ UNCHANGED vars) => CycleFrame
<1> SUFFICES ASSUME TypeInv,
                    RecoveryNext \/ EnvironmentNext \/ WindowElapses \/ UNCHANGED vars
             PROVE  CycleFrame
  OBVIOUS
<1>1. CASE RecoveryNext \/ EnvironmentNext
  BY <1>1 DEF RecoveryNext, EnvironmentNext, RecoverBatch, RecoverMissingRefund, BatchCompletes,
              BatchFails, DeadLetter, CycleFrame, financeVars
<1>2. CASE WindowElapses \/ UNCHANGED vars
  BY <1>2 DEF WindowElapses, vars, CycleFrame, TypeInv, TypeOK, SettlementRow
<1> QED
  BY <1>1, <1>2

(* A journal appended to a ledger where revenue is not booked twice leaves *)
(* it so, when revenue is not appended to standing revenue.                *)
LEMMA AppendKeepsOnce ==
    ASSUME TypeInv, RevenueNotBookedTwice, NEW journal \in Journal,
           ledger' = Append(ledger, journal),
           journal.type = "revenue" => ActiveRevenue(ledger) = 0
    PROVE  RevenueNotBookedTwice'
<1>1. ledger \in Seq(Journal) /\ ledger' \in Seq(Journal) /\ Len(ledger') = Len(ledger) + 1
  BY DEF TypeInv, TypeOK
<1>2. /\ \A i \in 1..Len(ledger) : ledger'[i] = ledger[i]
      /\ ledger'[Len(ledger) + 1] = journal
  BY <1>1
<1> SUFFICES ASSUME NEW i \in 1..(Len(ledger') - 1), ledger'[i].type = "revenue"
             PROVE  ledger'[i+1].type = "clawback"
  BY DEF RevenueNotBookedTwice
<1>3. CASE i < Len(ledger)
  BY <1>1, <1>2, <1>3 DEF RevenueNotBookedTwice
<1>4. CASE i = Len(ledger)
  <2>1. ledger # <<>> /\ ledger[Len(ledger)].type = "revenue"
    BY <1>1, <1>2, <1>4
  <2>2. ActiveRevenue(ledger) # 0
    BY <1>1, <1>4, <2>1 DEF ActiveRevenue
  <2>3. journal.type = "clawback"
    BY <2>2 DEF Journal
  <2> QED
    BY <1>2, <1>4, <2>3
<1> QED
  BY <1>1, <1>3, <1>4

(* No statement of a release or of a clawback books revenue twice.         *)
LEMMA WorkerCycle == TypeInv /\ CycleInv /\ WorkerNext => CycleInv'
<1> SUFFICES ASSUME TypeInv, CycleInv, NEW w \in Workers,
                    \/ BeginRelease(w, Sweep) \/ CommitRelease(w) \/ AbortRelease(w)
                    \/ ReadClawbackEntries(w) \/ CommitClawback(w)
             PROVE  CycleInv'
  BY DEF WorkerNext
<1>1. /\ ledger \in Seq(Journal) /\ txs \in [Workers -> Transaction]
      /\ settlement \in SettlementRow
  BY DEF TypeInv, TypeOK
<1>2. CASE BeginRelease(w, Sweep)
  BY <1>2, CycleFrameKeeps DEF BeginRelease, CycleFrame, financeVars
<1>3. CASE AbortRelease(w) \/ ReadClawbackEntries(w)
  <2>1. UNCHANGED <<ledger, settlement>>
    BY <1>3 DEF AbortRelease, ReadClawbackEntries, financeVars
  <2>2. \E tx : txs' = [txs EXCEPT ![w] = tx] /\ tx.op # "release"
    <3>1. txs[w] \in Transaction /\ Idle.op # "release"
      BY <1>1 DEF Idle
    <3>2. CASE txs' = [txs EXCEPT ![w] = Idle]
      BY <3>1, <3>2
    <3>3. CASE txs' = [txs EXCEPT ![w].op = "clawback_write", ![w].arg = ActiveRevenue(ledger)]
      <4> DEFINE tx == [txs[w] EXCEPT !.op = "clawback_write", !.arg = ActiveRevenue(ledger)]
      <4>1. tx.op # "release"
        BY <3>1 DEF Transaction
      <4>2. txs' = [txs EXCEPT ![w] = tx]
        BY <3>3
      <4> QED
        BY <4>1, <4>2
    <3> QED
      BY <1>3, <3>2, <3>3 DEF AbortRelease, ReadClawbackEntries
  <2>3. \A v \in Workers : txs'[v].op = "release" => txs'[v] = txs[v]
    BY <1>1, <2>2
  <2> QED
    BY <2>1, <2>3, CycleFrameKeeps DEF CycleFrame
<1>4. CASE CommitRelease(w)
  <2>1. ActiveRevenue(ledger) = 0 /\ settlement'.status = "released"
    BY <1>1, <1>4 DEF CommitRelease, StillReleasable, CycleInv, SettlementRow
  <2>2. [type |-> "revenue", cash |-> txs[w].arg, journal |-> Len(ledger) + 1] \in Journal
    BY <1>1 DEF Journal, Transaction
  <2>3. RevenueNotBookedTwice'
    BY <1>4, <2>1, <2>2, AppendKeepsOnce DEF CommitRelease, CycleInv
  <2> QED
    BY <2>1, <2>3 DEF CycleInv
<1>5. CASE CommitClawback(w)
  <2>1. txs[w].arg \in 1..Len(ledger)
    BY <1>5 DEF CommitClawback, TypeInv
  <2>2. ledger[txs[w].arg] \in Journal
    BY ONLY <1>1, <2>1
  <2> DEFINE journal == [type |-> "clawback", cash |-> ledger[txs[w].arg].cash,
                         journal |-> txs[w].arg]
  <2>3. journal \in Journal /\ journal.type = "clawback"
    BY <2>1, <2>2 DEF Journal
  <2>4. ledger' = Append(ledger, journal)
    BY <1>5 DEF CommitClawback
  <2> HIDE DEF journal
  <2>5. RevenueNotBookedTwice'
    BY <2>3, <2>4, AppendKeepsOnce DEF CycleInv
  <2>6. ActiveRevenue(ledger)' = 0
    BY <1>1, <2>3, <2>4 DEF ActiveRevenue
  <2> QED
    BY <2>5, <2>6 DEF CycleInv
<1> QED
  BY <1>2, <1>3, <1>4, <1>5

(* RevenueNotBookedTwice for every price and policy with a holding period, *)
(* any number of workers, redelivery, recovery and lost events: however    *)
(* releases overlap, revenue is recognised again only after a clawback.    *)
(* Without a holding period a partial refund of a released settlement      *)
(* reopens it with a deadline that a release already open can still meet.  *)
THEOREM RevenueIsRecognisedOnce ==
    ASSUME HoldingDays # 0
    PROVE  Spec => []RevenueNotBookedTwice
<1>1. Init => CycleInv
  BY DEF Init, CycleInv, RevenueNotBookedTwice, ActiveRevenue
<1>2. TypeInv /\ CycleInv /\ [Next]_vars => CycleInv'
  <2> SUFFICES ASSUME TypeInv, CycleInv, [Next]_vars PROVE CycleInv'
    OBVIOUS
  <2>1. CASE BookingNext \/ DisputeNext
    BY <2>1, BookingCycle, CycleFrameKeeps
  <2>2. CASE HandlerNext
    BY <2>2, HandlerCycle, CycleFrameKeeps
  <2>3. CASE WorkerNext
    BY <2>3, WorkerCycle
  <2>4. CASE RecoveryNext \/ EnvironmentNext \/ WindowElapses \/ UNCHANGED vars
    BY <2>4, RestCycle, CycleFrameKeeps
  <2> QED
    BY <2>1, <2>2, <2>3, <2>4 DEF Next
<1>3. CycleInv => RevenueNotBookedTwice
  BY DEF CycleInv
<1> QED
  BY <1>1, <1>2, <1>3, TypeInvariant, PTL DEF Spec

-----------------------------------------------------------------------------
(* The outbox as the handlers see it.  An event is told from the others by *)
(* its name, or by its name and its reason.                                *)
LEMMA EventNames ==
    /\ Completed[1] = "booking.completed" /\ NoShow[1] = "booking.no_show"
    /\ Cancelled[1] = "booking.cancelled" /\ Returned[1] = "booking.returned"
    /\ BookingRefunded[1] = "booking.refunded" /\ BalancePaid[1] = "payment.succeeded"
    /\ ReleaseRequested[1] = "settlement.release_requested"
    /\ RefundRequested[1] = "settlement.refund_requested"
    /\ \A r \in Reasons : /\ RefundCompleted(r)[1] = "refund.completed"
                          /\ RefundCompleted(r)[2] = r
                          /\ RecoveryRequested(r)[1] = "refund.recovery_requested"
                          /\ RecoveryRequested(r)[2] = r
BY DEF Completed, NoShow, Cancelled, Returned, BookingRefunded, BalancePaid, ReleaseRequested,
       RefundRequested, Ev, RefundCompleted, RecoveryRequested

(* How many handlers the modules have registered for each event.           *)
LEMMA HandlerCounts ==
    /\ \A e \in {NoShow, Cancelled, BalancePaid} : Handlers(e) = 2
    /\ \A e \in {Completed, Returned, BookingRefunded, ReleaseRequested, RefundRequested} :
         Handlers(e) = 1
    /\ \A r \in Reasons : Handlers(RefundCompleted(r)) = 3 /\ Handlers(RecoveryRequested(r)) = 1
    /\ \A e \in Events : Handlers(e) \in 1..3
BY EventNames DEF Handlers

(* The rows of the outbox after an emission.                               *)
LEMMA EmitRows ==
    ASSUME NEW box \in [Events -> OutboxRow], NEW e \in Events, NEW d \in Events
    PROVE  Emit(box, e)[d] = IF d = e THEN [state |-> "pending", ran |-> 0] ELSE box[d]
BY DEF Emit

(* The rows of the outbox after a handler; the sweep has none.             *)
LEMMA RanRows ==
    ASSUME NEW box \in [Events -> OutboxRow], NEW e \in Events \cup {Sweep}, NEW i \in 0..3,
           NEW d \in Events
    PROVE  Ran(box, e, i)[d] = IF d = e /\ box[d].ran < i THEN [box[d] EXCEPT !.ran = i]
                               ELSE box[d]
BY EventTypes DEF Ran

(* The move of one event: it rests, is emitted when it was not under way,  *)
(* has handlers committed, is marked processed when all have, or given up. *)
Moves(d) ==
    \/ outbox'[d] = outbox[d]
    \/ outbox[d].state # "pending" /\ outbox'[d] = [state |-> "pending", ran |-> 0]
    \/ /\ outbox[d].state = "pending" /\ outbox'[d].state = "pending"
       /\ outbox'[d].ran \in outbox[d].ran..Handlers(d)
    \/ /\ outbox[d].state = "pending" /\ outbox'[d].state \in {"processed", "dead"}
       /\ outbox'[d].ran = outbox[d].ran /\ ~Running(d)
       /\ outbox'[d].state = "processed" => outbox[d].ran = Handlers(d)

(* No event has more handlers committed than it has, all of them once it   *)
(* is processed and none before it is emitted.                             *)
RanInv ==
    \A e \in Events : /\ outbox[e].ran <= Handlers(e)
                      /\ outbox[e].state = "absent" => outbox[e].ran = 0
                      /\ outbox[e].state = "processed" => outbox[e].ran = Handlers(e)

(* An emission of an event that is not under way is a move of that event.  *)
LEMMA EmitMoves ==
    ASSUME TypeInv, NEW e \in Events, outbox[e].state # "pending", outbox' = Emit(outbox, e)
    PROVE  \A d \in Events : Moves(d)
BY EmitRows DEF Moves, TypeInv, TypeOK

(* A handler that commits is a move of its event, the sweep is none.       *)
LEMMA RanMoves ==
    ASSUME TypeInv, RanInv, NEW e \in Events \cup {Sweep}, NEW i \in 1..3,
           e \in Events => outbox[e].state = "pending" /\ i <= Handlers(e),
           outbox' = Ran(outbox, e, i)
    PROVE  \A d \in Events : Moves(d)
<1> SUFFICES ASSUME NEW d \in Events PROVE Moves(d)
  OBVIOUS
<1>1. outbox \in [Events -> OutboxRow] /\ outbox[d] \in OutboxRow
  BY DEF TypeInv, TypeOK
<1>2. outbox'[d] = IF d = e /\ outbox[d].ran < i THEN [outbox[d] EXCEPT !.ran = i] ELSE outbox[d]
  BY <1>1, RanRows
<1>3. CASE d = e /\ outbox[d].ran < i
  <2>1. outbox'[d].state = outbox[d].state /\ outbox'[d].ran = i
    BY <1>1, <1>2, <1>3 DEF OutboxRow
  <2>2. outbox[d].ran \in Nat /\ Handlers(d) \in Nat
    BY <1>1, HandlerCounts DEF OutboxRow
  <2> QED
    BY <1>3, <2>1, <2>2 DEF Moves
<1>4. CASE ~(d = e /\ outbox[d].ran < i)
  BY <1>2, <1>4 DEF Moves
<1> QED
  BY <1>3, <1>4

(* An event that is under way or over has a cause: nothing is announced    *)
(* twice.  The cause of refund.completed is RefundInv.                     *)
Endings == {Completed, NoShow, Cancelled}
Absent(e) == outbox[e].state = "absent"
CauseInv ==
    /\ booking = "confirmed" => \A e \in Endings \cup {Returned} : Absent(e)
    /\ booking # "refunded" => Absent(BookingRefunded)
    /\ balance # "succeeded" => Absent(BalancePaid)
    /\ dispute.status \in {"none", "open"} => Absent(ReleaseRequested) /\ Absent(RefundRequested)

(* An open transaction works on an event that is under way, at one of its  *)
(* handlers whose predecessors have committed; a release works on its      *)
(* event or on the sweep, a clawback on one of its own events.             *)
ClawbackOps == {"clawback_read", "clawback_write"}
OpenTxInv ==
    \A w \in Workers :
        /\ txs[w].event \in Events =>
             /\ outbox[txs[w].event].state = "pending"
             /\ txs[w].step \in 1..Handlers(txs[w].event)
             /\ txs[w].step <= outbox[txs[w].event].ran + 1
        /\ txs[w].op = "release" => txs[w].event \in {Sweep, ReleaseRequested}
        /\ txs[w].op \in ClawbackOps =>
             txs[w].event \in ClawbackEvents /\ txs[w].step = ClawbackStep(txs[w].event)

RelayInv == RanInv /\ CauseInv /\ OpenTxInv

(* Moves keep the counts within the handlers.                              *)
LEMMA MovesKeepRan == TypeInv /\ RanInv /\ (\A d \in Events : Moves(d)) => RanInv'
<1> SUFFICES ASSUME TypeInv, RanInv, \A d \in Events : Moves(d), NEW e \in Events
             PROVE  /\ outbox'[e].ran <= Handlers(e)
                    /\ outbox'[e].state = "absent" => outbox'[e].ran = 0
                    /\ outbox'[e].state = "processed" => outbox'[e].ran = Handlers(e)
  BY DEF RanInv
<1>1. /\ outbox[e].ran \in Nat /\ Handlers(e) \in 1..3 /\ Moves(e) /\ outbox[e].ran <= Handlers(e)
      /\ outbox[e].state = "absent" => outbox[e].ran = 0
      /\ outbox[e].state = "processed" => outbox[e].ran = Handlers(e)
  BY HandlerCounts DEF TypeInv, TypeOK, OutboxRow, RanInv
<1> QED
  BY <1>1 DEF Moves

(* Booking use cases announce what has not been announced before.          *)
LEMMA BookingMoves ==
    TypeInv /\ RelayInv /\ BookingNext => (\A d \in Events : Moves(d)) /\ CauseInv'
<1> SUFFICES ASSUME TypeInv, RelayInv, BookingNext
             PROVE  (\A d \in Events : Moves(d)) /\ CauseInv'
  OBVIOUS
<1>1. outbox \in [Events -> OutboxRow] /\ CauseInv
  BY DEF TypeInv, TypeOK, RelayInv
<1>2. \A e \in Events : outbox' = Emit(outbox, e) => \A d \in Events :
         outbox'[d] = IF d = e THEN [state |-> "pending", ran |-> 0] ELSE outbox[d]
  BY <1>1, EmitRows
<1>3. CASE MarkCompleted
  <2>1. outbox[Completed].state # "pending"
    BY <1>1, <1>3 DEF MarkCompleted, CauseInv, Endings, Absent
  <2>2. \A d \in Events : Moves(d)
    BY <1>3, <2>1, EmitMoves, EventTypes DEF MarkCompleted
  <2>3. CauseInv'
    BY <1>1, <1>2, <1>3, EventTypes, EventNames
    DEF MarkCompleted, CauseInv, Endings, Absent, financeVars
  <2> QED
    BY <2>2, <2>3
<1>4. CASE MarkReturned
  <2> DEFINE once == Emit(outbox, Returned)
  <2>1. once \in [Events -> OutboxRow]
    BY <1>1, OutboxTypes, EventTypes
  <2>2. \A d \in Events : once[d] = IF d = Returned THEN [state |-> "pending", ran |-> 0]
                                    ELSE outbox[d]
    BY <1>1, EmitRows, EventTypes
  <2>3. outbox' = Emit(once, Completed)
    BY <1>4 DEF MarkReturned
  <2> HIDE DEF once
  <2>4. \A d \in Events : outbox'[d] = IF d \in {Returned, Completed}
                                       THEN [state |-> "pending", ran |-> 0] ELSE outbox[d]
    BY <2>1, <2>2, <2>3, EmitRows, EventTypes
  <2>5. outbox[Completed].state # "pending" /\ outbox[Returned].state # "pending"
    BY <1>1, <1>4 DEF MarkReturned, CauseInv, Endings, Absent
  <2>6. \A d \in Events : Moves(d)
    BY <2>4, <2>5 DEF Moves
  <2>7. CauseInv'
    BY <1>1, <1>4, <2>4, EventTypes, EventNames
    DEF MarkReturned, CauseInv, Endings, Absent, financeVars
  <2> QED
    BY <2>6, <2>7
<1>5. CASE MarkNoShow
  <2>1. outbox[NoShow].state # "pending"
    BY <1>1, <1>5 DEF MarkNoShow, CauseInv, Endings, Absent
  <2>2. \A d \in Events : Moves(d)
    BY <1>5, <2>1, EmitMoves, EventTypes DEF MarkNoShow
  <2>3. CauseInv'
    BY <1>1, <1>2, <1>5, EventTypes, EventNames
    DEF MarkNoShow, CauseInv, Endings, Absent, financeVars
  <2> QED
    BY <2>2, <2>3
<1>6. ASSUME NEW percent \in RefundPercents \cup {100}, CancelBooking(percent)
      PROVE  (\A d \in Events : Moves(d)) /\ CauseInv'
  <2>1. outbox[Cancelled].state # "pending"
    BY <1>1, <1>6 DEF CancelBooking, CauseInv, Endings, Absent
  <2>2. \A d \in Events : Moves(d)
    BY <1>6, <2>1, EmitMoves, EventTypes DEF CancelBooking
  <2>3. CauseInv'
    BY <1>1, <1>2, <1>6, EventTypes, EventNames
    DEF CancelBooking, CauseInv, Endings, Absent, financeVars
  <2> QED
    BY <2>2, <2>3
<1>7. CASE OpenBalanceLink
  BY <1>1, <1>7 DEF OpenBalanceLink, CauseInv, Endings, Absent, Moves, financeVars
<1>8. CASE BalanceSucceeds
  <2>1. outbox[BalancePaid].state # "pending"
    BY <1>1, <1>8 DEF BalanceSucceeds, CauseInv, Absent
  <2>2. \A d \in Events : Moves(d)
    BY <1>8, <2>1, EmitMoves, EventTypes DEF BalanceSucceeds
  <2>3. CauseInv'
    BY <1>1, <1>2, <1>8, EventTypes, EventNames
    DEF BalanceSucceeds, CauseInv, Endings, Absent, financeVars
  <2> QED
    BY <2>2, <2>3
<1> QED
  BY <1>3, <1>4, <1>5, <1>6, <1>7, <1>8 DEF BookingNext

(* A resolution announces its outcome once.                                *)
LEMMA DisputeMoves ==
    TypeInv /\ RelayInv /\ DisputeNext => (\A d \in Events : Moves(d)) /\ CauseInv'
<1> SUFFICES ASSUME TypeInv, RelayInv, DisputeNext
             PROVE  (\A d \in Events : Moves(d)) /\ CauseInv'
  OBVIOUS
<1>1. outbox \in [Events -> OutboxRow] /\ CauseInv /\ dispute \in DisputeRow
  BY DEF TypeInv, TypeOK, RelayInv
<1>2. \A e \in Events : outbox' = Emit(outbox, e) => \A d \in Events :
         outbox'[d] = IF d = e THEN [state |-> "pending", ran |-> 0] ELSE outbox[d]
  BY <1>1, EmitRows
<1>3. CASE OpenSettlementDispute
  BY <1>1, <1>3
  DEF OpenSettlementDispute, CauseInv, Endings, Absent, Moves, bookingVars, DisputeRow
<1>4. CASE ResolveForRelease
  <2>1. outbox[ReleaseRequested].state # "pending" /\ outbox' = Emit(outbox, ReleaseRequested)
    BY <1>1, <1>4 DEF ResolveForRelease, CauseInv, Absent
  <2>2. \A d \in Events : Moves(d)
    BY <2>1, EmitMoves, EventTypes
  <2>3. dispute'.status = "rejected" /\ UNCHANGED <<booking, balance>>
    BY <1>1, <1>4 DEF ResolveForRelease, bookingVars, DisputeRow
  <2>4. CauseInv'
    BY <1>1, <1>2, <2>1, <2>3, EventTypes, EventNames DEF CauseInv, Endings, Absent
  <2> QED
    BY <2>2, <2>4
<1>5. ASSUME NEW amount \in 1..settlement.held, ResolveWithRefund(amount)
      PROVE  (\A d \in Events : Moves(d)) /\ CauseInv'
  <2>1. outbox[RefundRequested].state # "pending" /\ outbox' = Emit(outbox, RefundRequested)
    BY <1>1, <1>5 DEF ResolveWithRefund, CauseInv, Absent
  <2>2. \A d \in Events : Moves(d)
    BY <2>1, EmitMoves, EventTypes
  <2>3. dispute'.status = "accepted" /\ UNCHANGED <<booking, balance>>
    BY <1>1, <1>5 DEF ResolveWithRefund, bookingVars
  <2>4. CauseInv'
    BY <1>1, <1>2, <2>1, <2>3, EventTypes, EventNames DEF CauseInv, Endings, Absent
  <2> QED
    BY <2>2, <2>4
<1> QED
  BY <1>3, <1>4, <1>5 DEF DisputeNext

(* Committing a handler announces nothing, and nothing changes the causes. *)
LEMMA RanKeepsCauses ==
    ASSUME TypeInv, RelayInv, NEW e \in Events \cup {Sweep}, NEW i \in 1..3,
           e \in Events => outbox[e].state = "pending" /\ i <= Handlers(e),
           outbox' \in {outbox, Ran(outbox, e, i)}, UNCHANGED <<booking, balance, dispute>>
    PROVE  (\A d \in Events : Moves(d)) /\ CauseInv'
<1>1. outbox \in [Events -> OutboxRow] /\ CauseInv /\ RanInv
  BY DEF TypeInv, TypeOK, RelayInv
<1>2. \A d \in Events : Moves(d)
  BY <1>1, RanMoves DEF Moves
<1>3. \A d \in Events : outbox'[d].state = outbox[d].state
  BY <1>1, OutboxStates
<1>4. CauseInv'
  BY <1>1, <1>3, EventTypes DEF CauseInv, Endings, Absent
<1> QED
  BY <1>2, <1>4

(* Every handler that can run works on an event that is under way.         *)
LEMMA HandlerMoves ==
    TypeInv /\ RelayInv /\ RefundInv /\ HandlerNext => (\A d \in Events : Moves(d)) /\ CauseInv'
<1> SUFFICES ASSUME TypeInv, RelayInv, HandlerNext
             PROVE  (\A d \in Events : Moves(d)) /\ CauseInv'
  OBVIOUS
<1> DEFINE Goal == (\A d \in Events : Moves(d)) /\ CauseInv'
<1>1. outbox \in [Events -> OutboxRow] /\ CauseInv /\ RanInv
  BY DEF TypeInv, TypeOK, RelayInv
<1>2. ASSUME NEW e \in Events, NEW i \in 1..3, i <= Handlers(e), CanRun(e, i),
             outbox' \in {outbox, Ran(outbox, e, i)}, UNCHANGED <<booking, balance, dispute>>
      PROVE  Goal
  BY <1>2, RanKeepsCauses DEF CanRun
<1>3. CASE RecordHeldSettlement \/ RecordBalancePayment
  <2>1. /\ \E i \in 1..2 : CanRun(BalancePaid, i) /\ outbox' = Ran(outbox, BalancePaid, i)
        /\ UNCHANGED <<booking, balance, dispute>>
    BY <1>3 DEF RecordHeldSettlement, RecordBalancePayment, bookingVars, financeVars
  <2> QED
    BY <1>2, <2>1, EventTypes, HandlerCounts
<1>4. CASE StartSettlementWindow
  BY <1>2, <1>4, EventTypes, HandlerCounts DEF StartSettlementWindow, bookingVars
<1>5. CASE StartNoShowWindow
  BY <1>2, <1>5, EventTypes, HandlerCounts DEF StartNoShowWindow, bookingVars
<1>6. CASE PrepareCancellationRefund
  BY <1>2, <1>6, EventTypes, HandlerCounts DEF PrepareCancellationRefund, bookingVars
<1>7. CASE PlanRefunds
  <2>1. /\ \E e \in Events, i \in 1..3 :
             i <= Handlers(e) /\ CanRun(e, i) /\ outbox' = Ran(outbox, e, i)
        /\ UNCHANGED <<booking, balance, dispute>>
    BY <1>7, EventTypes, HandlerCounts DEF PlanRefunds, ExecuteRefund, bookingVars, financeVars
  <2> QED
    BY <1>2, <2>1
<1>8. CASE SkipRelease
  BY <1>2, <1>8, EventTypes, HandlerCounts DEF SkipRelease, bookingVars, financeVars
<1>9. ASSUME NEW r \in Reasons, IgnoreRefundCompleted(r) PROVE Goal
  <2>1. RefundCompleted(r) \in Events /\ Handlers(RefundCompleted(r)) = 3
        /\ outbox[RefundCompleted(r)].state = "pending"
    BY <1>9, EventTypes, HandlerCounts DEF IgnoreRefundCompleted, CanRun
  <2> QED
    BY <1>9, <2>1, RanKeepsCauses DEF IgnoreRefundCompleted, bookingVars, financeVars
<1>10. ASSUME NEW r \in Reasons, FinalizeSettlementRefund(r) PROVE Goal
  BY <1>2, <1>10, EventTypes, HandlerCounts DEF FinalizeSettlementRefund, bookingVars
<1>11. ASSUME NEW r \in Reasons, FinalizeRefundedBooking(r) PROVE Goal
  <2>1. RefundCompleted(r) \in Events /\ Handlers(RefundCompleted(r)) = 3
        /\ outbox[RefundCompleted(r)].state = "pending"
    BY <1>11, EventTypes, HandlerCounts DEF FinalizeRefundedBooking, CanRun
  <2>2. CASE UNCHANGED booking /\ outbox' = Ran(outbox, RefundCompleted(r), 3)
    BY <1>11, <2>1, <2>2, RanKeepsCauses DEF FinalizeRefundedBooking, financeVars
  <2>3. CASE /\ booking # "refunded" /\ booking # "confirmed" /\ booking' = "refunded"
             /\ outbox' = Emit(Ran(outbox, RefundCompleted(r), 3), BookingRefunded)
    <3> DEFINE box == Ran(outbox, RefundCompleted(r), 3)
    <3>1. box \in [Events -> OutboxRow]
      BY <1>1, OutboxTypes, EventTypes
    <3>2. /\ \A d \in Events : box[d].state = outbox[d].state
          /\ \A d \in Events \ {RefundCompleted(r)} : box[d] = outbox[d]
          /\ box[RefundCompleted(r)].ran = 3
      <4>1. /\ outbox[RefundCompleted(r)] \in OutboxRow
            /\ 3 \in 0..3 /\ RefundCompleted(r) \in Events \cup {Sweep}
        BY <1>1, <2>1
      <4>2. \A d \in Events : box[d] = IF d = RefundCompleted(r) /\ outbox[d].ran < 3
                                       THEN [outbox[d] EXCEPT !.ran = 3] ELSE outbox[d]
        BY <1>1, <4>1, RanRows
      <4> HIDE DEF box
      <4>3. \A d \in Events \ {RefundCompleted(r)} : box[d] = outbox[d]
        BY <4>2
      <4>4. box[RefundCompleted(r)].ran = 3
            /\ box[RefundCompleted(r)].state = outbox[RefundCompleted(r)].state
        <5> DEFINE row == outbox[RefundCompleted(r)]
                   new == box[RefundCompleted(r)]
        <5>1. row \in OutboxRow /\ new = IF row.ran < 3 THEN [row EXCEPT !.ran = 3] ELSE row
          BY <2>1, <4>1, <4>2
        <5> HIDE DEF row, new
        <5>2. new.ran = 3 /\ new.state = row.state
          BY <5>1 DEF OutboxRow
        <5> QED
          BY <5>2 DEF row, new
      <4> QED
        BY <4>3, <4>4
    <3>3. outbox' = Emit(box, BookingRefunded)
      BY <2>3
    <3> HIDE DEF box
    <3>4. /\ outbox'[BookingRefunded] = [state |-> "pending", ran |-> 0]
          /\ \A d \in Events \ {BookingRefunded} : outbox'[d] = box[d]
      BY <3>1, <3>3, EmitRows, EventTypes
    <3>5. outbox[BookingRefunded].state # "pending" /\ BookingRefunded # RefundCompleted(r)
      BY <1>1, <2>3, EventNames DEF CauseInv, Absent
    <3>6. \A d \in Events : d # BookingRefunded => outbox'[d].state = outbox[d].state
      BY <3>2, <3>4
    <3>7. /\ outbox'[RefundCompleted(r)].ran = 3 /\ outbox'[RefundCompleted(r)].state = "pending"
          /\ outbox[RefundCompleted(r)].ran \in 0..3
      BY <1>1, <2>1, <3>2, <3>4, <3>5 DEF OutboxRow
    <3>8. \A d \in Events : Moves(d)
      <4> TAKE d \in Events
      <4>1. CASE d = BookingRefunded
        BY <3>4, <3>5, <4>1 DEF Moves
      <4>2. CASE d = RefundCompleted(r)
        BY <2>1, <3>7, <4>2 DEF Moves
      <4>3. CASE d \notin {BookingRefunded, RefundCompleted(r)}
        BY <3>2, <3>4, <4>3 DEF Moves
      <4> QED
        BY <4>1, <4>2, <4>3
    <3>9. UNCHANGED <<balance, dispute>>
      BY <1>11 DEF FinalizeRefundedBooking, financeVars
    <3>10. CauseInv'
      BY <1>1, <2>3, <3>6, <3>9, EventTypes, EventNames DEF CauseInv, Endings, Absent
    <3> QED
      BY <3>8, <3>10
  <2> QED
    BY <1>11, <2>2, <2>3 DEF FinalizeRefundedBooking
<1>12. ASSUME NEW w \in Workers, BeginRelease(w, ReleaseRequested) PROVE Goal
  BY <1>1, <1>12 DEF BeginRelease, Moves, CauseInv, Absent, bookingVars, financeVars
<1>13. ASSUME NEW w \in Workers, NEW e \in ClawbackEvents, BeginClawback(w, e) PROVE Goal
  <2>1. e \in Events /\ ClawbackStep(e) \in 1..3 /\ ClawbackStep(e) <= Handlers(e)
    BY EventTypes, EventNames, HandlerCounts DEF ClawbackStep, ClawbackEvents
  <2> QED
    BY <1>2, <1>13, <2>1 DEF BeginClawback, bookingVars, financeVars
<1>14. ASSUME NEW e \in Events, MarkProcessed(e) PROVE Goal
  <2>1. outbox[e].state = "pending" /\ outbox[e].ran = Handlers(e)
        /\ outbox' = [outbox EXCEPT ![e].state = "processed"] /\ ~Running(e)
        /\ UNCHANGED <<booking, balance, dispute>>
    BY <1>14 DEF MarkProcessed, bookingVars, financeVars
  <2>2. \A d \in Events : d # e => outbox'[d] = outbox[d]
    BY <1>1, <2>1
  <2>3. outbox'[e].state = "processed" /\ outbox'[e].ran = outbox[e].ran
    BY <1>1, <2>1 DEF OutboxRow
  <2>4. \A d \in Events : Moves(d)
    BY <2>1, <2>2, <2>3 DEF Moves
  <2>5. CauseInv'
    BY <1>1, <2>1, <2>2, EventTypes DEF CauseInv, Endings, Absent
  <2> QED
    BY <2>4, <2>5
<1> QED
  BY <1>3, <1>4, <1>5, <1>6, <1>7, <1>8, <1>9, <1>10, <1>11, <1>12, <1>13, <1>14
  DEF HandlerNext

(* The statements of a worker commit at most the handler of its event.     *)
LEMMA WorkerMoves ==
    TypeInv /\ RelayInv /\ WorkerNext => (\A d \in Events : Moves(d)) /\ CauseInv'
<1> SUFFICES ASSUME TypeInv, RelayInv, NEW w \in Workers,
                    \/ BeginRelease(w, Sweep) \/ CommitRelease(w) \/ AbortRelease(w)
                    \/ ReadClawbackEntries(w) \/ CommitClawback(w)
             PROVE  (\A d \in Events : Moves(d)) /\ CauseInv'
  BY DEF WorkerNext
<1> DEFINE e == txs[w].event
           i == txs[w].step
<1>1. /\ e \in Events \cup {Sweep} /\ Handlers(ReleaseRequested) = 1
      /\ e \in Events => outbox[e].state = "pending" /\ i \in 1..Handlers(e)
      /\ txs[w].op = "release" => e \in {Sweep, ReleaseRequested}
  BY HandlerCounts DEF TypeInv, TypeOK, Transaction, RelayInv, OpenTxInv
<1>2. UNCHANGED <<booking, balance, dispute>>
  BY DEF BeginRelease, CommitRelease, AbortRelease, ReadClawbackEntries, CommitClawback,
         bookingVars, financeVars
<1>3. \/ outbox' = outbox
      \/ txs[w].op = "release" /\ outbox' = Ran(outbox, e, 1)
      \/ outbox' = Ran(outbox, e, i)
  BY DEF BeginRelease, CommitRelease, AbortRelease, ReadClawbackEntries, CommitClawback
<1>4. \E j \in 1..3 : /\ outbox' \in {outbox, Ran(outbox, e, j)}
                      /\ e \in Events => j <= Handlers(e)
  <2>1. CASE e \in Events
    <3>1. i \in 1..3 /\ i <= Handlers(e) /\ 1 <= Handlers(e)
      BY <1>1, <2>1, HandlerCounts
    <3> QED
      BY <1>3, <3>1
  <2>2. CASE e \notin Events
    <3>1. outbox' = outbox
      BY <1>1, <1>3, <2>2 DEF Ran
    <3> QED
      BY <2>2, <3>1
  <2> QED
    BY <2>1, <2>2
<1> HIDE DEF e, i
<1> QED
  BY <1>1, <1>2, <1>4, RanKeepsCauses

(* The recovery worker announces again what is not under way.              *)
LEMMA RestMoves ==
    TypeInv /\ RelayInv /\ RefundInv
        /\ (RecoveryNext \/ EnvironmentNext \/ WindowElapses \/ UNCHANGED vars)
    => (\A d \in Events : Moves(d)) /\ CauseInv'
<1> SUFFICES ASSUME TypeInv, RelayInv, RefundInv,
                    RecoveryNext \/ EnvironmentNext \/ WindowElapses \/ UNCHANGED vars
             PROVE  (\A d \in Events : Moves(d)) /\ CauseInv'
  OBVIOUS
<1> DEFINE Goal == (\A d \in Events : Moves(d)) /\ CauseInv'
<1>1. outbox \in [Events -> OutboxRow] /\ CauseInv
  BY DEF TypeInv, TypeOK, RelayInv
<1>2. ASSUME NEW e \in Events, outbox[e].state # "pending", outbox' = Emit(outbox, e),
             e[1] \in {"refund.completed", "refund.recovery_requested"},
             UNCHANGED <<booking, balance, dispute>>
      PROVE  Goal
  <2>1. \A d \in Events : Moves(d)
    BY <1>2, EmitMoves
  <2>2. \A d \in Events : d # e => outbox'[d] = outbox[d]
    BY <1>1, <1>2, EmitRows
  <2>3. CauseInv'
    BY <1>1, <1>2, <2>2, EventTypes, EventNames DEF CauseInv, Endings, Absent
  <2> QED
    BY <2>1, <2>3
<1>3. ASSUME NEW r \in Reasons, RecoverBatch(r) \/ BatchCompletes(r) PROVE Goal
  <2>1. outbox[RefundCompleted(r)].state # "pending"
    BY <1>3 DEF RecoverBatch, BatchCompletes, RefundInv
  <2>2. outbox' = Emit(outbox, RefundCompleted(r)) /\ UNCHANGED <<booking, balance, dispute>>
    BY <1>3 DEF RecoverBatch, BatchCompletes, bookingVars, financeVars
  <2> QED
    BY <1>2, <2>1, <2>2, EventTypes, EventNames
<1>4. ASSUME NEW r \in Reasons, RecoverMissingRefund(r) PROVE Goal
  BY <1>2, <1>4, EventTypes, EventNames DEF RecoverMissingRefund, bookingVars, financeVars
<1>5. ASSUME NEW e \in Events, DeadLetter(e) PROVE Goal
  <2>1. outbox[e].state = "pending" /\ ~Running(e)
        /\ outbox' = [outbox EXCEPT ![e].state = "dead"]
        /\ UNCHANGED <<booking, balance, dispute>>
    BY <1>5 DEF DeadLetter, bookingVars, financeVars
  <2>2. \A d \in Events : d # e => outbox'[d] = outbox[d]
    BY <1>1, <2>1
  <2>3. outbox'[e].state = "dead" /\ outbox'[e].ran = outbox[e].ran
    BY <1>1, <2>1 DEF OutboxRow
  <2>4. \A d \in Events : Moves(d)
    BY <2>1, <2>2, <2>3 DEF Moves
  <2>5. CauseInv'
    BY <1>1, <2>1, <2>2, EventTypes DEF CauseInv, Endings, Absent
  <2> QED
    BY <2>4, <2>5
<1>6. CASE WindowElapses \/ UNCHANGED vars \/ \E r \in Reasons : BatchFails(r)
  BY <1>1, <1>6 DEF WindowElapses, BatchFails, vars, bookingVars, financeVars, Moves, CauseInv,
                    Absent
<1> QED
  BY <1>3, <1>4, <1>5, <1>6 DEF RecoveryNext, EnvironmentNext

(* What a step does to the transactions: each goes on with its event, ends *)
(* or begins on an event that is under way.                                *)
TxKept(w) ==
    /\ txs'[w].event = txs[w].event /\ txs'[w].step = txs[w].step
    /\ txs'[w].op = "release" => txs[w].op = "release"
    /\ txs'[w].op \in ClawbackOps => txs[w].op \in ClawbackOps
TxBegun(w) ==
    /\ txs'[w].event \in Events =>
         /\ outbox' = outbox /\ outbox[txs'[w].event].state = "pending"
         /\ txs'[w].step \in 1..Handlers(txs'[w].event)
         /\ txs'[w].step <= outbox[txs'[w].event].ran + 1
    /\ txs'[w].op = "release" => txs'[w].event \in {Sweep, ReleaseRequested}
    /\ txs'[w].op \in ClawbackOps =>
         txs'[w].event \in ClawbackEvents /\ txs'[w].step = ClawbackStep(txs'[w].event)
LEMMA TxMoves ==
    ASSUME TypeInv, RelayInv, [Next]_vars, NEW w \in Workers
    PROVE  txs'[w] = Idle \/ TxKept(w) \/ TxBegun(w)
<1>1. txs \in [Workers -> Transaction]
  BY DEF TypeInv, TypeOK
<1>2. ASSUME UNCHANGED txs PROVE TxKept(w)
  BY <1>2 DEF TxKept
<1>3. CASE txs' = Outdated
  <2>1. TxKept(w)
    BY <1>1, <1>3 DEF Outdated, Transaction, TxKept
  <2> QED
    BY <2>1
<1>4. ASSUME NEW v \in Workers, txs' = [txs EXCEPT ![v] = Idle] PROVE txs'[w] = Idle \/ TxKept(w)
  BY <1>1, <1>4 DEF TxKept
<1>5. ASSUME NEW v \in Workers, NEW e \in Events \cup {Sweep}, NEW op, NEW i, NEW arg,
             Begin(v, op, e, i, arg), outbox' = outbox,
             e \in Events => /\ outbox[e].state = "pending" /\ i \in 1..Handlers(e)
                             /\ i <= outbox[e].ran + 1,
             op = "release" => e \in {Sweep, ReleaseRequested},
             op \in ClawbackOps => e \in ClawbackEvents /\ i = ClawbackStep(e)
      PROVE  TxKept(w) \/ TxBegun(w)
  <2> DEFINE tx == [op |-> op, event |-> e, step |-> i, arg |-> arg, current |-> TRUE]
  <2>1. txs'[w] = IF w = v THEN tx ELSE txs[w]
    BY <1>1, <1>5 DEF Begin
  <2>2. tx.event = e /\ tx.step = i /\ tx.op = op
    OBVIOUS
  <2> HIDE DEF tx
  <2> QED
    BY <1>5, <2>1, <2>2 DEF TxKept, TxBegun
<1>6. ASSUME NEW v \in Workers, NEW e \in Events \cup {Sweep}, BeginRelease(v, e),
             e \in {Sweep, ReleaseRequested}
      PROVE  TxKept(w) \/ TxBegun(w)
  <2>1. e \in Events => /\ outbox[e].state = "pending" /\ 1 \in 1..Handlers(e)
                        /\ 1 <= outbox[e].ran + 1
    BY <1>6, EventTypes, HandlerCounts
    DEF BeginRelease, CanRun, TypeInv, TypeOK, OutboxRow
  <2>2. Begin(v, "release", e, 1, ReleasePlan) /\ outbox' = outbox
    BY <1>6 DEF BeginRelease
  <2> QED
    BY <1>5, <1>6, <2>1, <2>2 DEF ClawbackOps
<1>7. ASSUME NEW v \in Workers, NEW e \in ClawbackEvents, BeginClawback(v, e)
      PROVE  TxKept(w) \/ TxBegun(w)
  <2>1. e \in Events /\ ClawbackStep(e) \in 1..Handlers(e)
    BY EventTypes, EventNames, HandlerCounts DEF ClawbackStep, ClawbackEvents
  <2>2. \/ UNCHANGED txs
        \/ Begin(v, "clawback_read", e, ClawbackStep(e), 0) /\ outbox' = outbox
    BY <1>7 DEF BeginClawback
  <2>3. outbox[e].state = "pending" /\ ClawbackStep(e) <= outbox[e].ran + 1
    BY <1>7, <2>1, HandlerCounts DEF BeginClawback, CanRun, TypeInv, TypeOK, OutboxRow
  <2> QED
    BY <1>2, <1>5, <2>1, <2>2, <2>3
<1>8. ASSUME NEW v \in Workers, ReadClawbackEntries(v) PROVE txs'[w] = Idle \/ TxKept(w)
  <2>1. CASE txs' = [txs EXCEPT ![v] = Idle]
    BY <1>4, <2>1
  <2>2. CASE txs' = [txs EXCEPT ![v].op = "clawback_write", ![v].arg = ActiveRevenue(ledger)]
    <3>1. w # v => txs'[w] = txs[w]
      BY <1>1, <2>2
    <3>2. txs'[v] = [txs[v] EXCEPT !.op = "clawback_write", !.arg = ActiveRevenue(ledger)]
      BY <1>1, <2>2
    <3>3. txs'[v].event = txs[v].event /\ txs'[v].step = txs[v].step
          /\ txs'[v].op = "clawback_write"
      BY <1>1, <3>2 DEF Transaction
    <3> QED
      BY <1>8, <3>1, <3>3 DEF TxKept, ClawbackOps, ReadClawbackEntries
  <2> QED
    BY <1>8, <2>1, <2>2 DEF ReadClawbackEntries
<1>9. \/ UNCHANGED txs \/ txs' = Outdated
      \/ \E v \in Workers : \/ txs' = [txs EXCEPT ![v] = Idle]
                            \/ BeginRelease(v, ReleaseRequested) \/ BeginRelease(v, Sweep)
                            \/ \E e \in ClawbackEvents : BeginClawback(v, e)
                            \/ ReadClawbackEntries(v)
  <2>1. CASE BookingNext \/ DisputeNext
    BY <2>1 DEF BookingNext, DisputeNext, MarkCompleted, MarkReturned, MarkNoShow, CancelBooking,
                OpenBalanceLink, BalanceSucceeds, OpenSettlementDispute, ResolveForRelease,
                ResolveWithRefund
  <2>2. CASE HandlerNext
    BY <2>2 DEF HandlerNext, RecordHeldSettlement, RecordBalancePayment, StartSettlementWindow,
                StartNoShowWindow, PrepareCancellationRefund, PlanRefunds, ExecuteRefund,
                SkipRelease, IgnoreRefundCompleted, FinalizeSettlementRefund,
                FinalizeRefundedBooking, MarkProcessed
  <2>3. CASE WorkerNext
    BY <2>3 DEF WorkerNext, CommitRelease, AbortRelease, CommitClawback
  <2>4. CASE RecoveryNext \/ EnvironmentNext \/ WindowElapses \/ UNCHANGED vars
    BY <2>4 DEF RecoveryNext, EnvironmentNext, RecoverBatch, RecoverMissingRefund,
                BatchCompletes, BatchFails, DeadLetter, WindowElapses, vars
  <2> QED
    BY <2>1, <2>2, <2>3, <2>4 DEF Next
<1> QED
  BY <1>2, <1>3, <1>4, <1>6, <1>7, <1>8, <1>9, EventTypes

(* Every step is a move of every event, and the relay's invariant holds on. *)
LEMMA RelaySteps ==
    TypeInv /\ RelayInv /\ RefundInv /\ [Next]_vars => (\A d \in Events : Moves(d)) /\ RelayInv'
<1> SUFFICES ASSUME TypeInv, RelayInv, RefundInv, [Next]_vars
             PROVE  (\A d \in Events : Moves(d)) /\ RelayInv'
  OBVIOUS
<1>1. (\A d \in Events : Moves(d)) /\ CauseInv'
  BY BookingMoves, DisputeMoves, HandlerMoves, WorkerMoves, RestMoves DEF Next
<1>2. RanInv'
  BY <1>1, MovesKeepRan DEF RelayInv
<1>3. OpenTxInv'
  <2> SUFFICES ASSUME NEW w \in Workers
               PROVE  /\ txs'[w].event \in Events =>
                           /\ outbox'[txs'[w].event].state = "pending"
                           /\ txs'[w].step \in 1..Handlers(txs'[w].event)
                           /\ txs'[w].step <= outbox'[txs'[w].event].ran + 1
                      /\ txs'[w].op = "release" => txs'[w].event \in {Sweep, ReleaseRequested}
                      /\ txs'[w].op \in ClawbackOps =>
                           /\ txs'[w].event \in ClawbackEvents
                           /\ txs'[w].step = ClawbackStep(txs'[w].event)
    BY DEF OpenTxInv
  <2>1. CASE txs'[w] = Idle
    BY <2>1, EventTypes DEF Idle, ClawbackOps
  <2>2. CASE TxKept(w)
    <3> DEFINE e == txs[w].event
    <3>1. /\ e \in Events => /\ outbox[e].state = "pending" /\ txs[w].step \in 1..Handlers(e)
                             /\ txs[w].step <= outbox[e].ran + 1
          /\ txs[w].op = "release" => e \in {Sweep, ReleaseRequested}
          /\ txs[w].op \in ClawbackOps => e \in ClawbackEvents /\ txs[w].step = ClawbackStep(e)
      BY DEF RelayInv, OpenTxInv
    <3>2. e \in Events => Running(e) /\ Moves(e) /\ outbox[e].ran \in Nat /\ Handlers(e) \in Nat
      BY <1>1, HandlerCounts DEF Running, TypeInv, TypeOK, OutboxRow
    <3>3. e \in Events => outbox'[e].state = "pending" /\ outbox'[e].ran \in Nat
                          /\ outbox[e].ran <= outbox'[e].ran
      BY <3>1, <3>2 DEF Moves
    <3>4. e \in Events => txs[w].step <= outbox'[e].ran + 1
      BY <3>1, <3>2, <3>3
    <3> QED
      BY <2>2, <3>1, <3>3, <3>4 DEF TxKept
  <2>3. CASE TxBegun(w)
    BY <2>3 DEF TxBegun
  <2> QED
    BY <2>1, <2>2, <2>3, TxMoves
<1> QED
  BY <1>1, <1>2, <1>3 DEF RelayInv

(* The relay's invariant holds throughout.                                 *)
LEMMA RelayInvariant == Spec => []RelayInv
<1>1. ASSUME Init PROVE RelayInv
  <2>1. \A e \in Events : outbox[e].state = "absent" /\ outbox[e].ran = 0
    BY <1>1 DEF Init
  <2>2. RanInv
    BY <2>1, HandlerCounts DEF RanInv
  <2>3. CauseInv
    BY <2>1, EventTypes DEF CauseInv, Endings, Absent
  <2>4. OpenTxInv
    BY <1>1, EventTypes DEF Init, OpenTxInv, ClawbackOps, Idle
  <2> QED
    BY <2>2, <2>3, <2>4 DEF RelayInv
<1> QED
  BY <1>1, RefundInvariant, RelaySteps, TypeInvariant, PTL DEF Spec

(* A move of an event is a step of the delivery it was promised.           *)
LEMMA MovesDeliver ==
    ASSUME TypeInv, RelayInv, NEW d \in Events, Moves(d)
    PROVE  \/ Relay!Rest(d) \/ Relay!Emit(d) \/ Relay!Run(d) \/ Relay!Process(d)
           \/ Relay!GiveUp(d)
<1>1. outbox[d].ran \in Nat /\ Handlers(d) \in Nat /\ outbox[d].ran <= Handlers(d)
  BY HandlerCounts DEF TypeInv, TypeOK, OutboxRow, RelayInv, RanInv
<1>2. CASE outbox'[d] = outbox[d]
  BY <1>2 DEF Relay!Rest
<1>3. CASE outbox[d].state # "pending" /\ outbox'[d] = [state |-> "pending", ran |-> 0]
  BY <1>3 DEF Relay!Emit
<1>4. CASE /\ outbox[d].state = "pending" /\ outbox'[d].state = "pending"
           /\ outbox'[d].ran \in outbox[d].ran..Handlers(d)
  <2>1. outbox'[d].ran \in 0..Handlers(d) /\ 1..outbox[d].ran \subseteq 1..outbox'[d].ran
    BY <1>1, <1>4
  <2> QED
    BY <1>4, <2>1 DEF Relay!Run
<1>5. CASE /\ outbox[d].state = "pending" /\ outbox'[d].state \in {"processed", "dead"}
           /\ outbox'[d].ran = outbox[d].ran
           /\ outbox'[d].state = "processed" => outbox[d].ran = Handlers(d)
  BY <1>5 DEF Relay!Process, Relay!GiveUp
<1> QED
  BY <1>2, <1>3, <1>4, <1>5 DEF Moves

(* OutboxIsDelivery for every constant: the handlers of the three modules, *)
(* with their split transactions, redeliveries and re-emissions, see an    *)
(* outbox that keeps the promise of Delivery.                              *)
THEOREM HandlersSeeDelivery == Spec => OutboxIsDelivery
<1>2. Init => Relay!Init
  BY DEF Init, Relay!Init
<1>4. TypeInv /\ RelayInv /\ RefundInv /\ [Next]_vars =>
        [Relay!Next]_<<[e \in Events |-> outbox[e].state], [e \in Events |-> 1..outbox[e].ran]>>
  BY RelaySteps, MovesDeliver DEF Relay!Next
<1> QED
  BY <1>2, <1>4, RelayInvariant, RefundInvariant, TypeInvariant, PTL
  DEF Spec, OutboxIsDelivery, Relay!Spec

-----------------------------------------------------------------------------
(* Who writes which row of the outbox.  The long-lived facts below speak   *)
(* of what has been emitted and handled; each changes by a few actions.    *)
WritesRow(d) ==
    \/ d = Completed /\ (MarkCompleted \/ MarkReturned \/ StartSettlementWindow)
    \/ d = NoShow /\ \/ MarkNoShow \/ StartNoShowWindow
                     \/ ExecuteRefund(NoShow, 2, SecurityRefund, Security, FALSE)
    \/ d = Cancelled /\ \/ \E percent \in RefundPercents \cup {100} : CancelBooking(percent)
                        \/ PrepareCancellationRefund
                        \/ ExecuteRefund(Cancelled, 2, Cancellation, refundDue, TRUE)
    \/ d = Returned /\ \/ MarkReturned
                       \/ ExecuteRefund(Returned, 1, SecurityRefund, returned, FALSE)
    \/ d = BalancePaid /\ (BalanceSucceeds \/ RecordHeldSettlement \/ RecordBalancePayment)
    \/ d = RefundRequested /\
         \/ \E amount \in 1..settlement.held : ResolveWithRefund(amount)
         \/ ExecuteRefund(RefundRequested, 1, DisputeRefund, dispute.refund, dispute.full)
    \/ d = ReleaseRequested
    \/ d = BookingRefunded
    \/ \E r \in Reasons : d = RefundCompleted(r) /\
         \/ BatchCompletes(r) \/ RecoverBatch(r)
         \/ IgnoreRefundCompleted(r) \/ FinalizeSettlementRefund(r) \/ FinalizeRefundedBooking(r)
         \/ \E w \in Workers : \/ BeginClawback(w, d)
                               \/ txs[w].event = d /\ ReadClawbackEntries(w)
                               \/ txs[w].event = d /\ CommitClawback(w)
    \/ \E r \in Reasons : d = RecoveryRequested(r) /\ RecoverMissingRefund(r)
    \/ /\ d = RecoveryRequested(Cancellation)
       /\ ExecuteRefund(d, 1, Cancellation, refundDue, TRUE)
    \/ /\ d = RecoveryRequested(SecurityRefund)
       /\ ExecuteRefund(d, 1, SecurityRefund, Security, FALSE)
    \/ MarkProcessed(d) \/ DeadLetter(d)

(* Emitting and committing write the row of their event alone.             *)
LEMMA OneRow ==
    ASSUME NEW box \in [Events -> OutboxRow], NEW e \in Events \cup {Sweep}, NEW i \in 0..3,
           NEW d \in Events, d # e
    PROVE  /\ Emit(box, e)[d] = box[d]
           /\ Ran(box, e, i)[d] = box[d]
BY DEF Ran, Emit

(* Every row that a step changes is one that its action writes.            *)
LEMMA RowWriters ==
    ASSUME TypeInv, RelayInv, [Next]_vars, NEW d \in Events, outbox'[d] # outbox[d]
    PROVE  WritesRow(d)
<1>1. outbox \in [Events -> OutboxRow]
  BY DEF TypeInv, TypeOK
<1>2. ASSUME NEW e \in Events \cup {Sweep}, NEW i \in 0..3,
             outbox' \in {outbox, Emit(outbox, e), Ran(outbox, e, i)}
      PROVE  d = e
  BY <1>1, <1>2, OneRow
<1>3. CASE BookingNext
  <2>1. CASE MarkCompleted
    <3>1. d = Completed
      BY <1>2, <2>1, EventTypes DEF MarkCompleted
    <3> QED
      BY <2>1, <3>1 DEF WritesRow
  <2>2. CASE MarkReturned
    <3> DEFINE once == Emit(outbox, Returned)
    <3>1. once \in [Events -> OutboxRow] /\ outbox' = Emit(once, Completed)
      BY <1>1, <2>2, OutboxTypes, EventTypes DEF MarkReturned
    <3>2. d # Returned => once[d] = outbox[d]
      BY <1>1, OneRow, EventTypes
    <3> HIDE DEF once
    <3>3. d \in {Returned, Completed}
      BY <3>1, <3>2, OneRow, EventTypes
    <3> QED
      BY <2>2, <3>3 DEF WritesRow
  <2>3. CASE MarkNoShow
    <3>1. d = NoShow
      BY <1>2, <2>3, EventTypes DEF MarkNoShow
    <3> QED
      BY <2>3, <3>1 DEF WritesRow
  <2>4. ASSUME NEW percent \in RefundPercents \cup {100}, CancelBooking(percent)
        PROVE  WritesRow(d)
    <3>1. d = Cancelled
      BY <1>2, <2>4, EventTypes DEF CancelBooking
    <3> QED
      BY <2>4, <3>1 DEF WritesRow
  <2>5. CASE OpenBalanceLink
    BY <2>5 DEF OpenBalanceLink
  <2>6. CASE BalanceSucceeds
    <3>1. d = BalancePaid
      BY <1>2, <2>6, EventTypes DEF BalanceSucceeds
    <3> QED
      BY <2>6, <3>1 DEF WritesRow
  <2> QED
    BY <1>3, <2>1, <2>2, <2>3, <2>4, <2>5, <2>6 DEF BookingNext
<1>4. CASE DisputeNext
  <2>1. CASE OpenSettlementDispute
    BY <2>1 DEF OpenSettlementDispute
  <2>2. CASE ResolveForRelease
    <3>1. d = ReleaseRequested
      BY <1>2, <2>2, EventTypes DEF ResolveForRelease
    <3> QED
      BY <2>2, <3>1 DEF WritesRow
  <2>3. ASSUME NEW amount \in 1..settlement.held, ResolveWithRefund(amount) PROVE WritesRow(d)
    <3>1. d = RefundRequested
      BY <1>2, <2>3, EventTypes DEF ResolveWithRefund
    <3> QED
      BY <2>3, <3>1 DEF WritesRow
  <2> QED
    BY <1>4, <2>1, <2>2, <2>3 DEF DisputeNext
<1>5. CASE HandlerNext
  <2>1. CASE RecordHeldSettlement \/ RecordBalancePayment
    <3>1. d = BalancePaid
      BY <1>2, <2>1, EventTypes DEF RecordHeldSettlement, RecordBalancePayment
    <3> QED
      BY <2>1, <3>1 DEF WritesRow
  <2>2. CASE StartSettlementWindow
    <3>1. d = Completed
      BY <1>2, <2>2, EventTypes DEF StartSettlementWindow
    <3> QED
      BY <2>2, <3>1 DEF WritesRow
  <2>3. CASE StartNoShowWindow
    <3>1. d = NoShow
      BY <1>2, <2>3, EventTypes DEF StartNoShowWindow
    <3> QED
      BY <2>3, <3>1 DEF WritesRow
  <2>4. CASE PrepareCancellationRefund
    <3>1. d = Cancelled
      BY <1>2, <2>4, EventTypes DEF PrepareCancellationRefund
    <3> QED
      BY <2>4, <3>1 DEF WritesRow
  <2>5. CASE PlanRefunds
    <3>1. CASE ExecuteRefund(Cancelled, 2, Cancellation, refundDue, TRUE)
      <4>1. d = Cancelled
        BY <1>2, <3>1, EventTypes DEF ExecuteRefund
      <4> QED
        BY <3>1, <4>1, EventTypes DEF WritesRow
    <3>2. CASE ExecuteRefund(Returned, 1, SecurityRefund, returned, FALSE)
      <4>1. d = Returned
        BY <1>2, <3>2, EventTypes DEF ExecuteRefund
      <4> QED
        BY <3>2, <4>1, EventTypes DEF WritesRow
    <3>3. CASE ExecuteRefund(NoShow, 2, SecurityRefund, Security, FALSE)
      <4>1. d = NoShow
        BY <1>2, <3>3, EventTypes DEF ExecuteRefund
      <4> QED
        BY <3>3, <4>1, EventTypes DEF WritesRow
    <3>4. CASE ExecuteRefund(RefundRequested, 1, DisputeRefund, dispute.refund, dispute.full)
      <4>1. d = RefundRequested
        BY <1>2, <3>4, EventTypes DEF ExecuteRefund
      <4> QED
        BY <3>4, <4>1, EventTypes DEF WritesRow
    <3>5. CASE ExecuteRefund(RecoveryRequested(Cancellation), 1, Cancellation, refundDue, TRUE)
      <4>1. d = RecoveryRequested(Cancellation)
        BY <1>2, <3>5, EventTypes DEF ExecuteRefund
      <4> QED
        BY <3>5, <4>1, EventTypes DEF WritesRow
    <3>6. CASE ExecuteRefund(RecoveryRequested(SecurityRefund), 1, SecurityRefund, Security, FALSE)
      <4>1. d = RecoveryRequested(SecurityRefund)
        BY <1>2, <3>6, EventTypes DEF ExecuteRefund
      <4> QED
        BY <3>6, <4>1, EventTypes DEF WritesRow
    <3> QED
      BY <2>5, <3>1, <3>2, <3>3, <3>4, <3>5, <3>6 DEF PlanRefunds
  <2>6. CASE SkipRelease
    <3>1. d = ReleaseRequested
      BY <1>2, <2>6, EventTypes DEF SkipRelease
    <3> QED
      BY <2>6, <3>1 DEF WritesRow
  <2>7. ASSUME NEW r \in Reasons, IgnoreRefundCompleted(r) PROVE WritesRow(d)
    <3>1. d = RefundCompleted(r)
      BY <1>2, <2>7, EventTypes DEF IgnoreRefundCompleted
    <3> QED
      BY <2>7, <3>1 DEF WritesRow
  <2>8. ASSUME NEW r \in Reasons, FinalizeSettlementRefund(r) PROVE WritesRow(d)
    <3>1. d = RefundCompleted(r)
      BY <1>2, <2>8, EventTypes DEF FinalizeSettlementRefund
    <3> QED
      BY <2>8, <3>1 DEF WritesRow
  <2>9. ASSUME NEW r \in Reasons, FinalizeRefundedBooking(r) PROVE WritesRow(d)
    <3> DEFINE box == Ran(outbox, RefundCompleted(r), 3)
    <3>1. box \in [Events -> OutboxRow] /\ outbox' \in {box, Emit(box, BookingRefunded)}
      BY <1>1, <2>9, OutboxTypes, EventTypes DEF FinalizeRefundedBooking
    <3>2. d # RefundCompleted(r) => box[d] = outbox[d]
      BY <1>1, OneRow, EventTypes
    <3> HIDE DEF box
    <3>3. d \in {RefundCompleted(r), BookingRefunded}
      BY <3>1, <3>2, OneRow, EventTypes
    <3> QED
      BY <2>9, <3>3 DEF WritesRow
  <2>10. ASSUME NEW w \in Workers, BeginRelease(w, ReleaseRequested) PROVE WritesRow(d)
    BY <2>10 DEF BeginRelease
  <2>11. ASSUME NEW w \in Workers, NEW e \in ClawbackEvents, BeginClawback(w, e)
         PROVE  WritesRow(d)
    <3>1. d = e
      BY <1>2, <2>11, EventTypes DEF BeginClawback, ClawbackStep
    <3> QED
      BY <2>11, <3>1 DEF WritesRow, ClawbackEvents
  <2>12. ASSUME NEW e \in Events, MarkProcessed(e) PROVE WritesRow(d)
    <3>1. d = e
      BY <1>1, <2>12 DEF MarkProcessed
    <3> QED
      BY <2>12, <3>1 DEF WritesRow
  <2> QED
    BY <1>5, <2>1, <2>2, <2>3, <2>4, <2>5, <2>6, <2>7, <2>8, <2>9, <2>10, <2>11, <2>12
    DEF HandlerNext
<1>6. CASE WorkerNext
  <2> SUFFICES ASSUME NEW w \in Workers,
                      \/ BeginRelease(w, Sweep) \/ CommitRelease(w) \/ AbortRelease(w)
                      \/ ReadClawbackEntries(w) \/ CommitClawback(w)
               PROVE  WritesRow(d)
    BY <1>6 DEF WorkerNext
  <2>1. txs[w] \in Transaction
    BY DEF TypeInv, TypeOK
  <2>2. CASE BeginRelease(w, Sweep) \/ AbortRelease(w)
    BY <2>2 DEF BeginRelease, AbortRelease
  <2>3. CASE CommitRelease(w)
    <3>1. d = txs[w].event /\ txs[w].op = "release"
      BY <1>2, <2>1, <2>3 DEF CommitRelease, Transaction
    <3> QED
      BY <3>1, EventTypes DEF WritesRow, RelayInv, OpenTxInv
  <2>4. CASE ReadClawbackEntries(w) \/ CommitClawback(w)
    <3>1. d = txs[w].event
      BY <1>2, <2>1, <2>4 DEF ReadClawbackEntries, CommitClawback, Transaction
    <3>2. d \in ClawbackEvents
      BY <2>4, <3>1 DEF ReadClawbackEntries, CommitClawback, RelayInv, OpenTxInv, ClawbackOps
    <3> QED
      BY <2>4, <3>1, <3>2 DEF WritesRow, ClawbackEvents
  <2> QED
    BY <2>2, <2>3, <2>4
<1>7. CASE RecoveryNext
  <2>1. ASSUME NEW r \in Reasons, RecoverBatch(r) PROVE WritesRow(d)
    <3>1. d = RefundCompleted(r)
      BY <1>2, <2>1, EventTypes DEF RecoverBatch
    <3> QED
      BY <2>1, <3>1 DEF WritesRow
  <2>2. ASSUME NEW r \in Reasons, RecoverMissingRefund(r) PROVE WritesRow(d)
    <3>1. d = RecoveryRequested(r)
      BY <1>2, <2>2, EventTypes DEF RecoverMissingRefund
    <3> QED
      BY <2>2, <3>1 DEF WritesRow
  <2> QED
    BY <1>7, <2>1, <2>2 DEF RecoveryNext
<1>8. CASE EnvironmentNext
  <2>1. ASSUME NEW r \in Reasons, BatchCompletes(r) PROVE WritesRow(d)
    <3>1. d = RefundCompleted(r)
      BY <1>2, <2>1, EventTypes DEF BatchCompletes
    <3> QED
      BY <2>1, <3>1 DEF WritesRow
  <2>2. ASSUME NEW r \in Reasons, BatchFails(r) PROVE WritesRow(d)
    BY <2>2 DEF BatchFails
  <2>3. ASSUME NEW e \in Events, DeadLetter(e) PROVE WritesRow(d)
    <3>1. d = e
      BY <1>1, <2>3 DEF DeadLetter
    <3> QED
      BY <2>3, <3>1 DEF WritesRow
  <2> QED
    BY <1>8, <2>1, <2>2, <2>3 DEF EnvironmentNext
<1>9. CASE WindowElapses \/ UNCHANGED vars
  BY <1>9 DEF WindowElapses, vars
<1> QED
  BY <1>3, <1>4, <1>5, <1>6, <1>7, <1>8, <1>9 DEF Next

(* Who announces an event for the first time.                              *)
Announced(e) == outbox'[e].state # "absent"
LEMMA Announcers ==
    ASSUME TypeInv, RelayInv, [Next]_vars
    PROVE  /\ Absent(Completed) /\ Announced(Completed) => MarkCompleted \/ MarkReturned
           /\ Absent(NoShow) /\ Announced(NoShow) => MarkNoShow
           /\ Absent(Cancelled) /\ Announced(Cancelled) =>
                \E percent \in RefundPercents \cup {100} : CancelBooking(percent)
           /\ Absent(BalancePaid) /\ Announced(BalancePaid) => BalanceSucceeds
           /\ Absent(RefundRequested) /\ Announced(RefundRequested) =>
                \E amount \in 1..settlement.held : ResolveWithRefund(amount)
           /\ \A r \in Reasons : Absent(RefundCompleted(r)) /\ Announced(RefundCompleted(r))
                                 => BatchCompletes(r) \/ RecoverBatch(r)
           /\ \A r \in Reasons : Absent(RecoveryRequested(r)) /\ Announced(RecoveryRequested(r))
                                 => RecoveryNext
<1>1. ASSUME NEW e \in Events, Absent(e), Announced(e)
      PROVE  WritesRow(e) /\ ~MarkProcessed(e) /\ ~DeadLetter(e)
             /\ \A i \in 1..3 : ~CanRun(e, i)
  <2>1. WritesRow(e)
    BY <1>1, RowWriters DEF Absent, Announced
  <2> QED
    BY <1>1, <2>1 DEF Absent, MarkProcessed, DeadLetter, CanRun
<1>2. ASSUME Absent(Completed), Announced(Completed) PROVE MarkCompleted \/ MarkReturned
  <2>1. WritesRow(Completed) /\ ~MarkProcessed(Completed) /\ ~DeadLetter(Completed)
        /\ ~StartSettlementWindow
    BY <1>1, <1>2, EventTypes DEF StartSettlementWindow
  <2> QED
    BY <2>1, EventNames, EventTypes DEF WritesRow
<1>3. ASSUME Absent(NoShow), Announced(NoShow) PROVE MarkNoShow
  <2>1. WritesRow(NoShow) /\ ~MarkProcessed(NoShow) /\ ~DeadLetter(NoShow)
        /\ ~StartNoShowWindow /\ ~ExecuteRefund(NoShow, 2, SecurityRefund, Security, FALSE)
    BY <1>1, <1>3, EventTypes DEF StartNoShowWindow, ExecuteRefund
  <2> QED
    BY <2>1, EventNames, EventTypes DEF WritesRow
<1>4. ASSUME Absent(Cancelled), Announced(Cancelled)
      PROVE  \E percent \in RefundPercents \cup {100} : CancelBooking(percent)
  <2>1. WritesRow(Cancelled) /\ ~MarkProcessed(Cancelled) /\ ~DeadLetter(Cancelled)
        /\ ~PrepareCancellationRefund
        /\ ~ExecuteRefund(Cancelled, 2, Cancellation, refundDue, TRUE)
    BY <1>1, <1>4, EventTypes DEF PrepareCancellationRefund, ExecuteRefund
  <2> QED
    BY <2>1, EventNames, EventTypes DEF WritesRow
<1>5. ASSUME Absent(BalancePaid), Announced(BalancePaid) PROVE BalanceSucceeds
  <2>1. WritesRow(BalancePaid) /\ ~MarkProcessed(BalancePaid) /\ ~DeadLetter(BalancePaid)
        /\ ~RecordHeldSettlement /\ ~RecordBalancePayment
    BY <1>1, <1>5, EventTypes DEF RecordHeldSettlement, RecordBalancePayment
  <2> QED
    BY <2>1, EventNames, EventTypes DEF WritesRow
<1>6. ASSUME Absent(RefundRequested), Announced(RefundRequested)
      PROVE  \E amount \in 1..settlement.held : ResolveWithRefund(amount)
  <2>1. WritesRow(RefundRequested) /\ ~MarkProcessed(RefundRequested)
        /\ ~DeadLetter(RefundRequested)
        /\ ~ExecuteRefund(RefundRequested, 1, DisputeRefund, dispute.refund, dispute.full)
    BY <1>1, <1>6, EventTypes DEF ExecuteRefund
  <2> QED
    BY <2>1, EventNames, EventTypes DEF WritesRow
<1>7. ASSUME NEW r \in Reasons, Absent(RefundCompleted(r)), Announced(RefundCompleted(r))
      PROVE  BatchCompletes(r) \/ RecoverBatch(r)
  <2> DEFINE e == RefundCompleted(r)
  <2>1. e \in Events
    BY EventTypes
  <2>2. WritesRow(e) /\ ~MarkProcessed(e) /\ ~DeadLetter(e) /\ \A i \in 1..3 : ~CanRun(e, i)
    BY <1>1, <1>7, <2>1
  <2>3. ~IgnoreRefundCompleted(r) /\ ~FinalizeSettlementRefund(r) /\ ~FinalizeRefundedBooking(r)
    BY <2>2 DEF IgnoreRefundCompleted, FinalizeSettlementRefund, FinalizeRefundedBooking
  <2>4. ASSUME NEW w \in Workers
        PROVE  /\ ~BeginClawback(w, e)
               /\ ~(txs[w].event = e /\ ReadClawbackEntries(w))
               /\ ~(txs[w].event = e /\ CommitClawback(w))
    <3>1. ~BeginClawback(w, e)
      BY <2>2 DEF BeginClawback, ClawbackStep
    <3>2. txs[w].event # e
      BY <1>7, <2>1 DEF RelayInv, OpenTxInv, Absent
    <3> QED
      BY <3>1, <3>2
  <2>5. \A q \in Reasons : e = RefundCompleted(q) => q = r
    BY EventNames
  <2>6. /\ e \notin {Completed, NoShow, Cancelled, Returned, BookingRefunded, BalancePaid,
                     ReleaseRequested, RefundRequested}
        /\ \A q \in Reasons : e # RecoveryRequested(q)
    BY RefundEventsDiffer
  <2> HIDE DEF e
  <2>7. \E q \in Reasons : e = RefundCompleted(q) /\
         \/ BatchCompletes(q) \/ RecoverBatch(q)
         \/ IgnoreRefundCompleted(q) \/ FinalizeSettlementRefund(q) \/ FinalizeRefundedBooking(q)
    BY <2>2, <2>4, <2>6, EventTypes DEF WritesRow
  <2> QED
    BY <2>3, <2>5, <2>7
<1>8. ASSUME NEW r \in Reasons, Absent(RecoveryRequested(r)), Announced(RecoveryRequested(r))
      PROVE  RecoveryNext
  <2> DEFINE e == RecoveryRequested(r)
  <2>1. e \in Events
    BY EventTypes
  <2>2. WritesRow(e) /\ ~MarkProcessed(e) /\ ~DeadLetter(e) /\ \A i \in 1..3 : ~CanRun(e, i)
    BY <1>1, <1>8, <2>1
  <2>3. \A q \in Reasons : e # RefundCompleted(q)
    BY RefundEventsDiffer
  <2>4. e \notin {Completed, NoShow, Cancelled, Returned, BookingRefunded, BalancePaid,
                  ReleaseRequested, RefundRequested}
    BY EventNames
  <2> HIDE DEF e
  <2>5. ~ExecuteRefund(e, 1, Cancellation, refundDue, TRUE)
        /\ ~ExecuteRefund(e, 1, SecurityRefund, Security, FALSE)
    BY <2>2 DEF ExecuteRefund
  <2>6. \E q \in Reasons : RecoverMissingRefund(q)
    BY <2>2, <2>3, <2>4, <2>5 DEF WritesRow
  <2> QED
    BY <2>6 DEF RecoveryNext
<1> QED
  BY <1>2, <1>3, <1>4, <1>5, <1>6, <1>7, <1>8

(* Who commits the first handler of an event, or the second of a           *)
(* cancellation.                                                           *)
Commits(e, n) == outbox[e].ran < n /\ outbox'[e].ran >= n
LEMMA Committers ==
    ASSUME TypeInv, RelayInv, RefundInv, [Next]_vars
    PROVE  /\ Commits(Completed, 1) => StartSettlementWindow
           /\ Commits(NoShow, 1) => StartNoShowWindow
           /\ Commits(Cancelled, 1) => PrepareCancellationRefund
           /\ Commits(Cancelled, 2) => ExecuteRefund(Cancelled, 2, Cancellation, refundDue, TRUE)
           /\ Commits(RefundRequested, 1) =>
                ExecuteRefund(RefundRequested, 1, DisputeRefund, dispute.refund, dispute.full)
           /\ \A r \in Reasons : Commits(RefundCompleted(r), 1) =>
                IgnoreRefundCompleted(r) \/ FinalizeSettlementRefund(r)
<1>1. ASSUME NEW e \in Events, NEW n \in 1..2, Commits(e, n)
      PROVE  /\ WritesRow(e) /\ ~MarkProcessed(e) /\ ~DeadLetter(e)
             /\ \A i \in 1..3 : i > n => ~CanRun(e, i)
             /\ outbox[e].state = "pending"
  <2>1. Moves(e) /\ outbox[e] \in OutboxRow
    BY RelaySteps DEF TypeInv, TypeOK
  <2>2. outbox[e].state = "pending" /\ outbox'[e].state = "pending"
    BY <1>1, <2>1 DEF Moves, Commits, OutboxRow
  <2>3. WritesRow(e)
    BY <1>1, <2>1, RowWriters DEF Commits, OutboxRow
  <2>4. ~MarkProcessed(e) /\ ~DeadLetter(e)
    BY <2>1, <2>2 DEF MarkProcessed, DeadLetter, TypeInv, TypeOK, OutboxRow
  <2>5. \A i \in 1..3 : i > n => ~CanRun(e, i)
    BY <1>1, <2>1 DEF Commits, CanRun, OutboxRow
  <2> QED
    BY <2>2, <2>3, <2>4, <2>5
<1>2. CauseInv
  BY DEF RelayInv
<1>3. ASSUME Commits(Completed, 1) PROVE StartSettlementWindow
  <2>1. WritesRow(Completed) /\ ~MarkProcessed(Completed) /\ ~DeadLetter(Completed)
        /\ outbox[Completed].state = "pending"
    BY <1>1, <1>3, EventTypes
  <2>2. ~MarkCompleted /\ ~MarkReturned
    BY <1>2, <2>1 DEF MarkCompleted, MarkReturned, CauseInv, Absent, Endings
  <2> QED
    BY <2>1, <2>2, EventNames, EventTypes DEF WritesRow
<1>4. ASSUME Commits(NoShow, 1) PROVE StartNoShowWindow
  <2>1. WritesRow(NoShow) /\ ~MarkProcessed(NoShow) /\ ~DeadLetter(NoShow)
        /\ outbox[NoShow].state = "pending" /\ ~CanRun(NoShow, 2)
    BY <1>1, <1>4, EventTypes
  <2>2. ~MarkNoShow /\ ~ExecuteRefund(NoShow, 2, SecurityRefund, Security, FALSE)
    BY <1>2, <2>1 DEF MarkNoShow, ExecuteRefund, CauseInv, Absent, Endings
  <2> QED
    BY <2>1, <2>2, EventNames, EventTypes DEF WritesRow
<1>5. ASSUME NEW n \in 1..2, Commits(Cancelled, n)
      PROVE  /\ n = 1 => ~CanRun(Cancelled, 2)
             /\ \/ PrepareCancellationRefund
                \/ ExecuteRefund(Cancelled, 2, Cancellation, refundDue, TRUE)
  <2>1. WritesRow(Cancelled) /\ ~MarkProcessed(Cancelled) /\ ~DeadLetter(Cancelled)
        /\ outbox[Cancelled].state = "pending" /\ (n = 1 => ~CanRun(Cancelled, 2))
    BY <1>1, <1>5, EventTypes
  <2>2. ~\E percent \in RefundPercents \cup {100} : CancelBooking(percent)
    BY <1>2, <2>1 DEF CancelBooking, CauseInv, Absent, Endings
  <2>3. \/ PrepareCancellationRefund
        \/ ExecuteRefund(Cancelled, 2, Cancellation, refundDue, TRUE)
    BY <2>1, <2>2, EventNames, EventTypes DEF WritesRow
  <2> QED
    BY <2>1, <2>3
<1>6. Commits(Cancelled, 1) => PrepareCancellationRefund
  <2>1. ~CanRun(Cancelled, 2) => ~ExecuteRefund(Cancelled, 2, Cancellation, refundDue, TRUE)
    BY DEF ExecuteRefund
  <2>2. 1 \in 1..2
    OBVIOUS
  <2> QED
    BY <1>5, <2>1, <2>2
<1>9. Commits(Cancelled, 2) => ExecuteRefund(Cancelled, 2, Cancellation, refundDue, TRUE)
  <2> SUFFICES ASSUME Commits(Cancelled, 2), PrepareCancellationRefund PROVE FALSE
    <3>1. 2 \in 1..2
      OBVIOUS
    <3> QED
      BY <1>5, <3>1
  <2>1. outbox' = Ran(outbox, Cancelled, 1) /\ outbox \in [Events -> OutboxRow]
    BY DEF PrepareCancellationRefund, TypeInv, TypeOK
  <2>2. outbox'[Cancelled] = IF outbox[Cancelled].ran < 1 THEN [outbox[Cancelled] EXCEPT !.ran = 1]
                             ELSE outbox[Cancelled]
    BY <2>1, RanRows, EventTypes
  <2>3. outbox[Cancelled].ran \in 0..3 /\ outbox[Cancelled] \in OutboxRow
    BY <2>1, EventTypes DEF OutboxRow
  <2> QED
    BY <2>2, <2>3 DEF Commits, OutboxRow
<1>7. ASSUME Commits(RefundRequested, 1)
      PROVE  ExecuteRefund(RefundRequested, 1, DisputeRefund, dispute.refund, dispute.full)
  <2>1. WritesRow(RefundRequested) /\ ~MarkProcessed(RefundRequested)
        /\ ~DeadLetter(RefundRequested) /\ outbox[RefundRequested].state = "pending"
    BY <1>1, <1>7, EventTypes
  <2>2. ~\E amount \in 1..settlement.held : ResolveWithRefund(amount)
    BY <1>2, <2>1 DEF ResolveWithRefund, CauseInv, Absent
  <2> QED
    BY <2>1, <2>2, EventNames, EventTypes DEF WritesRow
<1>8. ASSUME NEW r \in Reasons, Commits(RefundCompleted(r), 1)
      PROVE  IgnoreRefundCompleted(r) \/ FinalizeSettlementRefund(r)
  <2> DEFINE e == RefundCompleted(r)
  <2>1. e \in Events
    BY EventTypes
  <2>2. /\ WritesRow(e) /\ ~MarkProcessed(e) /\ ~DeadLetter(e)
        /\ outbox[e].state = "pending" /\ ~CanRun(e, 2) /\ ~CanRun(e, 3)
    BY <1>1, <1>8, <2>1
  <2>3. ~FinalizeRefundedBooking(r) /\ ~BatchCompletes(r) /\ ~RecoverBatch(r)
    BY <2>2 DEF FinalizeRefundedBooking, BatchCompletes, RecoverBatch, RefundInv
  <2>4. ASSUME NEW w \in Workers
        PROVE  /\ ~BeginClawback(w, e)
               /\ ~(txs[w].event = e /\ ReadClawbackEntries(w))
               /\ ~(txs[w].event = e /\ CommitClawback(w))
    <3>1. e # BookingRefunded
      BY RefundEventsDiffer
    <3>2. ~BeginClawback(w, e)
      BY <2>2, <3>1 DEF BeginClawback, ClawbackStep
    <3>3. txs[w].event = e => txs[w].op \notin ClawbackOps
      <4>1. outbox[e].ran = 0
        BY <1>8, <2>1 DEF Commits, TypeInv, TypeOK, OutboxRow
      <4> QED
        BY <2>1, <3>1, <4>1 DEF RelayInv, OpenTxInv, ClawbackStep
    <3> QED
      BY <3>2, <3>3 DEF ReadClawbackEntries, CommitClawback, ClawbackOps
  <2>5. \A q \in Reasons : e = RefundCompleted(q) => q = r
    BY EventNames
  <2>6. /\ e \notin {Completed, NoShow, Cancelled, Returned, BookingRefunded, BalancePaid,
                     ReleaseRequested, RefundRequested}
        /\ \A q \in Reasons : e # RecoveryRequested(q)
    BY RefundEventsDiffer
  <2> HIDE DEF e
  <2>7. \E q \in Reasons : e = RefundCompleted(q) /\
         \/ BatchCompletes(q) \/ RecoverBatch(q)
         \/ IgnoreRefundCompleted(q) \/ FinalizeSettlementRefund(q) \/ FinalizeRefundedBooking(q)
    BY <2>2, <2>4, <2>6, EventTypes DEF WritesRow
  <2> QED
    BY <2>3, <2>5, <2>7
<1> QED
  BY <1>3, <1>4, <1>6, <1>7, <1>8, <1>9

(* Who writes the other tables.                                            *)
LEMMA Writers ==
    ASSUME [Next]_vars
    PROVE  /\ settlement' # settlement =>
                \/ RecordHeldSettlement \/ StartSettlementWindow \/ StartNoShowWindow
                \/ WindowElapses \/ PrepareCancellationRefund
                \/ OpenSettlementDispute \/ ResolveForRelease
                \/ \E amount \in 1..settlement.held : ResolveWithRefund(amount)
                \/ \E r \in Reasons : FinalizeSettlementRefund(r)
                \/ \E w \in Workers : CommitRelease(w)
           /\ dispute' # dispute =>
                \/ OpenSettlementDispute \/ ResolveForRelease
                \/ \E amount \in 1..settlement.held : ResolveWithRefund(amount)
           /\ batches' # batches =>
                PlanRefunds \/ \E r \in Reasons : BatchCompletes(r) \/ BatchFails(r)
           /\ tax' # tax =>
                \/ StartSettlementWindow \/ StartNoShowWindow
                \/ \E r \in Reasons : FinalizeSettlementRefund(r)
           /\ refundDue' # refundDue =>
                \E percent \in RefundPercents \cup {100} : CancelBooking(percent)
           /\ balance' # balance => OpenBalanceLink \/ BalanceSucceeds
           /\ paid' # paid => RecordBalancePayment
           /\ ledger' # ledger => \E w \in Workers : CommitRelease(w) \/ CommitClawback(w)
<1>1. CASE BookingNext
  BY <1>1 DEF BookingNext, MarkCompleted, MarkReturned, MarkNoShow, CancelBooking,
              OpenBalanceLink, BalanceSucceeds, financeVars
<1>2. CASE DisputeNext
  BY <1>2 DEF DisputeNext, OpenSettlementDispute, ResolveForRelease, ResolveWithRefund, bookingVars
<1>3. CASE HandlerNext
  <2>1. CASE RecordHeldSettlement \/ RecordBalancePayment
    BY <2>1 DEF RecordHeldSettlement, RecordBalancePayment, bookingVars, financeVars
  <2>2. CASE StartSettlementWindow \/ StartNoShowWindow \/ PrepareCancellationRefund
    BY <2>2 DEF StartSettlementWindow, StartNoShowWindow, PrepareCancellationRefund, bookingVars
  <2>3. CASE PlanRefunds \/ SkipRelease
    BY <2>3 DEF PlanRefunds, ExecuteRefund, SkipRelease, bookingVars, financeVars
  <2>4. ASSUME NEW r \in Reasons, \/ IgnoreRefundCompleted(r) \/ FinalizeSettlementRefund(r)
                                  \/ FinalizeRefundedBooking(r)
        PROVE  /\ settlement' # settlement \/ tax' # tax => FinalizeSettlementRefund(r)
               /\ UNCHANGED <<dispute, batches, refundDue, balance, paid, ledger>>
    BY <2>4 DEF IgnoreRefundCompleted, FinalizeSettlementRefund, FinalizeRefundedBooking,
                bookingVars, financeVars
  <2>5. CASE \E w \in Workers : \/ BeginRelease(w, ReleaseRequested)
                                \/ \E e \in ClawbackEvents : BeginClawback(w, e)
    BY <2>5 DEF BeginRelease, BeginClawback, bookingVars, financeVars
  <2>6. CASE \E e \in Events : MarkProcessed(e)
    BY <2>6 DEF MarkProcessed, bookingVars, financeVars
  <2> QED
    BY <1>3, <2>1, <2>2, <2>3, <2>4, <2>5, <2>6 DEF HandlerNext
<1>4. CASE WorkerNext
  BY <1>4 DEF WorkerNext, BeginRelease, CommitRelease, AbortRelease, ReadClawbackEntries,
              CommitClawback, bookingVars, financeVars
<1>5. CASE RecoveryNext \/ EnvironmentNext
  BY <1>5 DEF RecoveryNext, EnvironmentNext, RecoverBatch, RecoverMissingRefund, BatchCompletes,
              BatchFails, DeadLetter, bookingVars, financeVars
<1>6. CASE WindowElapses \/ UNCHANGED vars
  BY <1>6 DEF WindowElapses, vars, bookingVars
<1> QED
  BY <1>1, <1>2, <1>3, <1>4, <1>5, <1>6 DEF Next

-----------------------------------------------------------------------------
(* What the operators do to the fields of a row.                           *)
LEMMA WindowFields ==
    ASSUME NEW row \in SettlementRow, NEW kind \in Kinds, NEW n \in Nat,
           NEW new, new = Window(row, kind, n)
    PROVE  /\ new.status = "dispute_window" /\ new.kind = kind
           /\ new.held = row.held /\ new.refunded = row.refunded /\ new.refundId = row.refundId
           /\ new.retained = IF kind = "cancellation_fee" THEN Less(row.held, row.refunded)
                             ELSE row.retained
BY DEF Window, SettlementRow

(* A freeze counts what it is given, at most what is held, and keeps the   *)
(* rows that are not to be frozen as they are.                             *)
LEMMA FrozenFields ==
    ASSUME NEW row \in SettlementRow, NEW n \in Nat, NEW new, new = Frozen(row, n)
    PROVE  \/ /\ row.status \in {"held", "dispute_window", "disputed"}
              /\ new.status = "refund_pending" /\ new.refunded = Least(n, row.held)
              /\ new.retained = Less(row.held, n)
              /\ new.held = row.held /\ new.refundId = row.refundId /\ new.kind = row.kind
           \/ row.status \notin {"held", "dispute_window", "disputed"} /\ new = row
BY DEF Frozen, SettlementRow

(* A finalized refund names its batch and counts what it says, at most     *)
(* what is held; all of it ends the settlement.                            *)
LEMMA FinalizedFields ==
    ASSUME NEW row \in SettlementRow, NEW r \in Reasons, NEW n \in Nat,
           NEW new, new = Finalized(row, r, n)
    PROVE  \/ row.status = "refunded" /\ new = row
           \/ /\ row.status # "refunded"
              /\ new.status = IF n >= row.held THEN "refunded" ELSE "dispute_window"
              /\ new.refundId = r /\ new.refunded = Least(n, row.held)
              /\ new.retained = Less(row.held, n)
              /\ new.held = row.held /\ new.kind = row.kind
BY DEF Finalized, SettlementRow

(* A reversal brings what is reversed up to the refunded part of the tax.  *)
LEMMA ReversalFields ==
    ASSUME TypeInv, NEW r \in Reasons, NEW n \in Nat, tax' = WithholdingReversal(r, n)
    PROVE  /\ tax'.assessed = tax.assessed
           /\ Reversed' = IF tax.reversals[r] = 0 /\ Least(n, tax.assessed) > Reversed
                          THEN Least(n, tax.assessed) ELSE Reversed
<1> DEFINE basis == Least(n, tax.assessed)
<1>1. /\ tax.assessed \in Nat /\ tax \in TaxRows /\ \A q \in Reasons : tax.reversals[q] \in Nat
      /\ tax.reversals \in [Reasons -> Nat]
  BY DEF TypeInv, TypeOK, TaxRows
<1>2. basis \in Nat
  BY <1>1, AmountTypes
<1>3. Reversed \in Nat
  BY <1>1, EventTypes DEF Reversed
<1>4. CASE tax.reversals[r] = 0 /\ basis > Reversed
  <2>1. tax' = [tax EXCEPT !.reversals[r] = basis - Reversed]
    BY <1>4 DEF WithholdingReversal
  <2>2. /\ tax'.assessed = tax.assessed
        /\ tax'.reversals = [tax.reversals EXCEPT ![r] = basis - Reversed]
    BY <1>1, <2>1 DEF TaxRows
  <2>3. tax'.reversals[r] = basis - Reversed
        /\ \A q \in Reasons : q # r => tax'.reversals[q] = tax.reversals[q]
    BY <1>1, <2>2
  <2> HIDE DEF basis
  <2>4. Reversed' = Reversed + (basis - Reversed)
    BY <1>1, <1>2, <1>3, <1>4, <2>3, EventTypes
    DEF Reversed, Reasons, Cancellation, SecurityRefund, DisputeRefund
  <2>5. Reversed' = basis
    BY <1>2, <1>3, <2>4
  <2> QED
    BY <1>4, <2>2, <2>5 DEF basis
<1>5. CASE ~(tax.reversals[r] = 0 /\ basis > Reversed)
  <2>1. tax' = tax
    BY <1>5 DEF WithholdingReversal
  <2> QED
    BY <1>5, <2>1 DEF Reversed
<1> QED
  BY <1>4, <1>5

(* The cumulative amount of a refund is an amount.                         *)
LEMMA FinalRefundedTypes == TypeInv => \A r \in Reasons : FinalRefunded(r) \in Nat
<1> SUFFICES ASSUME TypeInv, NEW r \in Reasons PROVE FinalRefunded(r) \in Nat
  OBVIOUS
<1>1. batches[r].amount \in Nat /\ settlement.refunded \in Nat
  BY DEF TypeInv, TypeOK, BatchRow, SettlementRow
<1> QED
  BY <1>1, AmountTypes, MoneyAssumption DEF FinalRefunded, Reasons

(* A plan makes one batch, of its reason, unless there is one.             *)
LEMMA PlanFields ==
    ASSUME TypeInv, NEW e, NEW i, NEW reason \in Reasons, NEW amount \in Nat,
           NEW affects \in BOOLEAN, ExecuteRefund(e, i, reason, amount, affects)
    PROVE  /\ \A q \in Reasons : q # reason => batches'[q] = batches[q]
           /\ IF amount = 0 \/ batches[reason].status # "none"
              THEN batches'[reason] = batches[reason]
              ELSE batches'[reason] = [status |-> "processing", amount |-> amount,
                                       affects |-> affects]
           /\ outbox[e].state = "pending"
BY DEF ExecuteRefund, CanRun, TypeInv, TypeOK

(* The life of a batch: planned once, then completed or failed for good,   *)
(* with the amount and the effect it was planned with.                     *)
LEMMA BatchSteps ==
    ASSUME TypeInv, [Next]_vars, NEW r \in Reasons
    PROVE  \/ batches'[r] = batches[r]
           \/ /\ batches[r].status = "none" /\ batches'[r].status = "processing"
              /\ batches'[r].amount # 0 /\ dispute' = dispute /\ refundDue' = refundDue
              /\ \/ /\ r = Cancellation /\ batches'[r].amount = refundDue /\ batches'[r].affects
                    /\ \/ ExecuteRefund(Cancelled, 2, Cancellation, refundDue, TRUE)
                       \/ outbox[RecoveryRequested(Cancellation)].state = "pending"
                 \/ r = SecurityRefund /\ ~batches'[r].affects
                 \/ /\ r = DisputeRefund /\ outbox[RefundRequested].state = "pending"
                    /\ batches'[r].amount = dispute.refund /\ batches'[r].affects = dispute.full
           \/ /\ BatchCompletes(r) \/ BatchFails(r)
              /\ batches[r].status = "processing"
              /\ batches'[r].status = IF BatchCompletes(r) THEN "completed" ELSE "failed"
              /\ batches'[r].amount = batches[r].amount /\ batches'[r].affects = batches[r].affects
<1>1. batches \in [Reasons -> BatchRow] /\ batches[r] \in BatchRow
      /\ refundDue \in Nat /\ returned \in Nat /\ Security \in Nat /\ dispute.refund \in Nat
      /\ dispute.full \in BOOLEAN
  BY MoneyAssumption DEF TypeInv, TypeOK, DisputeRow
<1>2. CASE batches' = batches
  BY <1>2
<1>3. ASSUME NEW q \in Reasons, BatchCompletes(q)
      PROVE  \/ batches'[r] = batches[r]
             \/ /\ BatchCompletes(r) /\ batches[r].status = "processing"
                /\ batches'[r].status = "completed"
                /\ batches'[r].amount = batches[r].amount
                /\ batches'[r].affects = batches[r].affects
  BY <1>1, <1>3 DEF BatchCompletes, BatchRow
<1>4. ASSUME NEW q \in Reasons, BatchFails(q)
      PROVE  \/ batches'[r] = batches[r]
             \/ /\ BatchFails(r) /\ batches[r].status = "processing"
                /\ batches'[r].status = "failed" /\ ~BatchCompletes(r)
                /\ batches'[r].amount = batches[r].amount
                /\ batches'[r].affects = batches[r].affects
  <2>1. batches' = [batches EXCEPT ![q].status = "failed"] /\ batches[q].status = "processing"
    BY <1>4 DEF BatchFails
  <2>2. q # r => batches'[r] = batches[r]
    BY <1>1, <2>1
  <2>3. q = r => /\ batches'[r].status = "failed" /\ batches'[r].amount = batches[r].amount
                 /\ batches'[r].affects = batches[r].affects
    BY <1>1, <2>1 DEF BatchRow
  <2>4. q = r => ~BatchCompletes(r)
    BY <1>1, <2>3 DEF BatchCompletes, BatchRow
  <2> QED
    BY <1>4, <2>1, <2>2, <2>3, <2>4
<1>5. CASE PlanRefunds
  <2>1. dispute' = dispute /\ refundDue' = refundDue
    BY <1>5 DEF PlanRefunds, ExecuteRefund, bookingVars, financeVars
  <2>2. ASSUME NEW e, NEW i, NEW reason \in Reasons, NEW amount \in Nat, NEW affects \in BOOLEAN,
               ExecuteRefund(e, i, reason, amount, affects)
        PROVE  \/ batches'[r] = batches[r]
               \/ /\ r = reason /\ amount # 0 /\ batches[r].status = "none"
                  /\ batches'[r].status = "processing" /\ batches'[r].amount = amount
                  /\ batches'[r].affects = affects /\ outbox[e].state = "pending"
    <3>1. /\ r # reason => batches'[r] = batches[r]
          /\ IF amount = 0 \/ batches[reason].status # "none"
             THEN batches'[reason] = batches[reason]
             ELSE batches'[reason] = [status |-> "processing", amount |-> amount,
                                      affects |-> affects]
          /\ outbox[e].state = "pending"
      BY <2>2, PlanFields
    <3> QED
      BY <3>1
  <2>3. CASE ExecuteRefund(Cancelled, 2, Cancellation, refundDue, TRUE)
    BY <1>1, <2>1, <2>2, <2>3, EventTypes
  <2>4. CASE ExecuteRefund(Returned, 1, SecurityRefund, returned, FALSE)
    BY <1>1, <2>1, <2>2, <2>4, EventTypes
  <2>5. CASE ExecuteRefund(NoShow, 2, SecurityRefund, Security, FALSE)
    BY <1>1, <2>1, <2>2, <2>5, EventTypes
  <2>6. CASE ExecuteRefund(RefundRequested, 1, DisputeRefund, dispute.refund, dispute.full)
    <3>1. \/ batches'[r] = batches[r]
          \/ /\ r = DisputeRefund /\ dispute.refund # 0 /\ batches[r].status = "none"
             /\ batches'[r].status = "processing" /\ batches'[r].amount = dispute.refund
             /\ batches'[r].affects = dispute.full /\ outbox[RefundRequested].state = "pending"
      BY <1>1, <2>2, <2>6, EventTypes
    <3> QED
      BY <2>1, <3>1
  <2>7. CASE ExecuteRefund(RecoveryRequested(Cancellation), 1, Cancellation, refundDue, TRUE)
    BY <1>1, <2>1, <2>2, <2>7, EventTypes
  <2>8. CASE ExecuteRefund(RecoveryRequested(SecurityRefund), 1, SecurityRefund, Security, FALSE)
    BY <1>1, <2>1, <2>2, <2>8, EventTypes
  <2> QED
    BY <1>5, <2>3, <2>4, <2>5, <2>6, <2>7, <2>8 DEF PlanRefunds
<1> QED
  BY <1>2, <1>3, <1>4, <1>5, Writers

(* The dispute is opened once and resolved once.                           *)
LEMMA DisputeSteps ==
    ASSUME TypeInv, [Next]_vars
    PROVE  \/ dispute' = dispute
           \/ /\ OpenSettlementDispute /\ dispute.status = "none" /\ dispute'.status = "open"
              /\ dispute'.refund = dispute.refund
           \/ /\ ResolveForRelease /\ dispute.status = "open" /\ dispute'.status = "rejected"
              /\ dispute'.refund = dispute.refund
           \/ \E amount \in 1..settlement.held :
                /\ ResolveWithRefund(amount) /\ dispute.status = "open"
                /\ dispute'.status = "accepted" /\ dispute'.refund = amount
BY Writers DEF OpenSettlementDispute, ResolveForRelease, ResolveWithRefund, TypeInv, TypeOK,
               DisputeRow

(* The steps of the settlement row, field by field.  Custody is left for   *)
(* good; a dispute freezes; a freeze waits for its refund; a finalized     *)
(* refund reopens the window or ends the settlement.                       *)
Same(row, new) ==
    /\ new.held = row.held /\ new.refunded = row.refunded /\ new.refundId = row.refundId
LEMMA SettlementSteps ==
    ASSUME TypeInv, [Next]_vars
    PROVE  \/ settlement' = settlement
           \/ /\ RecordHeldSettlement /\ settlement'.status = settlement.status
              /\ settlement'.refunded = settlement.refunded
              /\ settlement'.refundId = settlement.refundId
           \/ /\ StartSettlementWindow \/ StartNoShowWindow
              /\ settlement.status = "held" /\ settlement'.status = "dispute_window"
              /\ settlement'.kind # "cancellation_fee" /\ Same(settlement, settlement')
           \/ /\ WindowElapses /\ settlement'.status = settlement.status
              /\ settlement'.kind = settlement.kind /\ settlement'.retained = settlement.retained
              /\ Same(settlement, settlement')
           \/ /\ PrepareCancellationRefund /\ Less(refundDue, Security) = 0
              /\ settlement.status = "held" /\ settlement'.status = "dispute_window"
              /\ settlement'.retained = Less(settlement.held, settlement.refunded)
              /\ Same(settlement, settlement')
           \/ /\ PrepareCancellationRefund /\ Less(refundDue, Security) # 0
              /\ settlement.status \in {"held", "dispute_window", "disputed"}
              /\ settlement'.status = "refund_pending"
              /\ settlement'.refunded = Least(Less(refundDue, Security), settlement.held)
              /\ settlement'.retained = Less(settlement.held, Less(refundDue, Security))
              /\ settlement'.held = settlement.held /\ settlement'.refundId = settlement.refundId
           \/ /\ OpenSettlementDispute /\ settlement.status = "dispute_window"
              /\ settlement'.status = "disputed" /\ Same(settlement, settlement')
              /\ settlement'.kind = settlement.kind /\ settlement'.retained = settlement.retained
           \/ /\ ResolveForRelease /\ settlement.status = "disputed"
              /\ settlement'.status = "dispute_window" /\ Same(settlement, settlement')
              /\ settlement'.kind = settlement.kind /\ settlement'.retained = settlement.retained
           \/ \E amount \in 1..settlement.held :
                /\ ResolveWithRefund(amount)
                /\ amount <= Less(settlement.held, settlement.refunded)
                /\ settlement.status \in {"held", "dispute_window", "disputed"}
                /\ settlement'.status = "refund_pending"
                /\ settlement'.refunded = Least(settlement.refunded + amount, settlement.held)
                /\ settlement'.retained = Less(settlement.held, settlement.refunded + amount)
                /\ settlement'.held = settlement.held /\ settlement'.kind = settlement.kind
                /\ settlement'.refundId = settlement.refundId
           \/ \E r \in Reasons :
                /\ FinalizeSettlementRefund(r)
                /\ settlement.status # "refunded" /\ settlement.refundId # r
                /\ settlement'.status = IF FinalRefunded(r) >= settlement.held
                                        THEN "refunded" ELSE "dispute_window"
                /\ settlement'.refundId = r
                /\ settlement'.refunded = Least(FinalRefunded(r), settlement.held)
                /\ settlement'.retained = Less(settlement.held, FinalRefunded(r))
                /\ settlement'.held = settlement.held /\ settlement'.kind = settlement.kind
           \/ \E w \in Workers :
                /\ CommitRelease(w) /\ settlement.status = "dispute_window"
                /\ settlement'.status = "released" /\ Same(settlement, settlement')
                /\ settlement'.kind = settlement.kind /\ settlement'.retained = settlement.retained
<1>1. settlement \in SettlementRow /\ settlement.held \in Nat /\ settlement.refunded \in Nat
  BY DEF TypeInv, TypeOK, SettlementRow
<1>2. CASE RecordHeldSettlement
  BY <1>1, <1>2 DEF RecordHeldSettlement, SettlementRow
<1>3. ASSUME StartSettlementWindow \/ StartNoShowWindow, settlement' # settlement
      PROVE  /\ settlement.status = "held" /\ settlement'.status = "dispute_window"
             /\ settlement'.kind # "cancellation_fee" /\ Same(settlement, settlement')
  <2> DEFINE onsite == Less(Final, settlement.held)
  <2>1. onsite \in Nat /\ 0 \in Nat
    BY <1>1, AmountTypes, MoneyAssumption
  <2>2. /\ settlement.status = "held"
        /\ settlement' \in {Window(settlement, "service_completed", onsite),
                             Window(settlement, "customer_no_show", 0)}
    BY <1>3 DEF StartSettlementWindow, StartNoShowWindow
  <2> HIDE DEF onsite
  <2> QED
    BY <1>1, <2>1, <2>2, WindowFields DEF Kinds, Same
<1>4. CASE WindowElapses
  BY <1>1, <1>4 DEF WindowElapses, SettlementRow, Same
<1>5. ASSUME PrepareCancellationRefund, settlement' # settlement
      PROVE  \/ /\ Less(refundDue, Security) = 0
                /\ settlement.status = "held" /\ settlement'.status = "dispute_window"
                /\ settlement'.retained = Less(settlement.held, settlement.refunded)
                /\ Same(settlement, settlement')
             \/ /\ Less(refundDue, Security) # 0
                /\ settlement.status \in {"held", "dispute_window", "disputed"}
                /\ settlement'.status = "refund_pending"
                /\ settlement'.refunded = Least(Less(refundDue, Security), settlement.held)
                /\ settlement'.retained = Less(settlement.held, Less(refundDue, Security))
                /\ settlement'.held = settlement.held /\ settlement'.refundId = settlement.refundId
  <2> DEFINE service == Less(refundDue, Security)
             row == Frozen(settlement, service)
  <2>1. service \in Nat
    BY AmountTypes, MoneyAssumption DEF TypeInv, TypeOK
  <2>2. CASE service = 0
    <3>1. settlement.status = "held" /\ settlement' = Window(settlement, "cancellation_fee", 0)
      BY <1>5, <2>2 DEF PrepareCancellationRefund
    <3> QED
      BY <1>1, <2>2, <3>1, WindowFields DEF Kinds, Same
  <2>3. CASE service # 0
    <3>1. row # settlement /\ settlement' = [row EXCEPT !.kind = "cancellation_fee"]
      BY <1>5, <2>3 DEF PrepareCancellationRefund
    <3>2. /\ settlement.status \in {"held", "dispute_window", "disputed"}
          /\ row.status = "refund_pending" /\ row.refunded = Least(service, settlement.held)
          /\ row.retained = Less(settlement.held, service)
          /\ row.held = settlement.held /\ row.refundId = settlement.refundId
      BY <1>1, <2>1, <3>1, FrozenFields
    <3>3. row \in SettlementRow
      BY <1>1, <2>1, FrozenTypes
    <3> HIDE DEF row
    <3>4. /\ settlement'.status = row.status /\ settlement'.refunded = row.refunded
          /\ settlement'.retained = row.retained /\ settlement'.held = row.held
          /\ settlement'.refundId = row.refundId
      BY <3>1, <3>3 DEF SettlementRow
    <3> QED
      BY <2>3, <3>2, <3>4
  <2> QED
    BY <2>2, <2>3
<1>6. CASE OpenSettlementDispute \/ ResolveForRelease
  BY <1>1, <1>6 DEF OpenSettlementDispute, ResolveForRelease, SettlementRow, Same
<1>7. ASSUME NEW amount \in 1..settlement.held, ResolveWithRefund(amount), settlement' # settlement
      PROVE  /\ amount <= Less(settlement.held, settlement.refunded)
             /\ settlement.status \in {"held", "dispute_window", "disputed"}
             /\ settlement'.status = "refund_pending"
             /\ settlement'.refunded = Least(settlement.refunded + amount, settlement.held)
             /\ settlement'.retained = Less(settlement.held, settlement.refunded + amount)
             /\ settlement'.held = settlement.held /\ settlement'.kind = settlement.kind
             /\ settlement'.refundId = settlement.refundId
  <2>1. settlement.refunded + amount \in Nat
    BY <1>1
  <2>2. settlement' = Frozen(settlement, settlement.refunded + amount)
        /\ amount <= Less(settlement.held, settlement.refunded)
    BY <1>7 DEF ResolveWithRefund
  <2> QED
    BY <1>1, <1>7, <2>1, <2>2, FrozenFields
<1>8. ASSUME NEW r \in Reasons, FinalizeSettlementRefund(r), settlement' # settlement
      PROVE  /\ settlement.status # "refunded" /\ settlement.refundId # r
             /\ settlement'.status = IF FinalRefunded(r) >= settlement.held
                                     THEN "refunded" ELSE "dispute_window"
             /\ settlement'.refundId = r
             /\ settlement'.refunded = Least(FinalRefunded(r), settlement.held)
             /\ settlement'.retained = Less(settlement.held, FinalRefunded(r))
             /\ settlement'.held = settlement.held /\ settlement'.kind = settlement.kind
  <2>1. settlement' = Finalized(settlement, r, FinalRefunded(r)) /\ settlement.refundId # r
    BY <1>8 DEF FinalizeSettlementRefund
  <2>2. FinalRefunded(r) \in Nat
    BY FinalRefundedTypes
  <2> QED
    BY <1>1, <1>8, <2>1, <2>2, FinalizedFields
<1>9. ASSUME NEW w \in Workers, CommitRelease(w)
      PROVE  /\ settlement.status = "dispute_window"
             /\ settlement'.status = "released" /\ Same(settlement, settlement')
             /\ settlement'.kind = settlement.kind /\ settlement'.retained = settlement.retained
  BY <1>1, <1>9 DEF CommitRelease, StillReleasable, SettlementRow, Same
<1> QED
  BY <1>2, <1>3, <1>4, <1>5, <1>6, <1>7, <1>8, <1>9, Writers

-----------------------------------------------------------------------------
(* The case file of a booking.  It ended in one way, only a cancellation   *)
(* owes the cancellation refund, only the other two ways withhold tax, and *)
(* custody holds the first payment or the whole price.                     *)
EndingInv ==
    /\ \A e, f \in Endings : e # f => Absent(e) \/ Absent(f)
    /\ refundDue # 0 \/ batches[Cancellation].status # "none" => ~Absent(Cancelled)
    /\ tax.assessed # 0 => ~Absent(Completed) \/ ~Absent(NoShow)
    /\ settlement.held \in {Deposit, Final}

(* A dispute is opened after the settlement has left custody; accepting it *)
(* requests the refund, which is planned once, for the granted amount.     *)
(* What completed was announced, and only service refunds settle anything. *)
DisputeInv ==
    /\ dispute.status # "none" => settlement.status # "held"
    /\ dispute.status # "accepted" =>
         /\ dispute.refund = 0 /\ batches[DisputeRefund].status = "none"
         /\ Absent(RefundRequested)
    /\ dispute.status = "accepted" =>
         dispute.refund \in 1..settlement.held /\ ~Absent(RefundRequested)
    /\ batches[DisputeRefund].status # "none" =>
         /\ batches[DisputeRefund].amount = dispute.refund
         /\ batches[DisputeRefund].affects = dispute.full
    /\ outbox[RefundRequested].ran >= 1 => batches[DisputeRefund].status # "none"
    /\ ~batches[SecurityRefund].affects /\ settlement.refundId # SecurityRefund
    /\ \A r \in Reasons : batches[r].status = "completed" => ~Absent(RefundCompleted(r))

(* Without a cancellation the dispute is the only source of refunds: they  *)
(* wait while it is open, and its refund is frozen, then finalized and its *)
(* tax reversed, once.                                                     *)
UncancelledInv ==
    Absent(Cancelled) =>
      /\ dispute.status = "open" => settlement.status = "disputed"
      /\ dispute.status # "accepted" =>
           /\ settlement.refundId = "none" /\ settlement.refunded = 0 /\ Reversed = 0
           /\ settlement.status \notin {"refund_pending", "refunded"}
      /\ dispute.status = "accepted" =>
           /\ settlement.refunded = dispute.refund
           /\ settlement.refundId = "none" => settlement.status = "refund_pending" /\ Reversed = 0
           /\ settlement.refundId # "none" => Reversed = Least(settlement.refunded, tax.assessed)
      /\ outbox[RefundCompleted(DisputeRefund)].ran >= 1 => settlement.refundId # "none"

CaseInv == EndingInv /\ DisputeInv /\ UncancelledInv

(* What has been announced stays announced.                                *)
LEMMA AnnouncedStays ==
    ASSUME TypeInv, RelayInv, RefundInv, [Next]_vars, NEW e \in Events, ~Absent(e)
    PROVE  Announced(e)
<1>1. Moves(e)
  BY RelaySteps
<1> QED
  BY <1>1 DEF Moves, Absent, Announced

(* The three ways to end a booking exclude one another.                    *)
LEMMA EndingActions ==
    ASSUME TypeInv, RelayInv, [Next]_vars, NEW e \in Endings, Absent(e), Announced(e)
    PROVE  /\ booking = "confirmed"
           /\ booking' = IF e = Completed THEN "completed"
                         ELSE IF e = NoShow THEN "no_show" ELSE "cancelled"
BY Announcers, EventNames DEF Endings, MarkCompleted, MarkReturned, MarkNoShow, CancelBooking

(* Only a balance payment changes what is held.                            *)
LEMMA HeldKept ==
    ASSUME TypeInv, [Next]_vars, ~RecordHeldSettlement
    PROVE  settlement'.held = settlement.held
BY SettlementSteps DEF Same

(* Every step keeps the ending unique and what follows from it.            *)
LEMMA EndingStep ==
    ASSUME TypeInv, RelayInv, RefundInv, EndingInv, [Next]_vars
    PROVE  EndingInv'
<1>1. /\ Endings \subseteq Events /\ Cancelled \in Events /\ Completed \in Events
      /\ NoShow \in Events
  BY EventTypes DEF Endings
<1>2. \A e, f \in Endings : e # f => ~Announced(e) \/ ~Announced(f)
  <2> SUFFICES ASSUME NEW e \in Endings, NEW f \in Endings, e # f, Announced(e), Announced(f)
               PROVE  FALSE
    OBVIOUS
  <2>1. Absent(e) \/ Absent(f)
    BY DEF EndingInv
  <2>2. booking = "confirmed"
    BY <2>1, EndingActions
  <2>3. Absent(e) /\ Absent(f)
    BY <2>2 DEF RelayInv, CauseInv
  <2>4. booking' = (IF e = Completed THEN "completed" ELSE IF e = NoShow THEN "no_show"
                    ELSE "cancelled")
    BY <2>3, EndingActions
  <2>5. booking' = (IF f = Completed THEN "completed" ELSE IF f = NoShow THEN "no_show"
                    ELSE "cancelled")
    BY <2>3, EndingActions
  <2> QED
    BY <2>4, <2>5 DEF Endings
<1>3. ASSUME NEW e \in Events, ~Absent(e) PROVE Announced(e)
  BY <1>3, AnnouncedStays
<1>4. refundDue' # 0 => Announced(Cancelled)
  <2>1. ASSUME NEW percent \in RefundPercents \cup {100}, CancelBooking(percent)
        PROVE  Announced(Cancelled)
    BY <2>1, <1>1, EmitRows DEF CancelBooking, Announced, TypeInv, TypeOK
  <2>2. refundDue' # refundDue => Announced(Cancelled)
    BY <2>1, Writers
  <2>3. refundDue # 0 => Announced(Cancelled)
    BY <1>1, <1>3 DEF EndingInv
  <2> QED
    BY <2>2, <2>3
<1>5. batches'[Cancellation].status # "none" => Announced(Cancelled)
  <2> SUFFICES ASSUME batches'[Cancellation].status # "none", Absent(Cancelled) PROVE FALSE
    BY <1>1, <1>3
  <2>1. batches[Cancellation].status = "none" /\ refundDue = 0 /\ batches' # batches
    BY DEF EndingInv
  <2>2. PlanRefunds
    <3>1. ~\E r \in Reasons : BatchCompletes(r) \/ BatchFails(r)
      BY <2>1, EventTypes DEF BatchCompletes, BatchFails, TypeInv, TypeOK
    <3> QED
      BY <2>1, <3>1, Writers
  <2>3. refundDue \in Nat /\ returned \in Nat /\ Security \in Nat /\ dispute.refund \in Nat
        /\ dispute.full \in BOOLEAN
    BY MoneyAssumption DEF TypeInv, TypeOK, DisputeRow
  <2>4. ~ExecuteRefund(Cancelled, 2, Cancellation, refundDue, TRUE)
    BY DEF ExecuteRefund, CanRun, Absent
  <2>5. ~ExecuteRefund(RecoveryRequested(Cancellation), 1, Cancellation, refundDue, TRUE)
    BY <2>1, <2>3, PlanFields, EventTypes
  <2>6. ASSUME NEW e, NEW i, NEW reason \in Reasons, NEW amount \in Nat, NEW affects \in BOOLEAN,
               reason # Cancellation
        PROVE  ~ExecuteRefund(e, i, reason, amount, affects)
    BY <2>1, <2>6, PlanFields, EventTypes
  <2>7. Cancellation # SecurityRefund /\ Cancellation # DisputeRefund
    BY DEF Cancellation, SecurityRefund, DisputeRefund
  <2> QED
    BY <2>2, <2>3, <2>4, <2>5, <2>6, <2>7, EventTypes DEF PlanRefunds
<1>6. tax'.assessed # 0 => Announced(Completed) \/ Announced(NoShow)
  <2>1. CASE tax'.assessed = tax.assessed
    BY <2>1, <1>1, <1>3 DEF EndingInv
  <2>2. CASE StartSettlementWindow \/ StartNoShowWindow
    <3>1. ~Absent(Completed) \/ ~Absent(NoShow)
      BY <2>2 DEF StartSettlementWindow, StartNoShowWindow, CanRun, Absent
    <3> QED
      BY <3>1, <1>1, <1>3
  <2>3. ASSUME NEW r \in Reasons, FinalizeSettlementRefund(r) PROVE tax'.assessed = tax.assessed
    BY <2>3, ReversalFields, FinalRefundedTypes DEF FinalizeSettlementRefund
  <2> QED
    BY <2>1, <2>2, <2>3, Writers
<1>7. settlement'.held \in {Deposit, Final}
  <2>1. settlement \in SettlementRow /\ settlement.held \in {Deposit, Final}
    BY DEF TypeInv, TypeOK, EndingInv
  <2>2. CASE settlement' = settlement
    BY <2>1, <2>2
  <2>3. CASE RecordHeldSettlement
    <3>1. settlement'.held = Captured - Security
      BY <2>1, <2>3 DEF RecordHeldSettlement, SettlementRow
    <3> QED
      BY <3>1, MoneyAssumption DEF Captured
  <2>4. CASE settlement'.held = settlement.held
    BY <2>1, <2>4
  <2>5. ASSUME settlement' # settlement, ~RecordHeldSettlement
        PROVE  settlement'.held = settlement.held
    BY <2>5, Writers, HeldKept
  <2> QED
    BY <2>3, <2>4, <2>5
<1> QED
  BY <1>2, <1>4, <1>5, <1>6, <1>7 DEF EndingInv, Announced, Absent

(* A dispute stays about money that has left custody, and its refund is    *)
(* planned once, for what was granted.                                     *)
LEMMA DisputeStep ==
    ASSUME TypeInv, RelayInv, RefundInv, EndingInv, DisputeInv, [Next]_vars
    PROVE  DisputeInv'
<1>1. /\ settlement \in SettlementRow /\ settlement.held \in Nat /\ settlement.refunded \in Nat
      /\ dispute \in DisputeRow /\ dispute.refund \in Nat
      /\ outbox \in [Events -> OutboxRow] /\ batches \in [Reasons -> BatchRow]
  BY DEF TypeInv, TypeOK, SettlementRow, DisputeRow
<1>2. /\ RefundRequested \in Events /\ BalancePaid \in Events
      /\ {Cancellation, SecurityRefund, DisputeRefund} \subseteq Reasons
      /\ Cancellation # SecurityRefund /\ Cancellation # DisputeRefund
      /\ SecurityRefund # DisputeRefund
      /\ \A r \in Reasons : RefundCompleted(r) \in Events
  BY EventTypes DEF Cancellation, SecurityRefund, DisputeRefund
<1>3. ASSUME NEW e \in Events, ~Absent(e) PROVE Announced(e)
  BY <1>3, AnnouncedStays
<1>4. settlement'.status = "held" => settlement.status = "held"
  BY SettlementSteps
<1>5. dispute'.status # "none" => settlement'.status # "held"
  <2>1. CASE dispute.status # "none"
    BY <1>4, <2>1 DEF DisputeInv
  <2>2. CASE OpenSettlementDispute
    BY <1>1, <2>2 DEF OpenSettlementDispute, SettlementRow
  <2> QED
    BY <2>1, <2>2, DisputeSteps
<1>6. settlement.held <= settlement'.held /\ settlement'.held \in Nat
  <2>1. CASE RecordHeldSettlement
    <3>1. balance = "succeeded"
      BY <2>1 DEF RecordHeldSettlement, CanRun, RelayInv, CauseInv, Absent
    <3>2. settlement'.held = Captured - Security
      BY <1>1, <2>1 DEF RecordHeldSettlement, SettlementRow
    <3>3. settlement'.held = Final
      BY <3>1, <3>2, MoneyAssumption DEF Captured
    <3> QED
      BY <3>3, MoneyAssumption DEF EndingInv
  <2> QED
    BY <1>1, <2>1, HeldKept
<1>7. ASSUME NEW amount \in 1..settlement.held, ResolveWithRefund(amount)
      PROVE  Announced(RefundRequested) /\ batches' = batches /\ outbox'[RefundRequested].ran = 0
  BY <1>1, <1>2, <1>7, EmitRows DEF ResolveWithRefund, Announced
<1>8. Absent(RefundRequested) => \/ ~Announced(RefundRequested)
                                 \/ \E amount \in 1..settlement.held : ResolveWithRefund(amount)
  BY Announcers
<1>9. dispute'.status # "accepted" =>
         /\ dispute'.refund = 0 /\ batches'[DisputeRefund].status = "none"
         /\ ~Announced(RefundRequested)
  <2> SUFFICES ASSUME dispute'.status # "accepted"
               PROVE  /\ dispute'.refund = 0 /\ batches'[DisputeRefund].status = "none"
                      /\ ~Announced(RefundRequested)
    OBVIOUS
  <2>1. dispute.status # "accepted" /\ dispute'.refund = dispute.refund
    BY DisputeSteps
  <2>2. /\ dispute.refund = 0 /\ batches[DisputeRefund].status = "none"
        /\ outbox[RefundRequested].state = "absent"
    BY <2>1 DEF DisputeInv, Absent
  <2>3. batches'[DisputeRefund] = batches[DisputeRefund]
    BY <1>2, <2>2, BatchSteps
  <2>4. ~\E amount \in 1..settlement.held : ResolveWithRefund(amount)
    BY DEF ResolveWithRefund
  <2> QED
    BY <1>8, <2>1, <2>2, <2>3, <2>4 DEF Absent
<1>10. dispute'.status = "accepted" =>
         dispute'.refund \in 1..settlement'.held /\ Announced(RefundRequested)
  <2>1. CASE dispute.status = "accepted"
    <3>1. dispute'.refund = dispute.refund
      BY <2>1, DisputeSteps
    <3> QED
      BY <1>1, <1>2, <1>3, <1>6, <2>1, <3>1 DEF DisputeInv
  <2>2. ASSUME NEW amount \in 1..settlement.held, ResolveWithRefund(amount),
               dispute'.refund = amount
        PROVE  dispute'.refund \in 1..settlement'.held /\ Announced(RefundRequested)
    BY <1>1, <1>6, <1>7, <2>2
  <2> QED
    BY <2>1, <2>2, DisputeSteps
<1>11. batches'[DisputeRefund].status # "none" =>
         /\ batches'[DisputeRefund].amount = dispute'.refund
         /\ batches'[DisputeRefund].affects = dispute'.full
  <2>1. CASE batches[DisputeRefund].status # "none"
    <3>1. dispute.status = "accepted"
      BY <2>1 DEF DisputeInv
    <3>2. dispute' = dispute
      BY <3>1, DisputeSteps
    <3>3. /\ batches'[DisputeRefund].amount = batches[DisputeRefund].amount
          /\ batches'[DisputeRefund].affects = batches[DisputeRefund].affects
      BY <1>2, <2>1, BatchSteps
    <3> QED
      BY <2>1, <3>2, <3>3 DEF DisputeInv
  <2>2. CASE batches[DisputeRefund].status = "none"
    BY <1>2, <2>2, BatchSteps
  <2> QED
    BY <2>1, <2>2
<1>12. outbox'[RefundRequested].ran >= 1 => batches'[DisputeRefund].status # "none"
  <2> SUFFICES ASSUME outbox'[RefundRequested].ran >= 1
               PROVE  batches'[DisputeRefund].status # "none"
    OBVIOUS
  <2>1. CASE outbox[RefundRequested].ran >= 1
    <3>1. batches[DisputeRefund].status # "none"
      BY <2>1 DEF DisputeInv
    <3> QED
      BY <1>2, <3>1, BatchSteps
  <2>2. CASE ~(outbox[RefundRequested].ran >= 1)
    <3>1. outbox[RefundRequested].ran < 1
      BY <1>1, <1>2, <2>2 DEF OutboxRow
    <3>2. ExecuteRefund(RefundRequested, 1, DisputeRefund, dispute.refund, dispute.full)
      BY <3>1, Committers DEF Commits
    <3>3. dispute.refund # 0 /\ dispute.full \in BOOLEAN
      <4>1. ~Absent(RefundRequested)
        BY <3>2 DEF ExecuteRefund, CanRun, Absent
      <4> QED
        BY <1>1, <4>1 DEF DisputeInv, DisputeRow
    <3>4. IF batches[DisputeRefund].status # "none"
          THEN batches'[DisputeRefund] = batches[DisputeRefund]
          ELSE batches'[DisputeRefund] = [status |-> "processing", amount |-> dispute.refund,
                                          affects |-> dispute.full]
      BY <1>1, <1>2, <3>2, <3>3, PlanFields
    <3> QED
      BY <3>4
  <2> QED
    BY <2>1, <2>2
<1>13. ~batches'[SecurityRefund].affects
  BY <1>2, BatchSteps DEF DisputeInv
<1>14. settlement'.refundId # SecurityRefund
  <2>1. ~FinalizeSettlementRefund(SecurityRefund)
    BY <1>2 DEF FinalizeSettlementRefund, Applies, DisputeInv
  <2> QED
    BY <2>1, SettlementSteps DEF DisputeInv, Same
<1>15. ASSUME NEW r \in Reasons, batches'[r].status = "completed"
       PROVE  Announced(RefundCompleted(r))
  <2>1. CASE batches[r].status = "completed"
    BY <1>2, <1>3, <2>1 DEF DisputeInv
  <2>2. CASE BatchCompletes(r)
    BY <1>1, <1>2, <2>2, EmitRows DEF BatchCompletes, Announced
  <2> QED
    BY <1>15, <2>1, <2>2, BatchSteps
<1> QED
  BY <1>5, <1>9, <1>10, <1>11, <1>12, <1>13, <1>14, <1>15 DEF DisputeInv, Announced, Absent

(* Without a cancellation, refunds keep to the dispute.                    *)
LEMMA UncancelledStep ==
    ASSUME TypeInv, RelayInv, RefundInv, EndingInv, DisputeInv, UncancelledInv, [Next]_vars
    PROVE  UncancelledInv'
<1> SUFFICES ASSUME ~Announced(Cancelled)
             PROVE  /\ dispute'.status = "open" => settlement'.status = "disputed"
                    /\ dispute'.status # "accepted" =>
                         /\ settlement'.refundId = "none" /\ settlement'.refunded = 0
                         /\ Reversed' = 0
                         /\ settlement'.status \notin {"refund_pending", "refunded"}
                    /\ dispute'.status = "accepted" =>
                         /\ settlement'.refunded = dispute'.refund
                         /\ settlement'.refundId = "none" =>
                              settlement'.status = "refund_pending" /\ Reversed' = 0
                         /\ settlement'.refundId # "none" =>
                              Reversed' = Least(settlement'.refunded, tax'.assessed)
                    /\ outbox'[RefundCompleted(DisputeRefund)].ran >= 1 =>
                         settlement'.refundId # "none"
  BY DEF UncancelledInv, Absent, Announced
<1>1. /\ settlement \in SettlementRow /\ settlement.held \in Nat /\ settlement.refunded \in Nat
      /\ dispute \in DisputeRow /\ dispute.refund \in Nat /\ tax \in TaxRows
      /\ tax.assessed \in Nat
      /\ outbox \in [Events -> OutboxRow] /\ batches \in [Reasons -> BatchRow]
  BY DEF TypeInv, TypeOK, SettlementRow, DisputeRow, TaxRows
<1>2. /\ RefundRequested \in Events /\ Cancelled \in Events
      /\ {Cancellation, SecurityRefund, DisputeRefund} \subseteq Reasons
      /\ Reasons = {Cancellation, SecurityRefund, DisputeRefund}
      /\ "none" \notin Reasons
      /\ RefundCompleted(DisputeRefund) \in Events
  BY EventTypes DEF Cancellation, SecurityRefund, DisputeRefund, Reasons
<1>3. Absent(Cancelled) /\ ~PrepareCancellationRefund
  <2>1. Absent(Cancelled)
    BY <1>2, AnnouncedStays
  <2> QED
    BY <2>1 DEF PrepareCancellationRefund, CanRun, Absent
<1>4. ASSUME NEW r \in Reasons, FinalizeSettlementRefund(r)
      PROVE  /\ r = DisputeRefund /\ dispute.status = "accepted" /\ dispute' = dispute
             /\ settlement.refundId = "none" => settlement.status = "refund_pending"
  <2>1. ~Absent(RefundCompleted(r)) /\ Applies(r)
    BY <1>4 DEF FinalizeSettlementRefund, CanRun, Absent
  <2>2. batches[r].status = "completed"
    BY <2>1 DEF RefundInv, Absent
  <2>3. r # Cancellation
    BY <1>3, <2>2 DEF EndingInv
  <2>4. r # SecurityRefund
    BY <2>1 DEF Applies, DisputeInv, SecurityRefund, DisputeRefund
  <2>5. r = DisputeRefund /\ dispute.status = "accepted"
    BY <1>2, <2>2, <2>3, <2>4 DEF DisputeInv
  <2>6. dispute' = dispute
    BY <1>4 DEF FinalizeSettlementRefund
  <2> QED
    BY <1>3, <2>5, <2>6 DEF UncancelledInv
<1>5. CASE FinalizeSettlementRefund(DisputeRefund)
  <2> DEFINE n == FinalRefunded(DisputeRefund)
  <2>1. dispute' = dispute /\ dispute.status = "accepted"
    BY <1>2, <1>4, <1>5
  <2>2. /\ settlement.refunded = dispute.refund /\ dispute.refund \in 1..settlement.held
        /\ settlement.refundId = "none" => settlement.status = "refund_pending" /\ Reversed = 0
        /\ settlement.refundId # "none" => Reversed = Least(settlement.refunded, tax.assessed)
    BY <1>3, <2>1 DEF UncancelledInv, DisputeInv
  <2>3. settlement.refundId \in {"none", DisputeRefund}
    BY <1>1, <1>2, <1>3 DEF SettlementRow, RefundInv, RefundTruth, EndingInv, DisputeInv
  <2>4. CASE settlement.refundId = DisputeRefund
    <3>1. settlement' = settlement /\ tax' = tax
      BY <1>5, <2>4 DEF FinalizeSettlementRefund
    <3>2. Reversed' = Reversed
      BY <3>1 DEF Reversed
    <3> QED
      BY <1>2, <2>1, <2>2, <2>4, <3>1, <3>2
  <2>5. CASE settlement.refundId = "none"
    <3>1. n = settlement.refunded /\ n \in Nat /\ n <= settlement.held
      BY <1>1, <1>2, <2>2, <2>5 DEF FinalRefunded
    <3>2. /\ settlement' = Finalized(settlement, DisputeRefund, n)
          /\ tax' = WithholdingReversal(DisputeRefund, n)
      BY <1>2, <1>5, <2>5 DEF FinalizeSettlementRefund
    <3> HIDE DEF n
    <3>3. settlement'.refundId = DisputeRefund /\ settlement'.refunded = n
      BY <1>1, <1>2, <2>2, <2>5, <3>1, <3>2, FinalizedFields DEF Least
    <3>4. /\ tax'.assessed = tax.assessed
          /\ Reversed' = IF tax.reversals[DisputeRefund] = 0 /\ Least(n, tax.assessed) > Reversed
                         THEN Least(n, tax.assessed) ELSE Reversed
      BY <1>2, <3>1, <3>2, ReversalFields
    <3>5. tax.reversals[DisputeRefund] = 0 /\ Reversed = 0
      <4>1. \A r \in Reasons : tax.reversals[r] \in Nat
        BY <1>1 DEF TaxRows
      <4> QED
        BY <1>2, <2>2, <2>5, <4>1 DEF Reversed
    <3>6. Reversed' = Least(n, tax.assessed)
      BY <1>1, <3>1, <3>4, <3>5, AmountTypes
    <3> QED
      BY <1>2, <2>1, <2>2, <3>1, <3>3, <3>4, <3>6
  <2> QED
    BY <2>3, <2>4, <2>5
<1>6. CASE ~FinalizeSettlementRefund(DisputeRefund)
  <2>1. \A r \in Reasons : ~FinalizeSettlementRefund(r)
    BY <1>4, <1>6
  <2>2. Reversed' = Reversed
    <3>1. \/ tax' = tax \/ \E n \in Nat : tax' = Assess(n)
      BY <1>1, <2>1, AmountTypes, MoneyAssumption, Writers
      DEF StartSettlementWindow, StartNoShowWindow
    <3> QED
      BY <1>1, <3>1 DEF Reversed, Assess, TaxRows
  <2>3. settlement.status # "held" => tax' = tax
    BY <2>1, Writers DEF StartSettlementWindow, StartNoShowWindow
  <2>4. settlement'.refundId = settlement.refundId
    BY <1>3, <2>1, SettlementSteps DEF Same
  <2>5. settlement'.refunded = settlement.refunded
        \/ \E amount \in 1..settlement.held : ResolveWithRefund(amount)
    BY <1>3, <2>1, SettlementSteps DEF Same
  <2>6. dispute'.status = "open" => settlement'.status = "disputed"
    <3>1. CASE OpenSettlementDispute
      BY <1>1, <3>1 DEF OpenSettlementDispute, SettlementRow
    <3>2. CASE dispute' = dispute /\ dispute.status = "open"
      <4>1. settlement.status = "disputed"
        BY <1>3, <3>2 DEF UncancelledInv
      <4>2. ~ResolveForRelease /\ \A amount \in 1..settlement.held : ~ResolveWithRefund(amount)
        BY <1>1, <3>2 DEF ResolveForRelease, ResolveWithRefund, DisputeRow
      <4> QED
        BY <1>3, <2>1, <4>1, <4>2, SettlementSteps
    <3> QED
      BY <3>1, <3>2, DisputeSteps
  <2>7. dispute'.status # "accepted" =>
          /\ settlement'.refundId = "none" /\ settlement'.refunded = 0 /\ Reversed' = 0
          /\ settlement'.status \notin {"refund_pending", "refunded"}
    <3> SUFFICES ASSUME dispute'.status # "accepted"
                 PROVE  /\ settlement'.refundId = "none" /\ settlement'.refunded = 0
                        /\ Reversed' = 0
                        /\ settlement'.status \notin {"refund_pending", "refunded"}
      OBVIOUS
    <3>1. /\ dispute.status # "accepted"
          /\ \A amount \in 1..settlement.held : ~ResolveWithRefund(amount)
      BY DisputeSteps DEF ResolveWithRefund
    <3>2. /\ settlement.refundId = "none" /\ settlement.refunded = 0 /\ Reversed = 0
          /\ settlement.status \notin {"refund_pending", "refunded"}
      BY <1>3, <3>1 DEF UncancelledInv
    <3>3. settlement'.status \notin {"refund_pending", "refunded"}
      BY <1>3, <2>1, <3>1, <3>2, SettlementSteps
    <3> QED
      BY <2>2, <2>4, <2>5, <3>1, <3>2, <3>3
  <2>8. dispute'.status = "accepted" =>
          /\ settlement'.refunded = dispute'.refund
          /\ settlement'.refundId = "none" => settlement'.status = "refund_pending" /\ Reversed' = 0
          /\ settlement'.refundId # "none" => Reversed' = Least(settlement'.refunded, tax'.assessed)
    <3>1. CASE dispute.status = "accepted"
      <4>1. dispute' = dispute
        BY <3>1, DisputeSteps
      <4>2. /\ settlement.refunded = dispute.refund /\ settlement.status # "held"
            /\ settlement.refundId = "none" => settlement.status = "refund_pending" /\ Reversed = 0
            /\ settlement.refundId # "none" => Reversed = Least(settlement.refunded, tax.assessed)
        BY <1>3, <3>1 DEF UncancelledInv, DisputeInv
      <4>3. \A amount \in 1..settlement.held : ~ResolveWithRefund(amount)
        BY <3>1 DEF ResolveWithRefund
      <4>4. settlement.status = "refund_pending" => settlement'.status = "refund_pending"
        BY <1>3, <2>1, <4>3, SettlementSteps
      <4> QED
        BY <2>2, <2>3, <2>4, <2>5, <4>1, <4>2, <4>3, <4>4
    <3>2. ASSUME NEW amount \in 1..settlement.held, ResolveWithRefund(amount),
                 dispute.status = "open", dispute'.refund = amount
          PROVE  /\ settlement'.refunded = dispute'.refund /\ settlement'.refundId = "none"
                 /\ settlement'.status = "refund_pending" /\ Reversed' = 0
      <4>1. /\ settlement.status = "disputed" /\ settlement.refunded = 0
            /\ settlement.refundId = "none" /\ Reversed = 0
        BY <1>3, <3>2 DEF UncancelledInv
      <4>2. settlement' = Frozen(settlement, 0 + amount)
        BY <3>2, <4>1 DEF ResolveWithRefund
      <4>3. 0 + amount = amount /\ amount \in Nat /\ amount <= settlement.held
        BY <1>1
      <4>4. settlement'.refunded = Least(amount, settlement.held)
            /\ settlement'.status = "refund_pending" /\ settlement'.refundId = "none"
        BY <1>1, <4>1, <4>2, <4>3, FrozenFields
      <4>5. Least(amount, settlement.held) = amount
        BY <1>1, <4>3 DEF Least
      <4> QED
        BY <2>2, <3>2, <4>1, <4>4, <4>5
    <3> QED
      BY <3>1, <3>2, DisputeSteps
  <2>9. outbox'[RefundCompleted(DisputeRefund)].ran >= 1 => settlement'.refundId # "none"
    <3>1. CASE outbox[RefundCompleted(DisputeRefund)].ran >= 1
      BY <1>3, <2>4, <3>1 DEF UncancelledInv
    <3>2. ASSUME ~(outbox[RefundCompleted(DisputeRefund)].ran >= 1),
                 outbox'[RefundCompleted(DisputeRefund)].ran >= 1
          PROVE  FALSE
      <4>1. outbox[RefundCompleted(DisputeRefund)].ran < 1
        BY <1>1, <1>2, <3>2 DEF OutboxRow
      <4>2. IgnoreRefundCompleted(DisputeRefund)
        BY <1>2, <1>6, <3>2, <4>1, Committers DEF Commits
      <4> QED
        BY <4>2 DEF IgnoreRefundCompleted, Applies
    <3> QED
      BY <3>1, <3>2
  <2> QED
    BY <2>6, <2>7, <2>8, <2>9
<1> QED
  BY <1>5, <1>6

(* The case file holds throughout, for every constant.                     *)
LEMMA CaseInvariant == Spec => []CaseInv
<1>1. ASSUME Init PROVE CaseInv
  <2>1. Reversed = 0
    BY <1>1, EventTypes DEF Init, Reversed
  <2>2. \A e \in Events : Absent(e) /\ outbox[e].ran = 0
    BY <1>1 DEF Init, Absent
  <2>3. EndingInv
    BY <1>1, <2>2, EventTypes DEF Init, EndingInv, Endings
  <2>4. DisputeInv
    <3>1. /\ dispute.status = "none" /\ dispute.refund = 0
          /\ settlement.refundId = "none" /\ SecurityRefund # "none"
          /\ \A r \in Reasons : batches[r].status = "none" /\ batches[r].affects = FALSE
      BY <1>1 DEF Init, SecurityRefund
    <3>2. Absent(RefundRequested) /\ outbox[RefundRequested].ran = 0
      BY <2>2, EventTypes
    <3> QED
      BY <3>1, <3>2, EventTypes DEF DisputeInv
  <2>5. UncancelledInv
    BY <1>1, <2>1, <2>2, EventTypes DEF Init, UncancelledInv
  <2> QED
    BY <2>3, <2>4, <2>5 DEF CaseInv
<1>2. TypeInv /\ RelayInv /\ RefundInv /\ CaseInv /\ [Next]_vars => CaseInv'
  BY EndingStep, DisputeStep, UncancelledStep DEF CaseInv
<1> QED
  BY <1>1, <1>2, TypeInvariant, RelayInvariant, RefundInvariant, PTL DEF Spec

(* A provider that never declines a refund for good fails no batch.        *)
NoneFailed == \A r \in Reasons : batches[r].status # "failed"
LEMMA NoneFailedInvariant == ~RefundsMayFail => (Spec => []NoneFailed)
<1> SUFFICES ASSUME ~RefundsMayFail PROVE Spec => []NoneFailed
  OBVIOUS
<1>1. Init => NoneFailed
  BY DEF Init, NoneFailed
<1>2. TypeInv /\ NoneFailed /\ [Next]_vars => NoneFailed'
  <2> SUFFICES ASSUME TypeInv, NoneFailed, [Next]_vars, NEW r \in Reasons
               PROVE  batches'[r].status # "failed"
    BY DEF NoneFailed
  <2>1. ~BatchFails(r)
    BY DEF BatchFails
  <2> QED
    BY <2>1, BatchSteps DEF NoneFailed
<1> QED
  BY <1>1, <1>2, TypeInvariant, PTL DEF Spec

(* TaxFollowsRefunds whenever the provider never declines a refund for     *)
(* good: in whatever order and however often events are handled, re-emitted *)
(* or given up, the tax of every refunded amount is reversed, and no more. *)
THEOREM RefundedTaxIsReversed == ~RefundsMayFail => (Spec => []TaxFollowsRefunds)
<1> SUFFICES ASSUME ~RefundsMayFail PROVE Spec => []TaxFollowsRefunds
  OBVIOUS
<1>3. TypeInv /\ RelayInv /\ CaseInv /\ NoneFailed /\ TaxNeverOverReversed => TaxFollowsRefunds
  <2> SUFFICES ASSUME TypeInv, RelayInv, CaseInv, NoneFailed, TaxNeverOverReversed, Quiet
               PROVE  Reversed = Least(settlement.refunded, tax.assessed)
    BY DEF TaxFollowsRefunds
  <2>1. /\ settlement.refunded \in Nat /\ tax.assessed \in Nat
        /\ \A r \in Reasons : tax.reversals[r] \in Nat
        /\ RefundRequested \in Events /\ RefundCompleted(DisputeRefund) \in Events
        /\ {Cancellation, SecurityRefund, DisputeRefund} \subseteq Reasons
        /\ batches[DisputeRefund].status \in {"none", "processing", "completed", "failed"}
    BY EventTypes DEF TypeInv, TypeOK, SettlementRow, TaxRows, BatchRow
  <2>2. Reversed \in Nat
    BY <2>1 DEF Reversed
  <2>3. CASE ~Absent(Cancelled)
    <3>1. tax.assessed = 0
      <4>1. Absent(Completed) /\ Absent(NoShow)
        BY <2>3, EventNames DEF CaseInv, EndingInv, Endings
      <4> QED
        BY <4>1 DEF CaseInv, EndingInv
    <3> QED
      BY <2>1, <2>2, <3>1 DEF TaxNeverOverReversed, Least
  <2>4. CASE Absent(Cancelled) /\ dispute.status # "accepted"
    BY <2>1, <2>4 DEF CaseInv, UncancelledInv, Least
  <2>5. CASE Absent(Cancelled) /\ dispute.status = "accepted"
    <3>1. outbox[RefundRequested].state = "processed"
      BY <2>1, <2>5 DEF CaseInv, DisputeInv, Absent, Quiet
    <3>2. outbox[RefundRequested].ran = 1
      BY <2>1, <3>1, HandlerCounts DEF RelayInv, RanInv
    <3>3. batches[DisputeRefund].status = "completed"
      BY <2>1, <3>2 DEF CaseInv, DisputeInv, NoneFailed, Quiet
    <3>4. outbox[RefundCompleted(DisputeRefund)].state = "processed"
      BY <2>1, <3>3 DEF CaseInv, DisputeInv, Absent, Quiet
    <3>5. outbox[RefundCompleted(DisputeRefund)].ran = 3
      BY <2>1, <3>4, HandlerCounts DEF RelayInv, RanInv
    <3> QED
      BY <2>5, <3>5 DEF CaseInv, UncancelledInv
  <2> QED
    BY <2>3, <2>4, <2>5
<1> QED
  BY <1>3, TypeInvariant, RelayInvariant, CaseInvariant, TaxIsBounded,
     NoneFailedInvariant, PTL

-----------------------------------------------------------------------------
(* Every handler exactly once: no delivery is repeated and nothing is      *)
(* announced again.  The relay and the recovery worker promise no more     *)
(* than at least once; the theorems below say what a day without retries   *)
(* keeps.                                                                  *)
Once == ~Redeliver /\ ~Recover

(* Without redelivery, the handler that runs is the next one.              *)
LEMMA NextHandler ==
    ASSUME Once, NEW e \in Events, NEW i \in 1..3, CanRun(e, i)
    PROVE  outbox[e].state = "pending" /\ i = outbox[e].ran + 1
BY DEF Once, CanRun

(* The first handler to commit finds its event untouched, and leaves the   *)
(* other events as they are.                                               *)
LEMMA FirstHandler ==
    ASSUME Once, TypeInv, NEW e \in Events, CanRun(e, 1), outbox' = Ran(outbox, e, 1)
    PROVE  /\ outbox[e].ran = 0 /\ outbox'[e].ran = 1
           /\ \A d \in Events : d # e => outbox'[d] = outbox[d]
<1>1. outbox \in [Events -> OutboxRow] /\ outbox[e] \in OutboxRow /\ outbox[e].ran \in Nat
  BY DEF TypeInv, TypeOK, OutboxRow
<1>2. 1 = outbox[e].ran + 1
  BY NextHandler
<1>3. outbox[e].ran = 0
  BY <1>1, <1>2
<1>4. outbox'[e] = [outbox[e] EXCEPT !.ran = 1]
  BY <1>1, <1>3, RanRows
<1>5. outbox'[e].ran = 1
  BY <1>1, <1>4 DEF OutboxRow
<1> QED
  BY <1>1, <1>3, <1>5, OneRow

(* The events that the facts below count.                                  *)
Counted == Endings \cup {RefundRequested} \cup {RefundCompleted(r) : r \in Reasons}

(* Without recovery, what a counted event has handled stays handled.       *)
LEMMA CountsGrow ==
    ASSUME Once, TypeInv, RelayInv, RefundInv, [Next]_vars, NEW e \in Counted
    PROVE  outbox[e].ran <= outbox'[e].ran
<1>1. e \in Events
  BY EventTypes DEF Counted, Endings
<1>2. Moves(e) /\ outbox[e] \in OutboxRow /\ outbox[e].ran \in 0..3
      /\ Handlers(e) \in 1..3 /\ (outbox[e].state = "absent" => outbox[e].ran = 0)
  BY <1>1, RelaySteps, HandlerCounts DEF TypeInv, TypeOK, OutboxRow, RelayInv, RanInv
<1>3. CASE \/ outbox'[e] # [state |-> "pending", ran |-> 0]
           \/ outbox[e].state \in {"absent", "pending"}
  BY <1>2, <1>3 DEF Moves, OutboxRow
<1>4. CASE outbox[e].state \in {"processed", "dead"} /\ outbox'[e] # outbox[e]
  <2>1. WritesRow(e) /\ ~MarkProcessed(e) /\ ~DeadLetter(e) /\ \A i \in 1..3 : ~CanRun(e, i)
    BY <1>1, <1>4, RowWriters DEF MarkProcessed, DeadLetter, CanRun
  <2>2. ~Absent(e)
    BY <1>4 DEF Absent
  <2>3. ~RecoveryNext /\ \A r \in Reasons : ~RecoverBatch(r)
    BY DEF Once, RecoveryNext, RecoverBatch, RecoverMissingRefund
  <2>4. CASE e = Completed
    <3>1. ~MarkCompleted /\ ~MarkReturned /\ ~StartSettlementWindow
      BY <2>1, <2>2, <2>4
      DEF MarkCompleted, MarkReturned, StartSettlementWindow, RelayInv, CauseInv, Endings
    <3> QED
      BY <2>1, <2>4, <3>1, EventNames, EventTypes DEF WritesRow
  <2>5. CASE e = NoShow
    <3>1. ~MarkNoShow /\ ~StartNoShowWindow
          /\ ~ExecuteRefund(NoShow, 2, SecurityRefund, Security, FALSE)
      BY <2>1, <2>2, <2>5
      DEF MarkNoShow, StartNoShowWindow, ExecuteRefund, RelayInv, CauseInv, Endings
    <3> QED
      BY <2>1, <2>5, <3>1, EventNames, EventTypes DEF WritesRow
  <2>6. CASE e = Cancelled
    <3>1. /\ ~\E percent \in RefundPercents \cup {100} : CancelBooking(percent)
          /\ ~PrepareCancellationRefund
          /\ ~ExecuteRefund(Cancelled, 2, Cancellation, refundDue, TRUE)
      BY <2>1, <2>2, <2>6
      DEF CancelBooking, PrepareCancellationRefund, ExecuteRefund, RelayInv, CauseInv, Endings
    <3> QED
      BY <2>1, <2>6, <3>1, EventNames, EventTypes DEF WritesRow
  <2>7. CASE e = RefundRequested
    <3>1. /\ ~\E amount \in 1..settlement.held : ResolveWithRefund(amount)
          /\ ~ExecuteRefund(RefundRequested, 1, DisputeRefund, dispute.refund, dispute.full)
      BY <2>1, <2>2, <2>7
      DEF ResolveWithRefund, ExecuteRefund, RelayInv, CauseInv
    <3> QED
      BY <2>1, <2>7, <3>1, EventNames, EventTypes DEF WritesRow
  <2>8. ASSUME NEW r \in Reasons, e = RefundCompleted(r) PROVE FALSE
    <3>1. ~IgnoreRefundCompleted(r) /\ ~FinalizeSettlementRefund(r) /\ ~FinalizeRefundedBooking(r)
      BY <2>1, <2>8
      DEF IgnoreRefundCompleted, FinalizeSettlementRefund, FinalizeRefundedBooking
    <3>2. ~BatchCompletes(r) /\ ~RecoverBatch(r)
      BY <2>2, <2>3, <2>8 DEF BatchCompletes, RefundInv, Absent
    <3>3. ASSUME NEW w \in Workers
          PROVE  /\ ~BeginClawback(w, e)
                 /\ ~(txs[w].event = e /\ ReadClawbackEntries(w))
                 /\ ~(txs[w].event = e /\ CommitClawback(w))
      <4>1. ~BeginClawback(w, e)
        BY <2>1 DEF BeginClawback, ClawbackStep
      <4>2. txs[w].event # e
        BY <1>1, <1>4 DEF RelayInv, OpenTxInv
      <4> QED
        BY <4>1, <4>2
    <3>4. \A q \in Reasons : e = RefundCompleted(q) => q = r
      BY <2>8, RefundEventsDiffer
    <3>5. /\ e \notin {Completed, NoShow, Cancelled, Returned, BookingRefunded, BalancePaid,
                       ReleaseRequested, RefundRequested}
          /\ \A q \in Reasons : e # RecoveryRequested(q)
      BY <2>8, RefundEventsDiffer
    <3>6. \E q \in Reasons : e = RefundCompleted(q) /\
           \/ BatchCompletes(q) \/ RecoverBatch(q)
           \/ IgnoreRefundCompleted(q) \/ FinalizeSettlementRefund(q) \/ FinalizeRefundedBooking(q)
      BY <2>1, <3>3, <3>5, EventTypes DEF WritesRow
    <3> QED
      BY <3>1, <3>2, <3>4, <3>6
  <2> QED
    BY <2>4, <2>5, <2>6, <2>7, <2>8 DEF Counted, Endings
<1> QED
  BY <1>2, <1>3, <1>4 DEF OutboxRow

(* A refund is due from the handler that freezes custody for it until the  *)
(* handler that finalizes it.                                              *)
CancellationDue == /\ outbox[Cancelled].ran >= 1 /\ refundDue > Security
                   /\ outbox[RefundCompleted(Cancellation)].ran = 0
DisputeDue == dispute.status = "accepted" /\ outbox[RefundCompleted(DisputeRefund)].ran = 0

(* With every handler once: a cancellation's batch is planned by its       *)
(* second handler and by nothing else, a settlement names what finance has *)
(* finalized, waits only for a refund that is due, and leaves custody with *)
(* the first handler of the ending.                                        *)
OnceInv ==
    /\ \A r \in Reasons : Absent(RecoveryRequested(r))
    /\ batches[Cancellation].status # "none" =>
         /\ outbox[Cancelled].ran >= 2 /\ refundDue # 0
         /\ batches[Cancellation].amount = refundDue /\ batches[Cancellation].affects
    /\ outbox[Cancelled].ran >= 2 /\ refundDue # 0 => batches[Cancellation].status # "none"
    /\ \A r \in Reasons : settlement.refundId = r => outbox[RefundCompleted(r)].ran >= 1
    /\ settlement.status = "refund_pending" => CancellationDue \/ DisputeDue
    /\ settlement.status # "held" => \E e \in Endings : outbox[e].ran >= 1
    /\ settlement.status = "held" => outbox[Cancelled].ran = 0

(* What finance finalizes is a completed batch, of the cancellation or of  *)
(* a dispute that was accepted.                                            *)
LEMMA WhatFinalizes ==
    ASSUME TypeInv, RefundInv, CaseInv, NEW r \in Reasons, FinalizeSettlementRefund(r)
    PROVE  /\ batches[r].status = "completed"
           /\ r = Cancellation \/ (r = DisputeRefund /\ dispute.status = "accepted")
<1>1. outbox[RefundCompleted(r)].state # "absent" /\ Applies(r)
  BY DEF FinalizeSettlementRefund, CanRun
<1>2. batches[r].status = "completed"
  BY <1>1 DEF RefundInv
<1>3. r # SecurityRefund
  BY <1>1 DEF Applies, CaseInv, DisputeInv, SecurityRefund, DisputeRefund
<1>4. r \in {Cancellation, DisputeRefund}
  BY <1>3 DEF Reasons
<1>5. r = DisputeRefund => dispute.status = "accepted"
  BY <1>2 DEF CaseInv, DisputeInv
<1> QED
  BY <1>2, <1>4, <1>5

(* A refund becomes due with the handler or the decision that freezes      *)
(* custody for it, and stays due until it is finalized.                    *)
LEMMA DueSteps ==
    ASSUME Once, TypeInv, RelayInv, RefundInv, CaseInv, OnceInv, [Next]_vars
    PROVE  /\ CancellationDue' => CancellationDue \/ PrepareCancellationRefund
           /\ DisputeDue' => DisputeDue \/ \E n \in 1..settlement.held : ResolveWithRefund(n)
           /\ CancellationDue => CancellationDue' \/ FinalizeSettlementRefund(Cancellation)
           /\ DisputeDue => DisputeDue' \/ FinalizeSettlementRefund(DisputeRefund)
           /\ \A r \in Reasons : FinalizeSettlementRefund(r) =>
                /\ outbox[RefundCompleted(r)].ran = 0 /\ outbox'[RefundCompleted(r)].ran >= 1
                /\ settlement.refundId # r
           /\ PrepareCancellationRefund =>
                /\ outbox[Cancelled].ran = 0 /\ outbox'[Cancelled].ran = 1
                /\ refundDue' = refundDue
                /\ outbox'[RefundCompleted(Cancellation)].ran = 0
           /\ \A n \in 1..settlement.held : ResolveWithRefund(n) => DisputeDue'
<1>1. /\ settlement \in SettlementRow /\ refundDue \in Nat /\ Security \in Nat
      /\ outbox \in [Events -> OutboxRow] /\ batches \in [Reasons -> BatchRow]
      /\ \A e \in Events : outbox[e].ran \in Nat
  BY MoneyAssumption DEF TypeInv, TypeOK, OutboxRow
<1>2. /\ {Cancelled, RefundRequested} \subseteq Events /\ Cancelled \in Counted
      /\ Cancelled \in Endings
      /\ \A r \in Reasons : RefundCompleted(r) \in Events /\ RefundCompleted(r) \in Counted
      /\ {Cancellation, SecurityRefund, DisputeRefund} \subseteq Reasons
  BY EventTypes DEF Counted, Endings
<1>3. \A e \in Counted : outbox[e].ran <= outbox'[e].ran
  BY CountsGrow
<1>4. \A e \in Events : outbox'[e].ran \in Nat /\ (Absent(e) => outbox[e].ran = 0)
  <2>1. \A e \in Events : Moves(e) /\ Handlers(e) \in Nat /\ outbox[e].ran \in Nat
    BY <1>1, RelaySteps, HandlerCounts
  <2>2. \A e \in Events : outbox'[e].ran \in Nat
    BY <2>1 DEF Moves
  <2> QED
    BY <2>2 DEF RelayInv, RanInv, Absent
<1>5. refundDue' = refundDue \/ Absent(Cancelled)
  BY Writers DEF CancelBooking, RelayInv, CauseInv, Endings
<1>6. ASSUME NEW r \in Reasons, FinalizeSettlementRefund(r)
      PROVE  /\ outbox[RefundCompleted(r)].ran = 0 /\ outbox'[RefundCompleted(r)].ran >= 1
             /\ settlement.refundId # r
  <2> DEFINE e == RefundCompleted(r)
  <2>1. e \in Events /\ CanRun(e, 1) /\ outbox' = Ran(outbox, e, 1)
    BY <1>2, <1>6 DEF FinalizeSettlementRefund
  <2> HIDE DEF e
  <2>2. outbox[e].ran = 0 /\ outbox'[e].ran = 1
    BY <2>1, FirstHandler
  <2>3. settlement.refundId = r => outbox[e].ran >= 1
    BY DEF e, OnceInv
  <2> QED
    BY <2>2, <2>3 DEF e
<1>7. ASSUME PrepareCancellationRefund
      PROVE  /\ outbox[Cancelled].ran = 0 /\ outbox'[Cancelled].ran = 1 /\ refundDue' = refundDue
             /\ outbox'[RefundCompleted(Cancellation)].ran = 0
  <2>1. CanRun(Cancelled, 1) /\ outbox' = Ran(outbox, Cancelled, 1)
    BY <1>7 DEF PrepareCancellationRefund
  <2>2. outbox[Cancelled].ran = 0 /\ outbox'[Cancelled].ran = 1
    BY <1>2, <2>1, FirstHandler
  <2>5. outbox[RefundCompleted(Cancellation)].ran = 0
    <3>1. batches[Cancellation].status = "none"
      BY <2>2 DEF OnceInv
    <3>2. Absent(RefundCompleted(Cancellation))
      BY <1>2, <3>1 DEF RefundInv, Absent
    <3> QED
      BY <1>2, <1>4, <3>2
  <2>6. outbox'[RefundCompleted(Cancellation)] = outbox[RefundCompleted(Cancellation)]
    BY <1>1, <1>2, <1>7, OneRow, RefundEventsDiffer DEF PrepareCancellationRefund
  <2>7. refundDue' = refundDue
    BY <1>7 DEF PrepareCancellationRefund, bookingVars
  <2> QED
    BY <2>2, <2>5, <2>6, <2>7
<1>8. ASSUME NEW n \in 1..settlement.held, ResolveWithRefund(n) PROVE DisputeDue'
  <2>1. batches[DisputeRefund].status = "none"
    BY <1>8 DEF ResolveWithRefund, CaseInv, DisputeInv
  <2>2. Absent(RefundCompleted(DisputeRefund))
    BY <1>2, <2>1 DEF RefundInv, Absent
  <2>3. outbox[RefundCompleted(DisputeRefund)].ran = 0
    BY <1>2, <1>4, <2>2
  <2>4. outbox'[RefundCompleted(DisputeRefund)] = outbox[RefundCompleted(DisputeRefund)]
    BY <1>1, <1>2, <1>8, OneRow, RefundEventsDiffer DEF ResolveWithRefund
  <2>5. dispute'.status = "accepted"
    BY <1>8 DEF ResolveWithRefund
  <2> QED
    BY <2>3, <2>4, <2>5 DEF DisputeDue
<1>9. CancellationDue' => CancellationDue \/ PrepareCancellationRefund
  <2> SUFFICES ASSUME CancellationDue', ~PrepareCancellationRefund PROVE CancellationDue
    OBVIOUS
  <2>1. outbox[Cancelled].ran >= 1
    <3>1. ~Commits(Cancelled, 1)
      BY Committers
    <3> QED
      BY <1>1, <1>2, <3>1 DEF Commits, CancellationDue
  <2>2. refundDue' = refundDue
    <3>1. ~Absent(Cancelled)
      BY <1>2, <1>4, <2>1
    <3> QED
      BY <1>5, <3>1
  <2>3. outbox[RefundCompleted(Cancellation)].ran <= outbox'[RefundCompleted(Cancellation)].ran
    BY <1>2, <1>3
  <2>4. outbox[RefundCompleted(Cancellation)].ran = 0
    BY <1>1, <1>2, <2>3 DEF CancellationDue
  <2> QED
    BY <2>1, <2>2, <2>4 DEF CancellationDue
<1>10. DisputeDue' => DisputeDue \/ \E n \in 1..settlement.held : ResolveWithRefund(n)
  <2> SUFFICES ASSUME DisputeDue', ~\E n \in 1..settlement.held : ResolveWithRefund(n)
               PROVE  DisputeDue
    OBVIOUS
  <2>1. dispute.status = "accepted"
    BY DisputeSteps DEF DisputeDue
  <2>2. outbox[RefundCompleted(DisputeRefund)].ran <= outbox'[RefundCompleted(DisputeRefund)].ran
    BY <1>2, <1>3
  <2>3. outbox[RefundCompleted(DisputeRefund)].ran = 0
    BY <1>1, <1>2, <2>2 DEF DisputeDue
  <2> QED
    BY <2>1, <2>3 DEF DisputeDue
<1>11. CancellationDue => CancellationDue' \/ FinalizeSettlementRefund(Cancellation)
  <2> SUFFICES ASSUME CancellationDue, ~FinalizeSettlementRefund(Cancellation)
               PROVE  CancellationDue'
    OBVIOUS
  <2>1. outbox'[Cancelled].ran >= 1
    BY <1>1, <1>2, <1>3, <1>4 DEF CancellationDue
  <2>2. refundDue' = refundDue
    <3>1. ~Absent(Cancelled)
      BY <1>2, <1>4 DEF CancellationDue
    <3> QED
      BY <1>5, <3>1
  <2>3. outbox'[RefundCompleted(Cancellation)].ran = 0
    <3>1. ~IgnoreRefundCompleted(Cancellation)
      <4>1. SUFFICES ASSUME IgnoreRefundCompleted(Cancellation) PROVE FALSE
        OBVIOUS
      <4>2. ~Absent(RefundCompleted(Cancellation)) /\ ~batches[Cancellation].affects
        BY <4>1 DEF IgnoreRefundCompleted, CanRun, Absent, Applies
      <4>3. batches[Cancellation].status = "completed"
        BY <1>2, <4>2 DEF RefundInv, Absent
      <4> QED
        BY <4>2, <4>3 DEF OnceInv
    <3>2. ~Commits(RefundCompleted(Cancellation), 1)
      BY <1>2, <3>1, Committers
    <3> QED
      BY <1>2, <1>4, <3>2 DEF Commits, CancellationDue
  <2> QED
    BY <2>1, <2>2, <2>3 DEF CancellationDue
<1>12. DisputeDue => DisputeDue' \/ FinalizeSettlementRefund(DisputeRefund)
  <2> SUFFICES ASSUME DisputeDue, ~FinalizeSettlementRefund(DisputeRefund) PROVE DisputeDue'
    OBVIOUS
  <2>1. dispute' = dispute
    BY DisputeSteps DEF DisputeDue
  <2>2. ~IgnoreRefundCompleted(DisputeRefund)
    BY DEF IgnoreRefundCompleted, Applies
  <2>3. ~Commits(RefundCompleted(DisputeRefund), 1)
    BY <1>2, <2>2, Committers
  <2>4. outbox'[RefundCompleted(DisputeRefund)].ran = 0
    BY <1>2, <1>4, <2>3 DEF Commits, DisputeDue
  <2> QED
    BY <2>1, <2>4 DEF DisputeDue
<1> QED
  BY <1>6, <1>7, <1>8, <1>9, <1>10, <1>11, <1>12

(* Every step keeps the account of a day without retries.                  *)
LEMMA OnceStep ==
    ASSUME Once, TypeInv, RelayInv, RefundInv, CaseInv, CaseInv', OnceInv, [Next]_vars
    PROVE  OnceInv'
<1>1. /\ settlement \in SettlementRow /\ refundDue \in Nat /\ Security \in Nat
      /\ outbox \in [Events -> OutboxRow] /\ batches \in [Reasons -> BatchRow]
      /\ \A e \in Events : outbox[e].ran \in Nat
  BY MoneyAssumption DEF TypeInv, TypeOK, OutboxRow
<1>2. /\ {Cancelled, Completed, NoShow, RefundRequested} \subseteq Events
      /\ {Cancelled, Completed, NoShow, RefundRequested} \subseteq Counted
      /\ Endings = {Completed, NoShow, Cancelled}
      /\ \A r \in Reasons : /\ RefundCompleted(r) \in Events /\ RefundCompleted(r) \in Counted
                            /\ RecoveryRequested(r) \in Events
      /\ {Cancellation, SecurityRefund, DisputeRefund} \subseteq Reasons
      /\ Cancellation # SecurityRefund /\ Cancellation # DisputeRefund
      /\ SecurityRefund # DisputeRefund
  BY EventTypes DEF Counted, Endings, Cancellation, SecurityRefund, DisputeRefund
<1>3. \A e \in Counted : outbox[e].ran <= outbox'[e].ran
  BY CountsGrow
<1>4. \A e \in Events : outbox'[e].ran \in Nat /\ (Absent(e) => outbox[e].ran = 0)
  <2>1. \A e \in Events : Moves(e) /\ Handlers(e) \in Nat /\ outbox[e].ran \in Nat
    BY <1>1, RelaySteps, HandlerCounts
  <2>2. \A e \in Events : outbox'[e].ran \in Nat
    BY <2>1 DEF Moves
  <2> QED
    BY <2>2 DEF RelayInv, RanInv, Absent
<1>5. \A r \in Reasons : ~Announced(RecoveryRequested(r))
  <2>1. ~RecoveryNext
    BY DEF Once, RecoveryNext, RecoverBatch, RecoverMissingRefund
  <2> QED
    BY <2>1, Announcers DEF OnceInv
<1>6. refundDue' = refundDue \/ Absent(Cancelled)
  BY Writers DEF CancelBooking, RelayInv, CauseInv, Endings
<1>7. batches'[Cancellation].status # "none" =>
        /\ outbox'[Cancelled].ran >= 2 /\ refundDue' # 0
        /\ batches'[Cancellation].amount = refundDue' /\ batches'[Cancellation].affects
  <2>1. CASE batches[Cancellation].status # "none"
    <3>1. /\ outbox[Cancelled].ran >= 2 /\ refundDue # 0
          /\ batches[Cancellation].amount = refundDue /\ batches[Cancellation].affects
          /\ ~Absent(Cancelled)
      BY <2>1 DEF OnceInv, CaseInv, EndingInv
    <3>2. /\ batches'[Cancellation].amount = batches[Cancellation].amount
          /\ batches'[Cancellation].affects = batches[Cancellation].affects
      BY <1>2, <2>1, BatchSteps
    <3> QED
      BY <1>1, <1>2, <1>3, <1>4, <1>6, <3>1, <3>2
  <2>2. ASSUME batches[Cancellation].status = "none", batches'[Cancellation].status # "none"
        PROVE  /\ outbox'[Cancelled].ran >= 2 /\ refundDue' # 0
               /\ batches'[Cancellation].amount = refundDue' /\ batches'[Cancellation].affects
    <3>1. /\ batches'[Cancellation].amount = refundDue /\ batches'[Cancellation].affects
          /\ refundDue' = refundDue /\ refundDue # 0
          /\ \/ ExecuteRefund(Cancelled, 2, Cancellation, refundDue, TRUE)
             \/ outbox[RecoveryRequested(Cancellation)].state = "pending"
      BY <1>2, <2>2, BatchSteps
    <3>2. ExecuteRefund(Cancelled, 2, Cancellation, refundDue, TRUE)
      BY <1>2, <3>1 DEF OnceInv, Absent
    <3>3. outbox' = Ran(outbox, Cancelled, 2)
      BY <3>2 DEF ExecuteRefund
    <3>4. outbox'[Cancelled] = IF outbox[Cancelled].ran < 2
                               THEN [outbox[Cancelled] EXCEPT !.ran = 2] ELSE outbox[Cancelled]
      BY <1>1, <1>2, <3>3, RanRows
    <3>5. outbox'[Cancelled].ran >= 2
      <4>1. outbox[Cancelled] \in OutboxRow /\ outbox[Cancelled].ran \in Nat
        BY <1>1, <1>2
      <4> QED
        BY <3>4, <4>1 DEF OutboxRow
    <3> QED
      BY <3>1, <3>5
  <2> QED
    BY <2>1, <2>2
<1>8. outbox'[Cancelled].ran >= 2 /\ refundDue' # 0 => batches'[Cancellation].status # "none"
  <2> SUFFICES ASSUME outbox'[Cancelled].ran >= 2, refundDue' # 0
               PROVE  batches'[Cancellation].status # "none"
    OBVIOUS
  <2>1. CASE outbox[Cancelled].ran >= 2
    <3>1. refundDue' = refundDue
      BY <1>2, <1>4, <1>6, <2>1
    <3>2. batches[Cancellation].status # "none"
      BY <2>1, <3>1 DEF OnceInv
    <3> QED
      BY <1>2, <3>2, BatchSteps
  <2>2. CASE ~(outbox[Cancelled].ran >= 2)
    <3>1. ExecuteRefund(Cancelled, 2, Cancellation, refundDue, TRUE)
      <4>1. outbox[Cancelled].ran < 2
        BY <1>1, <1>2, <2>2
      <4>2. Commits(Cancelled, 2)
        BY <4>1 DEF Commits
      <4> QED
        BY <4>2, Committers
    <3>2. refundDue' = refundDue /\ refundDue # 0
      BY <3>1 DEF ExecuteRefund, bookingVars
    <3>3. batches[Cancellation].status # "none" => batches' = batches
      BY <3>1 DEF ExecuteRefund
    <3>4. batches[Cancellation].status = "none" =>
            batches' = [batches EXCEPT ![Cancellation] =
                          [status |-> "processing", amount |-> refundDue, affects |-> TRUE]]
      BY <3>1, <3>2 DEF ExecuteRefund
    <3> QED
      BY <1>1, <1>2, <3>3, <3>4
  <2> QED
    BY <2>1, <2>2
<1>9. ASSUME NEW r \in Reasons, FinalizeSettlementRefund(r)
      PROVE  outbox'[RefundCompleted(r)].ran >= 1 /\ settlement.refundId # r
  BY <1>9, DueSteps
<1>10. \A r \in Reasons : settlement'.refundId = r => outbox'[RefundCompleted(r)].ran >= 1
  <2> SUFFICES ASSUME NEW r \in Reasons, settlement'.refundId = r
               PROVE  outbox'[RefundCompleted(r)].ran >= 1
    OBVIOUS
  <2>1. CASE settlement.refundId = r
    BY <1>1, <1>2, <1>3, <1>4, <2>1 DEF OnceInv
  <2>2. CASE settlement.refundId # r
    <3>1. FinalizeSettlementRefund(r)
      BY <2>2, SettlementSteps DEF Same
    <3> QED
      BY <1>9, <3>1
  <2> QED
    BY <2>1, <2>2
<1>11. settlement'.status = "refund_pending" => CancellationDue' \/ DisputeDue'
  <2> SUFFICES ASSUME settlement'.status = "refund_pending" PROVE CancellationDue' \/ DisputeDue'
    OBVIOUS
  <2>1. \A r \in Reasons : ~FinalizeSettlementRefund(r)
    <3> SUFFICES ASSUME NEW r \in Reasons, FinalizeSettlementRefund(r) PROVE FALSE
      OBVIOUS
    <3>1. settlement' = Finalized(settlement, r, FinalRefunded(r)) /\ FinalRefunded(r) \in Nat
      BY <1>9, FinalRefundedTypes DEF FinalizeSettlementRefund
    <3> QED
      BY <1>1, <3>1, FinalizedFields
  <2>2. CASE settlement.status = "refund_pending"
    BY <1>2, <2>1, <2>2, DueSteps DEF OnceInv
  <2>3. CASE PrepareCancellationRefund /\ Less(refundDue, Security) # 0
    <3>1. refundDue > Security
      BY <1>1, <2>3 DEF Less
    <3> QED
      BY <2>3, <3>1, DueSteps DEF CancellationDue
  <2>4. CASE \E n \in 1..settlement.held : ResolveWithRefund(n)
    BY <2>4, DueSteps
  <2> QED
    BY <2>1, <2>2, <2>3, <2>4, SettlementSteps
<1>12. settlement'.status # "held" => \E e \in Endings : outbox'[e].ran >= 1
  <2> SUFFICES ASSUME settlement'.status # "held" PROVE \E e \in Endings : outbox'[e].ran >= 1
    OBVIOUS
  <2>1. CASE settlement.status # "held"
    <3>1. PICK e \in Endings : outbox[e].ran >= 1
      BY <2>1 DEF OnceInv
    <3>2. outbox[e].ran <= outbox'[e].ran /\ outbox[e].ran \in Nat /\ outbox'[e].ran \in Nat
      BY <1>1, <1>2, <1>3, <1>4
    <3> QED
      BY <3>1, <3>2
  <2>2. CASE settlement.status = "held"
    <3>1. StartSettlementWindow \/ StartNoShowWindow \/ PrepareCancellationRefund
      <4>1. dispute.status = "none"
        BY <2>2 DEF CaseInv, DisputeInv
      <4>2. \A n \in 1..settlement.held : ~ResolveWithRefund(n)
        BY <4>1 DEF ResolveWithRefund
      <4>3. \A r \in Reasons : ~FinalizeSettlementRefund(r)
        <5> SUFFICES ASSUME NEW r \in Reasons, FinalizeSettlementRefund(r) PROVE FALSE
          OBVIOUS
        <5>1. r = Cancellation /\ batches[Cancellation].status = "completed"
          BY <4>1, WhatFinalizes
        <5>2. outbox[Cancelled].ran >= 2 /\ outbox[Cancelled].ran = 0
          BY <2>2, <5>1 DEF OnceInv
        <5> QED
          BY <5>2
      <4> QED
        BY <2>2, <4>2, <4>3, SettlementSteps
    <3>2. \E e \in Endings : CanRun(e, 1) /\ outbox' = Ran(outbox, e, 1)
      BY <1>2, <3>1 DEF StartSettlementWindow, StartNoShowWindow, PrepareCancellationRefund
    <3>3. PICK e \in Endings : CanRun(e, 1) /\ outbox' = Ran(outbox, e, 1)
      BY <3>2
    <3>4. e \in Events
      BY <1>2
    <3>5. outbox'[e].ran = 1
      BY <3>3, <3>4, FirstHandler
    <3> QED
      BY <3>5
  <2> QED
    BY <2>1, <2>2
<1>13. settlement'.status = "held" => outbox'[Cancelled].ran = 0
  <2> SUFFICES ASSUME settlement'.status = "held", outbox'[Cancelled].ran # 0 PROVE FALSE
    OBVIOUS
  <2>1. settlement.status = "held"
    BY SettlementSteps
  <2>2. outbox[Cancelled].ran = 0
    BY <2>1 DEF OnceInv
  <2>3. PrepareCancellationRefund
    <3>1. Commits(Cancelled, 1)
      BY <1>2, <1>4, <2>2 DEF Commits
    <3> QED
      BY <3>1, Committers
  <2> DEFINE service == Less(refundDue, Security)
             row == Frozen(settlement, service)
  <2>4. service \in Nat
    BY <1>1, AmountTypes
  <2>5. CASE service = 0
    <3>1. settlement' = Window(settlement, "cancellation_fee", 0)
      BY <2>1, <2>3, <2>5 DEF PrepareCancellationRefund
    <3> QED
      BY <1>1, <3>1, WindowFields DEF Kinds
  <2>6. CASE service # 0
    <3>1. settlement' = IF row = settlement THEN row ELSE [row EXCEPT !.kind = "cancellation_fee"]
      BY <2>1, <2>3, <2>6 DEF PrepareCancellationRefund
    <3>2. row.status = "refund_pending" /\ row \in SettlementRow
      BY <1>1, <2>1, <2>4, FrozenFields, FrozenTypes
    <3> HIDE DEF row
    <3>3. settlement'.status = row.status
      BY <3>1, <3>2 DEF SettlementRow
    <3> QED
      BY <3>2, <3>3
  <2> QED
    BY <2>5, <2>6
<1> QED
  BY <1>5, <1>7, <1>8, <1>10, <1>11, <1>12, <1>13 DEF OnceInv, Absent, Announced

(* The account of a day without retries, for every other constant.         *)
LEMMA OnceInvariant == Once => (Spec => []OnceInv)
<1> SUFFICES ASSUME Once PROVE Spec => []OnceInv
  OBVIOUS
<1>1. ASSUME Init PROVE OnceInv
  <2>1. \A e \in Events : Absent(e) /\ outbox[e].ran = 0
    BY <1>1 DEF Init, Absent
  <2>2. \A r \in Reasons : batches[r].status = "none" /\ r # "none"
    BY <1>1 DEF Init, Reasons, Cancellation, SecurityRefund, DisputeRefund
  <2> QED
    BY <1>1, <2>1, <2>2, EventTypes DEF Init, OnceInv
<1>2. TypeInv /\ RelayInv /\ RefundInv /\ CaseInv /\ CaseInv' /\ OnceInv /\ [Next]_vars => OnceInv'
  BY OnceStep
<1> QED
  BY <1>1, <1>2, TypeInvariant, RelayInvariant, RefundInvariant, CaseInvariant, PTL DEF Spec

(* RefundPendingIsBacked on a day without retries, in whatever order the   *)
(* events are handled, and however many are given up: what freezes custody *)
(* is a refund that is still under way, or somebody has to look at it.     *)
THEOREM RefundsInWaitAreBacked == Once => (Spec => []RefundPendingIsBacked)
<1> SUFFICES ASSUME Once PROVE Spec => []RefundPendingIsBacked
  OBVIOUS
<1>1. TypeInv /\ RelayInv /\ RefundInv /\ CaseInv /\ OnceInv => RefundPendingIsBacked
  <2> SUFFICES ASSUME TypeInv, RelayInv, RefundInv, CaseInv, OnceInv,
                      settlement.status = "refund_pending"
               PROVE  RefundPendingIsBacked
    BY DEF RefundPendingIsBacked
  <2>1. /\ Cancelled \in Events /\ RefundRequested \in Events
        /\ {Cancellation, DisputeRefund} \subseteq Reasons
        /\ \A r \in Reasons : RefundCompleted(r) \in Events
                              /\ batches[r].status \in {"none", "processing", "completed", "failed"}
        /\ \A e \in Events : outbox[e].state \in {"absent", "pending", "processed", "dead"}
                             /\ outbox[e].ran \in Nat
        /\ refundDue \in Nat /\ Security \in Nat
    <3>1. outbox \in [Events -> OutboxRow] /\ batches \in [Reasons -> BatchRow]
          /\ refundDue \in Nat /\ Security \in Nat
      BY MoneyAssumption DEF TypeInv, TypeOK
    <3>2. \A e \in Events : outbox[e].state \in {"absent", "pending", "processed", "dead"}
                             /\ outbox[e].ran \in Nat
      BY <3>1 DEF OutboxRow
    <3>3. \A r \in Reasons : batches[r].status \in {"none", "processing", "completed", "failed"}
      BY <3>1 DEF BatchRow
    <3> QED
      BY <3>1, <3>2, <3>3, EventTypes
  <2>2. ASSUME NEW r \in Reasons, batches[r].status # "none", outbox[RefundCompleted(r)].ran = 0
        PROVE  RefundPendingIsBacked
    <3>1. CASE batches[r].status # "completed"
      BY <2>1, <2>2, <3>1 DEF RefundPendingIsBacked
    <3>2. CASE batches[r].status = "completed"
      <4>1. outbox[RefundCompleted(r)].state # "absent"
        BY <3>2 DEF CaseInv, DisputeInv, Absent
      <4>2. outbox[RefundCompleted(r)].state # "processed"
        BY <2>1, <2>2, HandlerCounts DEF RelayInv, RanInv
      <4>3. outbox[RefundCompleted(r)].state \in {"pending", "dead"}
        BY <2>1, <4>1, <4>2
      <4> QED
        BY <2>2, <4>3 DEF RefundPendingIsBacked
    <3> QED
      BY <3>1, <3>2
  <2>3. CASE CancellationDue
    <3>1. CASE outbox[Cancelled].state \in {"pending", "dead"}
      BY <3>1 DEF RefundPendingIsBacked
    <3>2. CASE outbox[Cancelled].state \notin {"pending", "dead"}
      <4>1. outbox[Cancelled].state = "processed"
        BY <2>1, <2>3, <3>2 DEF RelayInv, RanInv, CancellationDue
      <4>2. outbox[Cancelled].ran = 2
        BY <2>1, <4>1, HandlerCounts DEF RelayInv, RanInv
      <4>3. refundDue # 0
        BY <2>1, <2>3 DEF CancellationDue
      <4>4. batches[Cancellation].status # "none"
        BY <4>2, <4>3 DEF OnceInv
      <4> QED
        BY <2>1, <2>2, <2>3, <4>4 DEF CancellationDue
    <3> QED
      BY <3>1, <3>2
  <2>4. CASE DisputeDue
    <3>1. CASE outbox[RefundRequested].state \in {"pending", "dead"}
      BY <3>1 DEF RefundPendingIsBacked
    <3>2. CASE outbox[RefundRequested].state \notin {"pending", "dead"}
      <4>1. ~Absent(RefundRequested)
        BY <2>4 DEF CaseInv, DisputeInv, DisputeDue
      <4>2. outbox[RefundRequested].state = "processed"
        BY <2>1, <3>2, <4>1 DEF Absent
      <4>3. outbox[RefundRequested].ran = 1
        BY <2>1, <4>2, HandlerCounts DEF RelayInv, RanInv
      <4>4. batches[DisputeRefund].status # "none"
        BY <4>3 DEF CaseInv, DisputeInv
      <4> QED
        BY <2>1, <2>2, <2>4, <4>4 DEF DisputeDue
    <3> QED
      BY <3>1, <3>2
  <2> QED
    BY <2>3, <2>4 DEF OnceInv
<1> QED
  BY <1>1, TypeInvariant, RelayInvariant, RefundInvariant, CaseInvariant, OnceInvariant, PTL

-----------------------------------------------------------------------------
(* What was paid is held, and no cancellation promises more than that.     *)

(* The customer's share of an amount never exceeds the amount.             *)
LEMMA ShareBound ==
    ASSUME NEW n \in Nat, NEW percent \in 0..100
    PROVE  (n * percent) \div 100 \in 0..n
<1> DEFINE k == n * percent
<1>1. k \in Nat /\ k <= n * 100
  OBVIOUS
<1> HIDE DEF k
<1>2. k \div 100 \in 0..n
  BY <1>1
<1> QED
  BY <1>2 DEF k

(* A share of at least one hundredth is at least one.                      *)
LEMMA ShareIsWhole ==
    ASSUME NEW n \in Nat, NEW m \in Nat, m <= n, NEW percent \in 0..100, m * percent >= 100
    PROVE  (n * percent) \div 100 >= 1
<1> DEFINE k == n * percent
<1>1. k \in Nat /\ k >= 100
  <2>1. n * percent >= m * percent
    OBVIOUS
  <2> QED
    BY <2>1
<1> HIDE DEF k
<1>2. k \div 100 >= 1
  BY <1>1
<1> QED
  BY <1>2 DEF k

(* What is recorded as paid is at least the first payment and is held; a   *)
(* refund is due of no more than that; a balance payment that was handled  *)
(* has been counted.                                                       *)
PaidInv ==
    /\ Deposit <= paid /\ paid <= settlement.held
    /\ refundDue <= settlement.held + Security
    /\ outbox[BalancePaid].ran >= 1 => settlement.held = Final

(* Custody only grows, to the whole price.                                 *)
LEMMA HeldGrows ==
    ASSUME TypeInv, RelayInv, CaseInv, [Next]_vars
    PROVE  /\ settlement.held <= settlement'.held /\ settlement.held \in Nat
           /\ RecordHeldSettlement => settlement'.held = Final
           /\ settlement.held = Final => settlement'.held = Final
<1>1. /\ settlement \in SettlementRow /\ settlement.held \in Nat
      /\ settlement.held \in {Deposit, Final}
  BY DEF TypeInv, TypeOK, SettlementRow, CaseInv, EndingInv
<1>2. ASSUME RecordHeldSettlement PROVE settlement'.held = Final
  <2>1. balance = "succeeded"
    BY <1>2 DEF RecordHeldSettlement, CanRun, RelayInv, CauseInv, Absent
  <2>2. settlement'.held = Captured - Security
    BY <1>1, <1>2 DEF RecordHeldSettlement, SettlementRow
  <2> QED
    BY <2>1, <2>2, MoneyAssumption DEF Captured
<1> QED
  BY <1>1, <1>2, HeldKept, MoneyAssumption

(* Every step keeps what was paid in custody.                              *)
LEMMA PaidStep ==
    ASSUME TypeInv, RelayInv, RefundInv, CaseInv, PaidInv, [Next]_vars
    PROVE  PaidInv'
<1>1. /\ Deposit \in Nat /\ Final \in Nat /\ Security \in Nat /\ paid \in Nat /\ refundDue \in Nat
      /\ Deposit <= Final /\ settlement.held \in Nat
      /\ outbox \in [Events -> OutboxRow] /\ BalancePaid \in Events
      /\ outbox[BalancePaid].ran \in Nat
  BY EventTypes, MoneyAssumption DEF TypeInv, TypeOK, SettlementRow, OutboxRow
<1>2. /\ settlement.held <= settlement'.held /\ settlement'.held \in Nat
      /\ RecordHeldSettlement => settlement'.held = Final
      /\ settlement.held = Final => settlement'.held = Final
  <2>1. settlement'.held \in {Deposit, Final}
    BY EndingStep DEF CaseInv, EndingInv
  <2> QED
    BY <1>1, <2>1, HeldGrows
<1>3. Deposit <= paid' /\ paid' <= settlement'.held
  <2>1. CASE paid' = paid
    BY <1>1, <1>2, <2>1 DEF PaidInv
  <2>2. CASE RecordBalancePayment
    <3>1. outbox[BalancePaid].ran >= 1
      BY <1>1, <2>2 DEF RecordBalancePayment, CanRun
    <3>2. settlement'.held = Final
      BY <1>2, <3>1 DEF PaidInv
    <3>3. paid' \in {paid, Final}
      BY <2>2 DEF RecordBalancePayment
    <3> QED
      BY <1>1, <1>2, <3>2, <3>3 DEF PaidInv
  <2> QED
    BY <2>1, <2>2, Writers
<1>4. refundDue' <= settlement'.held + Security
  <2>1. CASE refundDue' = refundDue
    BY <1>1, <1>2, <2>1 DEF PaidInv
  <2>2. ASSUME NEW percent \in RefundPercents \cup {100}, CancelBooking(percent)
        PROVE  refundDue' <= settlement'.held + Security
    <3>1. percent \in 0..100
      BY MoneyAssumption
    <3> DEFINE share == (paid * percent) \div 100
    <3>2. share \in 0..paid
      BY <1>1, <3>1, ShareBound
    <3>3. refundDue' = share + Security
      BY <2>2 DEF CancelBooking
    <3> HIDE DEF share
    <3> QED
      BY <1>1, <1>2, <3>2, <3>3 DEF PaidInv
  <2> QED
    BY <2>1, <2>2, Writers
<1>5. outbox'[BalancePaid].ran >= 1 => settlement'.held = Final
  <2> SUFFICES ASSUME outbox'[BalancePaid].ran >= 1, outbox[BalancePaid].ran = 0,
                      ~RecordHeldSettlement
               PROVE  FALSE
    BY <1>1, <1>2 DEF PaidInv
  <2>1. WritesRow(BalancePaid)
    <3>1. outbox'[BalancePaid] # outbox[BalancePaid]
      BY <1>1
    <3> QED
      BY <1>1, <3>1, RowWriters
  <2>2. ~BalanceSucceeds
    <3>1. BalanceSucceeds => outbox'[BalancePaid] = [state |-> "pending", ran |-> 0]
      BY <1>1, EmitRows DEF BalanceSucceeds
    <3> QED
      BY <3>1
  <2>3. ~RecordBalancePayment
    BY <1>1 DEF RecordBalancePayment, CanRun
  <2>4. ~MarkProcessed(BalancePaid) /\ ~DeadLetter(BalancePaid)
    BY <1>1 DEF MarkProcessed, DeadLetter, OutboxRow
  <2> QED
    BY <2>1, <2>2, <2>3, <2>4, EventNames, EventTypes DEF WritesRow
<1> QED
  BY <1>3, <1>4, <1>5 DEF PaidInv

(* What was paid is held throughout, for every constant.                   *)
LEMMA PaidInvariant == Spec => []PaidInv
<1>1. ASSUME Init PROVE PaidInv
  BY <1>1, EventTypes, MoneyAssumption DEF Init, PaidInv
<1>2. TypeInv /\ RelayInv /\ RefundInv /\ CaseInv /\ PaidInv /\ [Next]_vars => PaidInv'
  BY PaidStep
<1> QED
  BY <1>1, <1>2, TypeInvariant, RelayInvariant, RefundInvariant, CaseInvariant, PTL DEF Spec

(* A policy that refunds nothing of the service is told from one that      *)
(* refunds some of it by the amount alone, so with a security deposit no   *)
(* cancellation may refund zero: the theorems below ask for that.          *)
FeesAreWhole == Security = 0 \/ \A percent \in RefundPercents : Deposit * percent >= 100
WholeInv == refundDue # 0 => refundDue > Security

(* A cancellation that refunds anything refunds some of the service.       *)
LEMMA WholeInvariant == FeesAreWhole => (Spec => []WholeInv)
<1> SUFFICES ASSUME FeesAreWhole PROVE Spec => []WholeInv
  OBVIOUS
<1>1. Init => WholeInv
  BY DEF Init, WholeInv
<1>2. TypeInv /\ PaidInv /\ WholeInv /\ [Next]_vars => WholeInv'
  <2> SUFFICES ASSUME TypeInv, PaidInv, WholeInv, [Next]_vars PROVE WholeInv'
    OBVIOUS
  <2>1. /\ Deposit \in Nat \ {0} /\ Security \in Nat /\ paid \in Nat /\ Deposit <= paid
        /\ refundDue \in Nat
    BY MoneyAssumption DEF TypeInv, TypeOK, PaidInv
  <2>2. ASSUME NEW percent \in RefundPercents \cup {100}, CancelBooking(percent)
        PROVE  refundDue' = 0 \/ refundDue' > Security
    <3>1. percent \in 0..100
      BY MoneyAssumption
    <3> DEFINE share == (paid * percent) \div 100
    <3>2. share \in Nat
      BY <2>1, <3>1, PercentTypes
    <3>3. Security # 0 => share >= 1
      <4>1. Security # 0 => Deposit * percent >= 100
        BY <2>1 DEF FeesAreWhole
      <4> QED
        BY <2>1, <3>1, <4>1, ShareIsWhole
    <3>4. refundDue' = share + Security
      BY <2>2 DEF CancelBooking
    <3> HIDE DEF share
    <3> QED
      BY <2>1, <3>2, <3>3, <3>4
  <2> QED
    BY <2>2, Writers DEF WholeInv
<1> QED
  BY <1>1, <1>2, TypeInvariant, PaidInvariant, PTL DEF Spec

-----------------------------------------------------------------------------
(* What custody has promised back: the cancellation's share from its first *)
(* handler on, and what the tenant granted in a dispute.                   *)
Promised == (IF outbox[Cancelled].ran >= 1 THEN Less(refundDue, Security) ELSE 0)
            + dispute.refund

(* With every handler once and whole fees, a due refund and an open        *)
(* dispute keep the settlement where they put it, a cancelled booking has  *)
(* no dispute, and refunded_amount is what has been promised.              *)
FreezeInv ==
    /\ CancellationDue => dispute.status = "none" /\ settlement.status = "refund_pending"
    /\ DisputeDue => settlement.status = "refund_pending"
    /\ dispute.status = "open" => settlement.status = "disputed"
    /\ settlement.refunded = Promised /\ Promised <= settlement.held

DayInv == TypeInv /\ RelayInv /\ RefundInv /\ CaseInv /\ OnceInv /\ PaidInv /\ WholeInv

(* The cancellation's first handler finds the money still in custody, with *)
(* no dispute about it: no other ending can have run.                      *)
LEMMA CancellationFindsCustody ==
    ASSUME Once, DayInv, [Next]_vars, PrepareCancellationRefund
    PROVE  settlement.status = "held" /\ dispute.status = "none" /\ dispute.refund = 0
<1>1. outbox[Cancelled].ran = 0 /\ ~Absent(Cancelled)
  BY DueSteps DEF DayInv, PrepareCancellationRefund, CanRun, Absent
<1>2. ASSUME NEW e \in Endings, outbox[e].ran >= 1 PROVE FALSE
  <2>1. e # Cancelled
    BY <1>1, <1>2
  <2>2. Absent(e)
    BY <1>1, <2>1 DEF DayInv, CaseInv, EndingInv, Endings
  <2>3. e \in Events
    BY EventTypes DEF Endings
  <2> QED
    BY <1>2, <2>2, <2>3 DEF DayInv, RelayInv, RanInv, Absent
<1>3. settlement.status = "held"
  BY <1>2 DEF DayInv, OnceInv
<1> QED
  BY <1>3 DEF DayInv, CaseInv, DisputeInv

(* A refund that finance finalizes is due.                                 *)
LEMMA FinalizedWasDue ==
    ASSUME Once, DayInv, [Next]_vars, NEW r \in Reasons, FinalizeSettlementRefund(r)
    PROVE  \/ r = Cancellation /\ CancellationDue /\ batches[r].amount = refundDue
           \/ r = DisputeRefund /\ DisputeDue
<1>1. /\ batches[r].status = "completed"
      /\ r = Cancellation \/ (r = DisputeRefund /\ dispute.status = "accepted")
  BY WhatFinalizes DEF DayInv
<1>2. outbox[RefundCompleted(r)].ran = 0
  BY DueSteps DEF DayInv
<1>3. CASE r = DisputeRefund /\ dispute.status = "accepted"
  BY <1>2, <1>3 DEF DisputeDue
<1>4. CASE r = Cancellation
  <2>1. outbox[Cancelled].ran >= 2 /\ refundDue # 0 /\ batches[Cancellation].amount = refundDue
    BY <1>1, <1>4 DEF DayInv, OnceInv
  <2>2. outbox[Cancelled].ran >= 1
    BY <2>1, EventTypes DEF DayInv, TypeInv, TypeOK, OutboxRow
  <2> QED
    BY <1>2, <1>4, <2>1, <2>2 DEF CancellationDue, DayInv, WholeInv
<1> QED
  BY <1>1, <1>3, <1>4

(* Only the cancellation's first handler and a granted refund promise.     *)
LEMMA PromiseSteps ==
    ASSUME Once, DayInv, [Next]_vars
    PROVE  /\ \/ Promised' = Promised
              \/ /\ PrepareCancellationRefund
                 /\ Promised' = Less(refundDue, Security) + dispute.refund
                 /\ Promised = dispute.refund
              \/ \E n \in 1..settlement.held :
                   ResolveWithRefund(n) /\ dispute.refund = 0 /\ Promised' = Promised + n
           /\ Promised \in Nat
<1>1. /\ refundDue \in Nat /\ Security \in Nat /\ dispute.refund \in Nat
      /\ outbox \in [Events -> OutboxRow] /\ Cancelled \in Events /\ RefundRequested \in Events
      /\ outbox[Cancelled].ran \in Nat /\ settlement.held \in Nat
      /\ Cancelled \in Counted
  BY EventTypes, MoneyAssumption
  DEF DayInv, TypeInv, TypeOK, OutboxRow, DisputeRow, SettlementRow, Counted, Endings
<1>2. Promised \in Nat
  <2>1. Less(refundDue, Security) \in Nat
    BY <1>1, AmountTypes
  <2> QED
    BY <1>1, <2>1 DEF Promised
<1>3. CASE PrepareCancellationRefund
  <2>1. outbox[Cancelled].ran = 0 /\ outbox'[Cancelled].ran = 1 /\ refundDue' = refundDue
    BY <1>3, DueSteps DEF DayInv
  <2>2. dispute' = dispute
    BY <1>3 DEF PrepareCancellationRefund
  <2>3. Promised = dispute.refund /\ Promised' = Less(refundDue, Security) + dispute.refund
    BY <1>1, <2>1, <2>2 DEF Promised
  <2> QED
    BY <1>2, <1>3, <2>3
<1>4. ASSUME NEW n \in 1..settlement.held, ResolveWithRefund(n)
      PROVE  dispute.refund = 0 /\ Promised' = Promised + n
  <2>1. dispute.refund = 0
    BY <1>4 DEF ResolveWithRefund, DayInv, CaseInv, DisputeInv
  <2>2. outbox'[Cancelled] = outbox[Cancelled]
    <3>1. Cancelled # RefundRequested
      BY EventNames
    <3> QED
      BY <1>1, <1>4, <3>1, OneRow DEF ResolveWithRefund
  <2>3. refundDue' = refundDue /\ dispute'.refund = n
    BY <1>4 DEF ResolveWithRefund, bookingVars
  <2>4. Less(refundDue, Security) \in Nat
    BY <1>1, AmountTypes
  <2> QED
    BY <1>1, <2>1, <2>2, <2>3, <2>4 DEF Promised
<1>5. ASSUME ~PrepareCancellationRefund, \A n \in 1..settlement.held : ~ResolveWithRefund(n)
      PROVE  Promised' = Promised
  <2>1. dispute'.refund = dispute.refund
    BY <1>5, DisputeSteps DEF DayInv
  <2>2. (outbox'[Cancelled].ran >= 1) <=> (outbox[Cancelled].ran >= 1)
    <3>1. ~Commits(Cancelled, 1)
      BY <1>5, Committers DEF DayInv
    <3>2. outbox[Cancelled].ran <= outbox'[Cancelled].ran
      BY <1>1, CountsGrow DEF DayInv
    <3>3. outbox'[Cancelled].ran \in Nat
      <4>1. Moves(Cancelled) /\ Handlers(Cancelled) \in Nat
        BY <1>1, RelaySteps, HandlerCounts DEF DayInv
      <4> QED
        BY <1>1, <4>1 DEF Moves
    <3> QED
      BY <1>1, <3>1, <3>2, <3>3 DEF Commits
  <2>3. outbox[Cancelled].ran >= 1 => refundDue' = refundDue
    <3>1. refundDue' # refundDue => Absent(Cancelled)
      BY Writers DEF DayInv, CancelBooking, RelayInv, CauseInv, Endings
    <3>2. Absent(Cancelled) => outbox[Cancelled].ran = 0
      BY <1>1 DEF DayInv, RelayInv, RanInv, Absent
    <3> QED
      BY <3>1, <3>2
  <2> QED
    BY <2>1, <2>2, <2>3 DEF Promised
<1> QED
  BY <1>2, <1>3, <1>4, <1>5

(* What the steps do to the status and the amount, with every handler once: *)
(* a cancellation freezes custody or opens the window, a granted refund    *)
(* freezes a disputed settlement, and finalizing a refund that was due     *)
(* changes no amount.                                                      *)
LEMMA FreezeSteps ==
    ASSUME Once, DayInv, FreezeInv, [Next]_vars
    PROVE  /\ settlement'.refunded = Promised'
           /\ Promised' <= settlement'.held
           /\ \A r \in Reasons : FinalizeSettlementRefund(r) =>
                settlement.status = "refund_pending" /\ FinalRefunded(r) = settlement.refunded
<1>1. /\ settlement \in SettlementRow /\ settlement.held \in Nat /\ settlement.refunded \in Nat
      /\ refundDue \in Nat /\ Security \in Nat /\ Promised \in Nat
      /\ Less(refundDue, Security) \in Nat /\ Less(refundDue, Security) <= settlement.held
      /\ settlement.refunded = Promised /\ Promised <= settlement.held
  <2>1. /\ settlement \in SettlementRow /\ settlement.held \in Nat /\ settlement.refunded \in Nat
        /\ refundDue \in Nat /\ Security \in Nat /\ refundDue <= settlement.held + Security
    BY MoneyAssumption DEF DayInv, TypeInv, TypeOK, SettlementRow, PaidInv
  <2> QED
    BY <2>1, PromiseSteps DEF Less, FreezeInv
<1>2. settlement.held <= settlement'.held /\ settlement'.held \in Nat
  <2>1. settlement'.held \in {Deposit, Final}
    BY EndingStep DEF DayInv, CaseInv, EndingInv
  <2> QED
    BY <2>1, HeldGrows, MoneyAssumption DEF DayInv
<1>3. ASSUME NEW r \in Reasons, FinalizeSettlementRefund(r)
      PROVE  /\ settlement.status = "refund_pending" /\ FinalRefunded(r) = settlement.refunded
             /\ settlement'.refunded = settlement.refunded
  <2>1. settlement.status = "refund_pending" /\ FinalRefunded(r) = settlement.refunded
    <3>1. CASE r = Cancellation /\ CancellationDue /\ batches[r].amount = refundDue
      <4>1. settlement.status = "refund_pending" /\ dispute.refund = 0
        BY <3>1 DEF FreezeInv, DayInv, CaseInv, DisputeInv
      <4>2. FinalRefunded(r) = Less(refundDue, Security)
        BY <3>1 DEF FinalRefunded, Cancellation, DisputeRefund
      <4>3. Promised = Less(refundDue, Security) + 0
        BY <3>1, <4>1 DEF Promised, CancellationDue
      <4> QED
        BY <1>1, <4>1, <4>2, <4>3
    <3>2. CASE r = DisputeRefund /\ DisputeDue
      <4>1. settlement.status = "refund_pending"
        BY <3>2 DEF FreezeInv
      <4>2. DisputeRefund # Cancellation
        BY DEF DisputeRefund, Cancellation
      <4> QED
        BY <3>2, <4>1, <4>2 DEF FinalRefunded
    <3> QED
      BY <1>3, <3>1, <3>2, FinalizedWasDue
  <2>2. settlement'.refunded = settlement.refunded
    <3>1. Least(FinalRefunded(r), settlement.held) = settlement.refunded
      BY <1>1, <2>1 DEF Least
    <3>2. settlement' = Finalized(settlement, r, FinalRefunded(r)) /\ FinalRefunded(r) \in Nat
      <4>1. settlement.refundId # r
        BY <1>3, DueSteps DEF DayInv
      <4> QED
        BY <1>1, <1>3, <2>1, <4>1 DEF FinalizeSettlementRefund
    <3> QED
      BY <1>1, <2>1, <3>1, <3>2, FinalizedFields
  <2> QED
    BY <2>1, <2>2
<1>4. settlement'.refunded = Promised' /\ Promised' <= settlement'.held
  <2>1. CASE PrepareCancellationRefund
    <3>1. settlement.status = "held" /\ dispute.refund = 0
      BY <2>1, CancellationFindsCustody
    <3>2. Promised = 0 /\ Promised' = Less(refundDue, Security)
      <4>1. outbox[Cancelled].ran = 0 /\ outbox'[Cancelled].ran = 1 /\ refundDue' = refundDue
            /\ dispute' = dispute
        BY <2>1, DueSteps DEF DayInv, PrepareCancellationRefund
      <4> QED
        BY <1>1, <3>1, <4>1 DEF Promised
    <3>3. settlement'.refunded = Less(refundDue, Security)
      <4> DEFINE service == Less(refundDue, Security)
                 row == Frozen(settlement, service)
      <4>1. CASE service = 0
        <5>1. settlement' = Window(settlement, "cancellation_fee", 0)
          BY <2>1, <3>1, <4>1 DEF PrepareCancellationRefund
        <5> QED
          BY <1>1, <3>2, <4>1, <5>1, WindowFields DEF Kinds
      <4>2. CASE service # 0
        <5>1. settlement' = IF row = settlement THEN row
                            ELSE [row EXCEPT !.kind = "cancellation_fee"]
          BY <2>1, <3>1, <4>2 DEF PrepareCancellationRefund
        <5>2. row.refunded = Least(service, settlement.held) /\ row \in SettlementRow
          BY <1>1, <3>1, FrozenFields, FrozenTypes
        <5>3. row.refunded = service
          BY <1>1, <5>2 DEF Least
        <5> HIDE DEF row
        <5>4. settlement'.refunded = row.refunded
          BY <5>1, <5>2 DEF SettlementRow
        <5> QED
          BY <5>3, <5>4
      <4> QED
        BY <4>1, <4>2
    <3> QED
      BY <1>1, <1>2, <3>2, <3>3
  <2>2. ASSUME NEW n \in 1..settlement.held, ResolveWithRefund(n)
        PROVE  settlement'.refunded = Promised' /\ Promised' <= settlement'.held
    <3>1. settlement' = Frozen(settlement, settlement.refunded + n)
          /\ n <= Less(settlement.held, settlement.refunded)
          /\ settlement.status = "disputed"
      BY <2>2 DEF ResolveWithRefund, FreezeInv
    <3>2. settlement.refunded + n \in Nat /\ settlement.refunded + n <= settlement.held
      BY <1>1, <3>1 DEF Less
    <3>3. settlement'.refunded = settlement.refunded + n
      <4>1. settlement'.refunded = Least(settlement.refunded + n, settlement.held)
        BY <1>1, <3>1, <3>2, FrozenFields
      <4> QED
        BY <1>1, <3>2, <4>1 DEF Least
    <3>4. Promised' = Promised + n
      <4>1. dispute.refund = 0 /\ dispute'.refund = n
        BY <2>2 DEF ResolveWithRefund, DayInv, CaseInv, DisputeInv
      <4>2. outbox'[Cancelled] = outbox[Cancelled]
        <5>1. /\ outbox \in [Events -> OutboxRow] /\ Cancelled \in Events
              /\ RefundRequested \in Events /\ Cancelled # RefundRequested
          BY EventTypes, EventNames DEF DayInv, TypeInv, TypeOK
        <5> QED
          BY <2>2, <5>1, OneRow DEF ResolveWithRefund
      <4>3. refundDue' = refundDue
        BY <2>2 DEF ResolveWithRefund, bookingVars
      <4> QED
        BY <1>1, <4>1, <4>2, <4>3 DEF Promised
    <3> QED
      BY <1>1, <1>2, <3>2, <3>3, <3>4
  <2>3. ASSUME ~PrepareCancellationRefund, \A n \in 1..settlement.held : ~ResolveWithRefund(n)
        PROVE  settlement'.refunded = Promised' /\ Promised' <= settlement'.held
    <3>1. Promised' = Promised
      BY <2>3, PromiseSteps
    <3>2. settlement'.refunded = settlement.refunded
      BY <1>3, <2>3, SettlementSteps DEF DayInv, Same
    <3> QED
      BY <1>1, <1>2, <3>1, <3>2
  <2> QED
    BY <2>1, <2>2, <2>3
<1> QED
  BY <1>3, <1>4

(* Every step keeps what is due frozen and what is promised counted.       *)
LEMMA FreezeStep ==
    ASSUME Once, DayInv, FreezeInv, [Next]_vars
    PROVE  FreezeInv'
<1>1. settlement'.refunded = Promised' /\ Promised' <= settlement'.held
  BY FreezeSteps
<1>2. settlement \in SettlementRow /\ refundDue \in Nat /\ Security \in Nat
      /\ settlement.held \in Nat /\ settlement.refunded \in Nat
      /\ {Cancellation, DisputeRefund} \subseteq Reasons
  BY EventTypes, MoneyAssumption DEF DayInv, TypeInv, TypeOK, SettlementRow
<1>3. ASSUME settlement.status = "refund_pending", \A r \in Reasons : ~FinalizeSettlementRefund(r)
      PROVE  settlement'.status = "refund_pending"
  BY <1>3, SettlementSteps DEF DayInv
<1>4. ASSUME CancellationDue'
      PROVE  dispute'.status = "none" /\ settlement'.status = "refund_pending"
  <2>1. CASE CancellationDue
    <3>1. dispute.status = "none" /\ settlement.status = "refund_pending"
      BY <2>1 DEF FreezeInv
    <3>2. ~FinalizeSettlementRefund(Cancellation)
      <4>1. outbox'[RefundCompleted(Cancellation)].ran = 0
        BY <1>4 DEF CancellationDue
      <4> QED
        BY <1>2, <4>1, DueSteps DEF DayInv
    <3>3. \A r \in Reasons : ~FinalizeSettlementRefund(r)
      BY <3>1, <3>2, FinalizedWasDue DEF DisputeDue
    <3>4. dispute' = dispute
      BY <3>1, DisputeSteps DEF DayInv, OpenSettlementDispute
    <3> QED
      BY <1>3, <3>1, <3>3, <3>4
  <2>2. CASE PrepareCancellationRefund
    <3> DEFINE service == Less(refundDue, Security)
               row == Frozen(settlement, service)
    <3>1. settlement.status = "held" /\ dispute.status = "none"
      BY <2>2, CancellationFindsCustody
    <3>2. service # 0 /\ service \in Nat
      <4>1. refundDue' = refundDue
        BY <2>2, DueSteps DEF DayInv
      <4> QED
        BY <1>2, <1>4, <4>1 DEF CancellationDue, Less
    <3>3. settlement' = IF row = settlement THEN row ELSE [row EXCEPT !.kind = "cancellation_fee"]
      BY <2>2, <3>1, <3>2 DEF PrepareCancellationRefund
    <3>4. row.status = "refund_pending" /\ row \in SettlementRow
      BY <1>2, <3>1, <3>2, FrozenFields, FrozenTypes
    <3> HIDE DEF row
    <3>5. settlement'.status = "refund_pending"
      BY <3>3, <3>4 DEF SettlementRow
    <3>6. dispute' = dispute
      BY <2>2 DEF PrepareCancellationRefund
    <3> QED
      BY <3>1, <3>5, <3>6
  <2> QED
    BY <1>4, <2>1, <2>2, DueSteps DEF DayInv
<1>5. ASSUME DisputeDue' PROVE settlement'.status = "refund_pending"
  <2>1. CASE DisputeDue
    <3>1. dispute.status = "accepted" /\ settlement.status = "refund_pending"
      BY <2>1 DEF FreezeInv, DisputeDue
    <3>2. ~FinalizeSettlementRefund(DisputeRefund)
      <4>1. outbox'[RefundCompleted(DisputeRefund)].ran = 0
        BY <1>5 DEF DisputeDue
      <4> QED
        BY <1>2, <4>1, DueSteps DEF DayInv
    <3>3. \A r \in Reasons : ~FinalizeSettlementRefund(r)
      BY <3>1, <3>2, FinalizedWasDue DEF FreezeInv
    <3> QED
      BY <1>3, <3>1, <3>3
  <2>2. ASSUME NEW n \in 1..settlement.held, ResolveWithRefund(n)
        PROVE  settlement'.status = "refund_pending"
    <3>1. settlement' = Frozen(settlement, settlement.refunded + n)
          /\ settlement.status = "disputed" /\ settlement.refunded + n \in Nat
      BY <1>2, <2>2 DEF ResolveWithRefund, FreezeInv
    <3> QED
      BY <1>2, <3>1, FrozenFields
  <2> QED
    BY <1>5, <2>1, <2>2, DueSteps DEF DayInv
<1>6. ASSUME dispute'.status = "open" PROVE settlement'.status = "disputed"
  <2>1. CASE OpenSettlementDispute
    BY <1>2, <2>1 DEF OpenSettlementDispute, SettlementRow
  <2>2. CASE dispute' = dispute
    <3>1. dispute.status = "open" /\ settlement.status = "disputed"
      BY <1>6, <2>2 DEF FreezeInv
    <3>2. ~PrepareCancellationRefund
      BY <3>1, CancellationFindsCustody
    <3>3. \A r \in Reasons : ~FinalizeSettlementRefund(r)
      BY <3>1, FinalizedWasDue DEF FreezeInv, DisputeDue
    <3>4. ~ResolveForRelease /\ \A n \in 1..settlement.held : ~ResolveWithRefund(n)
      BY <2>2, <3>1 DEF ResolveForRelease, ResolveWithRefund, DayInv, TypeInv, TypeOK, DisputeRow
    <3> QED
      BY <3>1, <3>2, <3>3, <3>4, SettlementSteps DEF DayInv
  <2> QED
    BY <1>6, <2>1, <2>2, DisputeSteps DEF DayInv
<1> QED
  BY <1>1, <1>4, <1>5, <1>6 DEF FreezeInv

(* The freeze holds throughout a day without retries, with whole fees.     *)
LEMMA FreezeInvariant ==
    Once /\ FeesAreWhole => (Spec => [](DayInv /\ FreezeInv))
<1> SUFFICES ASSUME Once, FeesAreWhole PROVE Spec => [](DayInv /\ FreezeInv)
  OBVIOUS
<1>1. ASSUME Init PROVE FreezeInv
  <2>1. /\ outbox[Cancelled].ran = 0 /\ dispute.refund = 0 /\ dispute.status = "none"
        /\ settlement.refunded = 0 /\ settlement.held = Deposit
    BY <1>1, EventTypes DEF Init
  <2> QED
    BY <2>1, MoneyAssumption DEF FreezeInv, CancellationDue, DisputeDue, Promised
<1>2. DayInv /\ FreezeInv /\ [Next]_vars => FreezeInv'
  BY FreezeStep
<1>3. TypeInv /\ RelayInv /\ RefundInv /\ CaseInv /\ OnceInv /\ PaidInv /\ WholeInv => DayInv
  BY DEF DayInv
<1> QED
  BY <1>1, <1>2, <1>3, TypeInvariant, RelayInvariant, RefundInvariant, CaseInvariant,
     OnceInvariant, PaidInvariant, WholeInvariant, PTL DEF Spec

(* DisputeFreezesPayout with every handler once and whole fees: an open    *)
(* dispute keeps the settlement in `disputed`, whatever else arrives.      *)
THEOREM DisputesFreeze == Once /\ FeesAreWhole => (Spec => []DisputeFreezesPayout)
<1> SUFFICES ASSUME Once, FeesAreWhole PROVE Spec => []DisputeFreezesPayout
  OBVIOUS
<1>1. FreezeInv => DisputeFreezesPayout
  BY DEF FreezeInv, DisputeFreezesPayout
<1> QED
  BY <1>1, FreezeInvariant, PTL

(* RefundsMatchCustody on the same day, when no refund is declined for     *)
(* good: once nothing is in flight, custody has promised back exactly what *)
(* the batches have paid back.                                             *)
THEOREM RefundedIsPaidBack ==
    Once /\ FeesAreWhole /\ ~RefundsMayFail => (Spec => []RefundsMatchCustody)
<1> SUFFICES ASSUME Once, FeesAreWhole, ~RefundsMayFail PROVE Spec => []RefundsMatchCustody
  OBVIOUS
<1>3. DayInv /\ FreezeInv /\ NoneFailed => RefundsMatchCustody
  <2> SUFFICES ASSUME DayInv, FreezeInv, NoneFailed, Quiet
               PROVE  settlement.refunded = ServicePaidBack
    BY DEF RefundsMatchCustody
  <2>1. /\ {Cancellation, DisputeRefund} \subseteq Reasons
        /\ Cancelled \in Events /\ RefundRequested \in Events
        /\ refundDue \in Nat /\ Security \in Nat /\ dispute.refund \in Nat
        /\ outbox[Cancelled].ran \in Nat
        /\ batches[Cancellation].amount \in Nat /\ batches[DisputeRefund].amount \in Nat
    <3>1. TypeOK /\ Cancelled \in Events
      BY EventTypes DEF DayInv, TypeInv
    <3>2. outbox[Cancelled].ran \in Nat
      <4>1. outbox[Cancelled] \in OutboxRow
        BY <3>1 DEF TypeOK
      <4> QED
        BY <4>1 DEF OutboxRow
    <3>3. batches[Cancellation].amount \in Nat /\ batches[DisputeRefund].amount \in Nat
      <4>1. {batches[Cancellation], batches[DisputeRefund]} \subseteq BatchRow
        BY <3>1, EventTypes DEF TypeOK
      <4> QED
        BY <4>1 DEF BatchRow
    <3>4. refundDue \in Nat /\ dispute.refund \in Nat
      BY <3>1 DEF TypeOK, DisputeRow
    <3> QED
      BY <3>2, <3>3, <3>4, EventTypes, MoneyAssumption
  <2>2. \A r \in {Cancellation, DisputeRefund} : batches[r].status \in {"none", "completed"}
    BY <2>1 DEF DayInv, TypeInv, TypeOK, BatchRow, NoneFailed, Quiet
  <2>3. \A e \in {Cancelled, RefundRequested} :
          outbox[e].state = "absent" \/ outbox[e].state = "processed"
    BY <2>1 DEF Quiet
  <2>4. Paidback(DisputeRefund) = dispute.refund
    <3>1. CASE dispute.status = "accepted"
      <4>1. outbox[RefundRequested].state = "processed"
        BY <2>3, <3>1 DEF DayInv, CaseInv, DisputeInv, Absent
      <4>2. outbox[RefundRequested].ran = 1
        BY <2>1, <4>1, HandlerCounts DEF DayInv, RelayInv, RanInv
      <4>3. batches[DisputeRefund].status = "completed"
        BY <2>2, <4>2 DEF DayInv, CaseInv, DisputeInv
      <4> QED
        BY <4>3 DEF DayInv, CaseInv, DisputeInv, Paidback
    <3>2. CASE dispute.status # "accepted"
      BY <3>2 DEF DayInv, CaseInv, DisputeInv, Paidback
    <3> QED
      BY <3>1, <3>2
  <2>5. Less(Paidback(Cancellation), Security)
          = IF outbox[Cancelled].ran >= 1 THEN Less(refundDue, Security) ELSE 0
    <3>1. CASE outbox[Cancelled].ran >= 1
      <4>1. outbox[Cancelled].state = "processed"
        BY <2>1, <2>3, <3>1 DEF DayInv, RelayInv, RanInv
      <4>2. outbox[Cancelled].ran = 2
        BY <2>1, <4>1, HandlerCounts DEF DayInv, RelayInv, RanInv
      <4>3. CASE refundDue # 0
        <5>1. batches[Cancellation].status = "completed" /\ batches[Cancellation].amount = refundDue
          BY <2>2, <4>2, <4>3 DEF DayInv, OnceInv
        <5> QED
          BY <3>1, <5>1 DEF Paidback
      <4>4. CASE refundDue = 0
        <5>1. batches[Cancellation].status = "none"
          BY <2>2, <4>4 DEF DayInv, OnceInv
        <5> QED
          BY <3>1, <4>4, <5>1 DEF Paidback
      <4> QED
        BY <4>3, <4>4
    <3>2. CASE ~(outbox[Cancelled].ran >= 1)
      <4>1. outbox[Cancelled].ran = 0
        BY <2>1, <3>2
      <4>2. batches[Cancellation].status = "none"
        BY <4>1 DEF DayInv, OnceInv
      <4> QED
        BY <2>1, <3>2, <4>2 DEF Paidback, Less
    <3> QED
      BY <3>1, <3>2
  <2> QED
    BY <2>4, <2>5 DEF FreezeInv, Promised, ServicePaidBack
<1> QED
  BY <1>3, FreezeInvariant, NoneFailedInvariant, PTL

-----------------------------------------------------------------------------
(* One relay or sweep at a time, and no balance to be paid online.         *)
Alone == \A v, w \in Workers : v = w
NoBalance == BalanceLinks => Deposit = Final

(* No balance is ever paid, so custody is what the first payment captured. *)
BalanceInv == balance = "none" /\ settlement.held = Deposit
LEMMA BalanceInvariant == NoBalance => (Spec => []BalanceInv)
<1> SUFFICES ASSUME NoBalance PROVE Spec => []BalanceInv
  OBVIOUS
<1>1. Init => BalanceInv
  BY DEF Init, BalanceInv
<1>2. TypeInv /\ RelayInv /\ PaidInv /\ BalanceInv /\ [Next]_vars => BalanceInv'
  <2> SUFFICES ASSUME TypeInv, RelayInv, PaidInv, BalanceInv, [Next]_vars PROVE BalanceInv'
    OBVIOUS
  <2>1. balance' = balance
    <3>1. ~BalanceSucceeds
      BY DEF BalanceSucceeds, BalanceInv
    <3>2. ~OpenBalanceLink
      BY MoneyAssumption DEF OpenBalanceLink, NoBalance, PaidInv, TypeInv, TypeOK
    <3> QED
      BY <3>1, <3>2, Writers
  <2>2. ~RecordHeldSettlement
    BY DEF RecordHeldSettlement, CanRun, RelayInv, CauseInv, Absent, BalanceInv
  <2> QED
    BY <2>1, <2>2, HeldKept DEF BalanceInv
<1> QED
  BY <1>1, <1>2, TypeInvariant, RelayInvariant, PaidInvariant, PTL DEF Spec

(* What a release that is under way may rely on.                           *)
PlanHolds(w) ==
    /\ settlement.status # "held"
    /\ settlement.status = "dispute_window" /\ txs[w].current =>
         txs[w].arg = settlement.held - settlement.refunded
    /\ HoldingDays = 0 =>
         settlement.status = "dispute_window" /\ (txs[w].event = Sweep => settlement.due)

(* Revenue stands exactly while the settlement is released, for what was   *)
(* not promised back; a window is open only while there is something left; *)
(* a fee keeps what is left; and a release under way that can still commit *)
(* plans just that.  A dispute may overtake it only where a holding period *)
(* has passed.                                                             *)
ReleaseInv ==
    /\ settlement.status # "released" => ledger = <<>>
    /\ settlement.status = "released" =>
         /\ Len(ledger) = 1 /\ ledger[1].type = "revenue"
         /\ ledger[1].cash = settlement.held - settlement.refunded
    /\ settlement.kind = "cancellation_fee" =>
         settlement.retained = settlement.held - settlement.refunded
    /\ settlement.status \in {"dispute_window", "disputed", "released"} =>
         settlement.refunded < settlement.held
    /\ \A w \in Workers :
         /\ txs[w].op # "clawback_write"
         /\ txs[w].op = "clawback_read" => settlement.status # "released"
         /\ txs[w].op = "release" => PlanHolds(w)

(* What a step does to a transaction, with one worker.                     *)
LEMMA TxSteps ==
    ASSUME Alone, TypeInv, [Next]_vars, NEW w \in Workers
    PROVE  \/ txs'[w].op = "idle"
           \/ /\ txs'[w].op = txs[w].op /\ txs'[w].arg = txs[w].arg
              /\ txs'[w].event = txs[w].event
              /\ txs[w].op = "release" /\ txs'[w].current => txs[w].current
              /\ \A v \in Workers : ~CommitRelease(v)
           \/ /\ settlement' = settlement /\ txs'[w].op = "release"
              /\ txs'[w].arg = ReleasePlan /\ settlement.status = "dispute_window"
              /\ txs'[w].event = Sweep => settlement.due
           \/ /\ settlement' = settlement /\ txs'[w].op = "clawback_read"
              /\ settlement.status # "released"
           \/ ReadClawbackEntries(w) /\ ActiveRevenue(ledger) # 0
<1>1. txs \in [Workers -> Transaction] /\ txs[w] \in Transaction
  BY DEF TypeInv, TypeOK
<1>2. Sweep # ReleaseRequested
  BY EventTypes
<1>3. CASE txs' = [txs EXCEPT ![w] = Idle]
  BY <1>1, <1>3 DEF Idle
<1>4. CASE UNCHANGED txs
  <2>1. ASSUME NEW v \in Workers, CommitRelease(v) PROVE txs'[w].op = "idle"
    <3>1. txs' = [txs EXCEPT ![v] = Idle]
      BY <2>1 DEF CommitRelease
    <3> QED
      BY <1>1, <3>1 DEF Alone, Idle
  <2> QED
    BY <1>4, <2>1
<1>5. ASSUME txs' = Outdated, \A v \in Workers : ~CommitRelease(v)
      PROVE  /\ txs'[w].op = txs[w].op /\ txs'[w].arg = txs[w].arg
             /\ txs'[w].event = txs[w].event
             /\ txs[w].op = "release" /\ txs'[w].current => txs[w].current
  <2>1. txs'[w] = [txs[w] EXCEPT !.current = txs[w].op # "release"]
    BY <1>5 DEF Outdated
  <2>2. txs[w].op = "release" => txs'[w].current = FALSE
    BY <1>1, <2>1 DEF Transaction
  <2> QED
    BY <1>1, <2>1, <2>2 DEF Transaction
<1>6. ASSUME NEW e, BeginRelease(w, e), e \in {Sweep, ReleaseRequested}
      PROVE  /\ settlement' = settlement /\ txs'[w].op = "release"
             /\ txs'[w].arg = ReleasePlan /\ settlement.status = "dispute_window"
             /\ txs'[w].event = Sweep => settlement.due
  <2>1. txs'[w] = [op |-> "release", event |-> e, step |-> 1, arg |-> ReleasePlan,
                   current |-> TRUE]
    BY <1>1, <1>6 DEF BeginRelease, Begin
  <2>2. txs'[w].op = "release" /\ txs'[w].arg = ReleasePlan /\ txs'[w].event = e
    BY <2>1
  <2>3. e = Sweep => settlement.due
    BY <1>2, <1>6 DEF BeginRelease
  <2> QED
    BY <1>6, <2>2, <2>3 DEF BeginRelease, financeVars
<1>7. ASSUME NEW e \in ClawbackEvents, BeginClawback(w, e), txs' # txs
      PROVE  /\ settlement' = settlement /\ txs'[w].op = "clawback_read"
             /\ settlement.status # "released"
  <2>1. Begin(w, "clawback_read", e, ClawbackStep(e), 0) /\ settlement.status # "released"
    BY <1>7 DEF BeginClawback
  <2>2. txs'[w].op = "clawback_read"
    BY <1>1, <2>1 DEF Begin
  <2> QED
    BY <1>7, <2>1, <2>2 DEF BeginClawback, financeVars
<1>8. \/ UNCHANGED txs
      \/ txs' = Outdated /\ \A v \in Workers : ~CommitRelease(v)
      \/ \E v \in Workers : \/ txs' = [txs EXCEPT ![v] = Idle]
                            \/ BeginRelease(v, ReleaseRequested) \/ BeginRelease(v, Sweep)
                            \/ \E e \in ClawbackEvents : BeginClawback(v, e)
                            \/ ReadClawbackEntries(v)
  <2>0. ASSUME UNCHANGED ledger, NEW v \in Workers PROVE ~CommitRelease(v)
    <3>1. SUFFICES ASSUME CommitRelease(v) PROVE FALSE
      OBVIOUS
    <3>2. ledger \in Seq(Journal) /\ \E j : ledger' = Append(ledger, j)
      BY <3>1 DEF CommitRelease, TypeInv, TypeOK
    <3>3. Len(ledger') = Len(ledger) + 1 /\ Len(ledger) \in Nat
      BY <3>2
    <3> QED
      BY <2>0, <3>3
  <2>1. CASE BookingNext \/ DisputeNext
    <3>1. UNCHANGED ledger
      BY <2>1 DEF BookingNext, DisputeNext, MarkCompleted, MarkReturned, MarkNoShow, CancelBooking,
                OpenBalanceLink, BalanceSucceeds, OpenSettlementDispute, ResolveForRelease,
                ResolveWithRefund, financeVars
    <3>2. UNCHANGED txs \/ txs' = Outdated
      BY <2>1 DEF BookingNext, DisputeNext, MarkCompleted, MarkReturned, MarkNoShow, CancelBooking,
                OpenBalanceLink, BalanceSucceeds, OpenSettlementDispute, ResolveForRelease,
                ResolveWithRefund
    <3> QED
      BY <2>0, <3>1, <3>2
  <2>2. CASE HandlerNext
    <3>1. ASSUME NEW r \in Reasons, FinalizeSettlementRefund(r)
          PROVE  UNCHANGED ledger /\ (UNCHANGED txs \/ txs' = Outdated)
      BY <3>1 DEF FinalizeSettlementRefund
    <3> QED
      BY <2>0, <2>2, <3>1
      DEF HandlerNext, RecordHeldSettlement, RecordBalancePayment, StartSettlementWindow,
          StartNoShowWindow, PrepareCancellationRefund, PlanRefunds, ExecuteRefund,
          SkipRelease, IgnoreRefundCompleted, FinalizeRefundedBooking, MarkProcessed
  <2>3. CASE WorkerNext
    BY <2>3 DEF WorkerNext, CommitRelease, AbortRelease, CommitClawback
  <2>4. CASE RecoveryNext \/ EnvironmentNext \/ WindowElapses \/ UNCHANGED vars
    BY <2>4 DEF RecoveryNext, EnvironmentNext, RecoverBatch, RecoverMissingRefund,
                BatchCompletes, BatchFails, DeadLetter, WindowElapses, vars
  <2> QED
    BY <2>1, <2>2, <2>3, <2>4 DEF Next
<1>9. CASE ReadClawbackEntries(w)
  BY <1>3, <1>9 DEF ReadClawbackEntries
<1> QED
  BY <1>3, <1>4, <1>5, <1>6, <1>7, <1>8, <1>9 DEF Alone

(* What is left of an amount is what is not counted of it.                 *)
LEMMA Complement ==
    ASSUME NEW n \in Nat, NEW m \in Nat
    PROVE  Less(m, n) = m - Least(n, m)
BY DEF Less, Least

(* Custody itself never grows on such a day, and no refund or dispute      *)
(* finds a settlement released.                                            *)
LEMMA ReleasedUndisturbed ==
    ASSUME Once, DayInv, FreezeInv, BalanceInv, [Next]_vars, settlement.status = "released"
    PROVE  settlement' = settlement
<1>2. ~RecordHeldSettlement
  BY DEF RecordHeldSettlement, CanRun, DayInv, RelayInv, CauseInv, Absent, BalanceInv
<1>3. ~PrepareCancellationRefund
  BY CancellationFindsCustody
<1>4. \A r \in Reasons : ~FinalizeSettlementRefund(r)
  BY FreezeSteps
<1>5. ~ResolveForRelease /\ \A n \in 1..settlement.held : ~ResolveWithRefund(n)
  BY DEF ResolveForRelease, ResolveWithRefund, FreezeInv
<1>6. ~OpenSettlementDispute /\ ~WindowElapses
  BY DEF OpenSettlementDispute, WindowElapses
<1> QED
  BY <1>2, <1>3, <1>4, <1>5, <1>6, SettlementSteps DEF DayInv

(* A release that may still commit has seen no deadline written since.     *)
LEMMA CurrentSeesDeadline ==
    ASSUME TypeInv, NEW w \in Workers, txs[w].op = "release", txs'[w].current
    PROVE  /\ ~ResolveForRelease
           /\ HoldingDays # 0 =>
                \A r \in Reasons : FinalizeSettlementRefund(r) => settlement.refundId = r
<1>1. txs' # Outdated
  <2> SUFFICES ASSUME txs' = Outdated PROVE FALSE
    OBVIOUS
  <2>1. txs'[w] = [txs[w] EXCEPT !.current = FALSE]
    BY DEF Outdated
  <2> QED
    BY <2>1 DEF TypeInv, TypeOK, Transaction
<1> QED
  BY <1>1 DEF ResolveForRelease, FinalizeSettlementRefund

(* A release under way keeps what it may rely on, whatever else commits:   *)
(* a dispute that overtakes it stops it, and the deadline that ends the    *)
(* dispute is too late for it.                                             *)
LEMMA PlanKept ==
    ASSUME Once, DayInv, FreezeInv, BalanceInv, ReleaseInv, [Next]_vars,
           NEW w \in Workers, \A v \in Workers : ~CommitRelease(v),
           txs[w].op = "release", txs'[w].arg = txs[w].arg, txs'[w].event = txs[w].event,
           txs'[w].current => txs[w].current
    PROVE  PlanHolds(w)'
<1>1. PlanHolds(w)
  BY DEF ReleaseInv
<1>2. ~RecordHeldSettlement
  BY DEF RecordHeldSettlement, CanRun, DayInv, RelayInv, CauseInv, Absent, BalanceInv
<1>3. ~PrepareCancellationRefund
  BY <1>1, CancellationFindsCustody DEF PlanHolds
<1>4. ~WindowElapses
  BY DEF WindowElapses
<1>5. CASE settlement' = settlement
  BY <1>1, <1>5 DEF PlanHolds
<1>6. CASE HoldingDays = 0
  <2>1. settlement.status = "dispute_window"
    BY <1>1, <1>6 DEF PlanHolds
  <2>2. \A r \in Reasons : ~FinalizeSettlementRefund(r)
    BY <2>1, FreezeSteps
  <2>3. ~ResolveForRelease /\ \A n \in 1..settlement.held : ~ResolveWithRefund(n)
    BY <2>1 DEF ResolveForRelease, ResolveWithRefund, FreezeInv
  <2>4. ~OpenSettlementDispute
    <3> SUFFICES ASSUME OpenSettlementDispute PROVE FALSE
      OBVIOUS
    <3>1. dispute.status = "none" /\ ~settlement.due
      BY <1>6 DEF OpenSettlementDispute
    <3>2. txs[w].event = ReleaseRequested
      BY <1>1, <1>6, <3>1 DEF PlanHolds, DayInv, RelayInv, OpenTxInv
    <3>3. outbox[ReleaseRequested].state = "pending"
      BY <3>2, EventTypes DEF DayInv, RelayInv, OpenTxInv
    <3> QED
      BY <3>1, <3>3 DEF DayInv, RelayInv, CauseInv, Absent
  <2>5. settlement' = settlement
    BY <1>2, <1>3, <1>4, <2>1, <2>2, <2>3, <2>4, SettlementSteps DEF DayInv
  <2> QED
    BY <1>5, <2>5
<1>7. CASE HoldingDays # 0 /\ settlement' # settlement
  <2>1. settlement.status # "held"
    BY <1>1 DEF PlanHolds
  <2>2. settlement'.status # "held"
    BY <1>2, <1>3, <1>4, <1>7, <2>1, SettlementSteps DEF DayInv
  <2>3. ~(settlement'.status = "dispute_window" /\ txs'[w].current)
    <3> SUFFICES ASSUME settlement'.status = "dispute_window", txs'[w].current PROVE FALSE
      OBVIOUS
    <3>1. /\ ~ResolveForRelease
          /\ \A r \in Reasons : FinalizeSettlementRefund(r) => settlement.refundId = r
      BY <1>7, CurrentSeesDeadline DEF DayInv
    <3> QED
      BY <1>2, <1>3, <1>4, <1>7, <2>1, <3>1, SettlementSteps DEF DayInv
  <2> QED
    BY <1>7, <2>2, <2>3 DEF PlanHolds
<1> QED
  BY <1>5, <1>6, <1>7

(* A release turns the window into revenue for what it holds and has not   *)
(* promised back.                                                          *)
LEMMA ReleaseCommits ==
    ASSUME DayInv, FreezeInv, ReleaseInv, NEW w \in Workers, CommitRelease(w)
    PROVE  /\ settlement.status = "dispute_window" /\ settlement'.status = "released"
           /\ settlement'.held = settlement.held /\ settlement'.refunded = settlement.refunded
           /\ settlement'.kind = settlement.kind /\ settlement'.retained = settlement.retained
           /\ ledger = <<>> /\ Len(ledger') = 1 /\ ledger'[1].type = "revenue"
           /\ ledger'[1].cash = settlement.held - settlement.refunded
<1>1. settlement \in SettlementRow
  BY DEF DayInv, TypeInv, TypeOK
<1>2. /\ settlement.status = "dispute_window" /\ settlement'.status = "released"
      /\ settlement'.held = settlement.held /\ settlement'.refunded = settlement.refunded
      /\ settlement'.kind = settlement.kind /\ settlement'.retained = settlement.retained
  BY <1>1 DEF CommitRelease, StillReleasable, SettlementRow
<1>3. ledger = <<>> /\ txs[w].arg = settlement.held - settlement.refunded
  BY <1>2 DEF ReleaseInv, PlanHolds, CommitRelease, StillReleasable
<1>4. ledger' = Append(<<>>, [type |-> "revenue", cash |-> settlement.held - settlement.refunded,
                              journal |-> Len(ledger) + 1])
  BY <1>3 DEF CommitRelease
<1>5. Len(ledger') = 1 /\ ledger'[1].type = "revenue"
      /\ ledger'[1].cash = settlement.held - settlement.refunded
  BY <1>4
<1> QED
  BY <1>2, <1>3, <1>5

(* With one worker, and on a day without retries, every step keeps revenue *)
(* and custody in agreement.                                               *)
LEMMA ReleaseStep ==
    ASSUME Once, Alone, DayInv, FreezeInv, BalanceInv, ReleaseInv, [Next]_vars
    PROVE  ReleaseInv'
<1>1. /\ settlement \in SettlementRow /\ settlement.held \in Nat /\ settlement.refunded \in Nat
      /\ settlement.refunded <= settlement.held /\ settlement.held # 0
      /\ refundDue \in Nat /\ Security \in Nat /\ Less(refundDue, Security) \in Nat
      /\ settlement.retained \in Nat
  <2>1. /\ settlement \in SettlementRow /\ settlement.held \in Nat
        /\ settlement.refunded \in Nat /\ settlement.retained \in Nat
        /\ refundDue \in Nat /\ Security \in Nat
    BY MoneyAssumption DEF DayInv, TypeInv, TypeOK, SettlementRow
  <2> QED
    BY <2>1, AmountTypes, MoneyAssumption DEF FreezeInv, BalanceInv
<1>2. ~RecordHeldSettlement
  BY DEF RecordHeldSettlement, CanRun, DayInv, RelayInv, CauseInv, Absent, BalanceInv
<1>3. settlement.status = "held" => settlement.refunded = 0
  BY DEF FreezeInv, Promised, DayInv, OnceInv, CaseInv, DisputeInv
<1>4. ledger' # ledger => \E w \in Workers : CommitRelease(w)
  BY Writers DEF CommitClawback, ReleaseInv
<1>5. CASE \E w \in Workers : CommitRelease(w)
  <2> PICK w \in Workers : CommitRelease(w)
    BY <1>5
  <2>1. \A v \in Workers : txs'[v] = Idle
    BY DEF CommitRelease, Alone, DayInv, TypeInv, TypeOK
  <2>2. \A v \in Workers : txs'[v].op = "idle"
    BY <2>1 DEF Idle
  <2> QED
    BY <2>2, ReleaseCommits DEF ReleaseInv
<1>6. CASE \A w \in Workers : ~CommitRelease(w)
  <2>1. ledger' = ledger
    BY <1>4, <1>6
  <2>2. (settlement'.status = "released") <=> (settlement.status = "released")
    <3>1. settlement.status = "released" => settlement' = settlement
      BY ReleasedUndisturbed
    <3>2. settlement'.status = "released" => settlement.status = "released"
      BY <1>2, <1>6, SettlementSteps DEF DayInv
    <3> QED
      BY <3>1, <3>2
  <2>3. settlement.status = "released" => settlement' = settlement
    BY ReleasedUndisturbed
  <2>4. ASSUME NEW r \in Reasons, FinalizeSettlementRefund(r)
        PROVE  /\ FinalRefunded(r) = settlement.refunded
               /\ Least(settlement.refunded, settlement.held) = settlement.refunded
               /\ Less(settlement.held, settlement.refunded) = settlement.held - settlement.refunded
    BY <1>1, <2>4, FreezeSteps DEF Least, Less
  <2>5. settlement'.kind = "cancellation_fee" =>
           settlement'.retained = settlement'.held - settlement'.refunded
    <3> SUFFICES ASSUME settlement'.kind = "cancellation_fee"
                 PROVE  settlement'.retained = settlement'.held - settlement'.refunded
      OBVIOUS
    <3>1. CASE settlement'.kind = settlement.kind /\ settlement'.retained = settlement.retained
               /\ Same(settlement, settlement')
      BY <3>1 DEF Same, ReleaseInv
    <3>2. CASE settlement'.retained = Less(settlement.held, settlement.refunded)
               /\ Same(settlement, settlement')
      BY <1>1, <3>2 DEF Same, Less
    <3>3. ASSUME NEW n \in Nat, settlement'.refunded = Least(n, settlement.held),
                 settlement'.retained = Less(settlement.held, n),
                 settlement'.held = settlement.held
          PROVE  settlement'.retained = settlement'.held - settlement'.refunded
      BY <1>1, <3>3, Complement
    <3>4. CASE settlement' = settlement
      BY <3>4 DEF ReleaseInv
    <3>5. ASSUME NEW n \in 1..settlement.held
          PROVE  settlement.refunded + n \in Nat
      BY <1>1
    <3>6. \A r \in Reasons : FinalRefunded(r) \in Nat
      BY FinalRefundedTypes DEF DayInv
    <3> QED
      BY <1>1, <1>2, <1>6, <3>1, <3>2, <3>3, <3>4, <3>5, <3>6, SettlementSteps DEF DayInv
  <2>6. settlement'.status \in {"dispute_window", "disputed", "released"} =>
           settlement'.refunded < settlement'.held
    <3> SUFFICES ASSUME settlement'.status \in {"dispute_window", "disputed", "released"}
                 PROVE  settlement'.refunded < settlement'.held
      OBVIOUS
    <3>1. CASE settlement.status = "held" /\ Same(settlement, settlement')
      BY <1>1, <1>3, <3>1 DEF Same
    <3>2. CASE settlement.status \in {"dispute_window", "disputed", "released"}
               /\ Same(settlement, settlement')
      BY <3>2 DEF Same, ReleaseInv
    <3>3. ASSUME NEW r \in Reasons, FinalizeSettlementRefund(r),
                 settlement'.status = IF FinalRefunded(r) >= settlement.held
                                      THEN "refunded" ELSE "dispute_window",
                 settlement'.refunded = Least(FinalRefunded(r), settlement.held),
                 settlement'.held = settlement.held
          PROVE  settlement'.refunded < settlement'.held
      BY <1>1, <2>4, <3>3
    <3>4. CASE settlement' = settlement
      BY <3>4 DEF ReleaseInv
    <3>5. WindowElapses => settlement.status \in {"dispute_window", "disputed"}
      BY DEF WindowElapses
    <3> QED
      BY <1>2, <1>6, <3>1, <3>2, <3>3, <3>4, <3>5, SettlementSteps DEF DayInv
  <2>7. ASSUME NEW w \in Workers
        PROVE  /\ txs'[w].op # "clawback_write"
               /\ txs'[w].op = "clawback_read" => settlement'.status # "released"
               /\ txs'[w].op = "release" => PlanHolds(w)'
    <3>1. CASE txs'[w].op = "idle"
      BY <3>1
    <3>2. CASE /\ txs'[w].op = txs[w].op /\ txs'[w].arg = txs[w].arg
               /\ txs'[w].event = txs[w].event
               /\ txs[w].op = "release" /\ txs'[w].current => txs[w].current
      <4>1. txs[w].op = "release" => PlanHolds(w)'
        BY <1>6, <3>2, PlanKept
      <4> QED
        BY <2>2, <3>2, <4>1 DEF ReleaseInv
    <3>3. CASE /\ settlement' = settlement /\ txs'[w].op = "release"
               /\ txs'[w].arg = ReleasePlan /\ settlement.status = "dispute_window"
               /\ txs'[w].event = Sweep => settlement.due
      <4>1. ReleasePlan = settlement.held - settlement.refunded
        <5>1. settlement.refunded < settlement.held
          BY <3>3 DEF ReleaseInv
        <5>2. CASE settlement.kind = "cancellation_fee"
          <6>1. settlement.retained = settlement.held - settlement.refunded
            BY <5>2 DEF ReleaseInv
          <6>2. settlement.retained # 0
            BY <1>1, <5>1, <6>1
          <6> QED
            BY <5>2, <6>1, <6>2 DEF ReleasePlan
        <5>3. CASE settlement.kind # "cancellation_fee"
          BY <1>1, <5>1, <5>3 DEF ReleasePlan, Less
        <5> QED
          BY <5>2, <5>3
      <4> QED
        BY <3>3, <4>1 DEF PlanHolds
    <3>4. CASE /\ settlement' = settlement /\ txs'[w].op = "clawback_read"
               /\ settlement.status # "released"
      BY <3>4
    <3>5. ~(ReadClawbackEntries(w) /\ ActiveRevenue(ledger) # 0)
      <4> SUFFICES ASSUME ReadClawbackEntries(w) PROVE ActiveRevenue(ledger) = 0
        OBVIOUS
      <4>1. ledger = <<>>
        BY DEF ReadClawbackEntries, ReleaseInv
      <4> QED
        BY <4>1 DEF ActiveRevenue
    <3> QED
      BY <3>1, <3>2, <3>3, <3>4, <3>5, TxSteps DEF DayInv
  <2> QED
    BY <2>1, <2>2, <2>3, <2>5, <2>6, <2>7 DEF ReleaseInv
<1> QED
  BY <1>5, <1>6

(* The day of the serial run: every handler once, one worker, whole fees   *)
(* and no balance to be paid online.                                       *)
SerialDay == Once /\ FeesAreWhole /\ Alone /\ NoBalance

(* Revenue and custody agree throughout such a day.                        *)
LEMMA ReleaseInvariant ==
    SerialDay => (Spec => [](DayInv /\ FreezeInv /\ BalanceInv /\ ReleaseInv))
<1> SUFFICES ASSUME Once, FeesAreWhole, Alone, NoBalance
             PROVE  Spec => [](DayInv /\ FreezeInv /\ BalanceInv /\ ReleaseInv)
  BY DEF SerialDay
<1>1. Init => ReleaseInv
  BY DEF Init, ReleaseInv, Idle
<1>2. DayInv /\ FreezeInv /\ BalanceInv /\ ReleaseInv /\ [Next]_vars => ReleaseInv'
  BY ReleaseStep
<1> QED
  BY <1>1, <1>2, FreezeInvariant, BalanceInvariant, PTL DEF Spec

(* An empty ledger has no journal.                                         *)
LEMMA EmptyLedger == Len(<<>>) = 0
OBVIOUS

(* The revenue that stands is what the invariant says.                     *)
LEMMA StandingRevenue ==
    ASSUME DayInv, FreezeInv, ReleaseInv
    PROVE  ActiveCash = IF settlement.status = "released"
                        THEN settlement.held - settlement.refunded ELSE 0
<1>1. CASE settlement.status = "released"
  <2>1. Len(ledger) = 1 /\ ledger[1].type = "revenue"
        /\ ledger[1].cash = settlement.held - settlement.refunded
    BY <1>1 DEF ReleaseInv
  <2>2. ledger # <<>>
    <3>1. Len(ledger) # Len(<<>>)
      BY <2>1, EmptyLedger
    <3> QED
      BY <3>1, Zenon
  <2>3. ActiveRevenue(ledger) = 1
    BY <2>1, <2>2 DEF ActiveRevenue
  <2> QED
    BY <1>1, <2>1, <2>3 DEF ActiveCash
<1>2. CASE settlement.status # "released"
  <2>1. ActiveRevenue(ledger) = 0
    BY <1>2 DEF ReleaseInv, ActiveRevenue
  <2> QED
    BY <1>2, <2>1 DEF ActiveCash
<1> QED
  BY <1>1, <1>2

(* LedgerMatchesCustody on such a day: revenue stands exactly while the    *)
(* settlement is released, and for exactly what was not given back.        *)
THEOREM LedgerAgreesWithCustody == SerialDay => (Spec => []LedgerMatchesCustody)
<1> SUFFICES ASSUME SerialDay PROVE Spec => []LedgerMatchesCustody
  OBVIOUS
<1>1. DayInv /\ FreezeInv /\ BalanceInv /\ ReleaseInv => LedgerMatchesCustody
  <2> SUFFICES ASSUME DayInv, FreezeInv, ReleaseInv PROVE LedgerMatchesCustody
    OBVIOUS
  <2>1. /\ settlement.held \in Nat /\ settlement.refunded \in Nat
        /\ settlement.status = "released" => settlement.refunded < settlement.held
    BY DEF DayInv, TypeInv, TypeOK, SettlementRow, ReleaseInv
  <2> QED
    BY <2>1, StandingRevenue DEF LedgerMatchesCustody, Less
<1> QED
  BY <1>1, ReleaseInvariant, PTL

(* CustodyIsEscrow on such a day: the custody of a booking, with its       *)
(* dispute, batches, sweeps and events in any order, implements the        *)
(* escrow.  A freeze that promises anything is a Repay, a release is an    *)
(* Earn, and nothing else moves what was promised or earned.               *)
THEOREM CustodyKeepsEscrow == SerialDay => (Spec => CustodyIsEscrow)
<1> SUFFICES ASSUME Once, FeesAreWhole, Alone, NoBalance, SerialDay
             PROVE  Spec => CustodyIsEscrow
  BY DEF SerialDay
<1>1. Init => Escrow!Init
  BY DEF Init, Escrow!Init, ActiveCash, ActiveRevenue
<1>2. ASSUME DayInv, FreezeInv, BalanceInv, ReleaseInv,
             DayInv', FreezeInv', BalanceInv', ReleaseInv', [Next]_vars
      PROVE  [Escrow!Next]_<<settlement.refunded, ActiveCash>>
  <2>1. /\ settlement.held = Deposit /\ settlement'.held = Deposit /\ Deposit \in Nat
        /\ settlement.refunded = Promised /\ settlement'.refunded = Promised'
        /\ Promised \in Nat /\ Promised' <= settlement'.held
        /\ settlement.refunded \in Nat
    BY <1>2, PromiseSteps, MoneyAssumption DEF BalanceInv, FreezeInv
  <2>2. ActiveCash = IF settlement.status = "released"
                     THEN settlement.held - settlement.refunded ELSE 0
    BY <1>2, StandingRevenue
  <2>3. CASE \E w \in Workers : CommitRelease(w)
    <3> PICK w \in Workers : CommitRelease(w)
      BY <2>3
    <3>1. /\ settlement.status = "dispute_window" /\ settlement'.refunded = settlement.refunded
          /\ Len(ledger') = 1 /\ ledger'[1].type = "revenue"
          /\ ledger'[1].cash = settlement.held - settlement.refunded
          /\ settlement.refunded < settlement.held
      BY <1>2, ReleaseCommits DEF ReleaseInv
    <3>2. ActiveCash' = settlement.held - settlement.refunded
      <4>1. ledger' # <<>>
        <5>1. Len(ledger') # Len(<<>>)
          BY <3>1, EmptyLedger
        <5> QED
          BY <5>1, Zenon
      <4>2. ActiveRevenue(ledger') = 1
        BY <3>1, <4>1 DEF ActiveRevenue
      <4> QED
        BY <3>1, <4>2 DEF ActiveCash, ActiveRevenue
    <3>3. Escrow!Earn
      BY <2>1, <2>2, <3>1, <3>2 DEF Escrow!Earn
    <3> QED
      BY <3>3 DEF Escrow!Next
  <2>4. CASE \A w \in Workers : ~CommitRelease(w)
    <3>1. ledger' = ledger
      BY <1>2, <2>4, Writers DEF CommitClawback, ReleaseInv
    <3>2. ActiveCash' = ActiveCash
      BY <3>1 DEF ActiveCash
    <3>3. CASE Promised' = Promised
      BY <2>1, <3>2, <3>3
    <3>4. ASSUME NEW n \in Nat, Promised' = Promised + n, settlement.status # "released"
          PROVE  [Escrow!Next]_<<settlement.refunded, ActiveCash>>
      <4>1. CASE n = 0
        BY <2>1, <3>2, <3>4, <4>1
      <4>2. CASE n # 0
        <5>1. settlement'.refunded \in (settlement.refunded + 1)..Deposit
          BY <2>1, <3>4, <4>2
        <5>2. Escrow!Repay
          BY <2>2, <3>2, <3>4, <5>1 DEF Escrow!Repay
        <5> QED
          BY <5>2 DEF Escrow!Next
      <4> QED
        BY <4>1, <4>2
    <3>5. CASE /\ PrepareCancellationRefund
               /\ Promised' = Less(refundDue, Security) + dispute.refund
               /\ Promised = dispute.refund
      <4>1. settlement.status = "held"
        BY <1>2, <3>5, CancellationFindsCustody
      <4>2. Less(refundDue, Security) \in Nat
        BY <1>2, AmountTypes, MoneyAssumption DEF DayInv, TypeInv, TypeOK
      <4>3. Promised' = Promised + Less(refundDue, Security)
        BY <2>1, <3>5, <4>2
      <4> QED
        BY <3>4, <4>1, <4>2, <4>3
    <3>6. ASSUME NEW n \in 1..settlement.held, ResolveWithRefund(n), Promised' = Promised + n
          PROVE  [Escrow!Next]_<<settlement.refunded, ActiveCash>>
      <4>1. settlement.status = "disputed"
        BY <1>2, <3>6 DEF ResolveWithRefund, FreezeInv
      <4>2. n \in Nat
        BY <2>1
      <4> QED
        BY <3>4, <3>6, <4>1, <4>2
    <3> QED
      BY <1>2, <3>3, <3>5, <3>6, PromiseSteps
  <2> QED
    BY <2>3, <2>4
<1> QED
  BY <1>1, <1>2, ReleaseInvariant, PTL DEF Spec, CustodyIsEscrow, Escrow!Spec
=============================================================================
