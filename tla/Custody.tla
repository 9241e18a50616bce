------------------------------ MODULE Custody ------------------------------
(***************************************************************************)
(* The money of ONE booking, from its confirmation until nothing of it is  *)
(* left to decide: the booking's last states, the settlement that keeps    *)
(* the captured money in custody, the customer's single dispute, the       *)
(* refund batches of the payments module, the revenue and clawback         *)
(* journals, and the outbox events that make the three modules converge.   *)
(*                                                                         *)
(* Every handler runs in a transaction of its own, so a handler is one     *)
(* action.  The two use cases that read rows and write later without a     *)
(* lock in between (release and clawback) are split into their statements  *)
(* and run in one of the Workers.                                          *)
(***************************************************************************)
EXTENDS Naturals, Sequences, FiniteSets

CONSTANTS
    Deposit,         \* service money captured by the first payment
    Final,           \* final_amount: the whole service price
    Security,        \* security deposit, captured with the first payment
    RefundPercents,  \* what the customer's cancellation policy may grant
    HoldingDays,     \* payout policy; only zero or not zero matters here
    BalanceLinks,    \* TRUE: the customer may pay the balance online
    Redeliver,       \* TRUE: a retry or a lapsed lease runs handlers again
    Recover,         \* TRUE: the reconciliation worker re-emits events
    RefundsMayFail,  \* TRUE: the provider may decline a refund for good
    Workers,         \* relay and sweep processes that can overlap
    MaxDead,         \* bound: events that exhaust their delivery attempts
    MaxJournals      \* bound: revenue and clawback journals of the booking

ASSUME MoneyAssumption ==
    /\ Deposit \in Nat \ {0} /\ Final \in Nat /\ Deposit <= Final
    /\ Security \in Nat /\ RefundPercents \subseteq 0..100
    /\ HoldingDays \in Nat /\ MaxDead \in Nat /\ MaxJournals \in Nat
ASSUME SwitchAssumption ==
    {BalanceLinks, Redeliver, Recover, RefundsMayFail} \subseteq BOOLEAN

VARIABLES
    booking,     \* bookings.status
    paid,        \* bookings.paid_amount
    refundDue,   \* bookings.refund_due_amount, 0 without an intent
    balance,     \* status of the balance payment
    report,      \* on-site cash figure of booking.completed: {} or {amount}
    returned,    \* depositRefund of booking.returned
    settlement,  \* the booking_settlements row
    dispute,     \* the settlement_disputes row (unique per settlement)
    batches,     \* refund_batches, unique per (booking, reason)
    ledger,      \* revenue and clawback journals, oldest first
    tax,         \* withholding assessment and reversals, by revenue basis
    outbox,      \* outbox_events: how many handlers of each have committed
    deadLetters, \* how many events have exhausted their attempts so far
    txs          \* open release and clawback transactions, per worker

vars == <<booking, paid, refundDue, balance, report, returned, settlement,
          dispute, batches, ledger, tax, outbox, deadLetters, txs>>
bookingVars == <<booking, paid, refundDue, balance, report, returned>>
financeVars == <<settlement, dispute, ledger, tax>>

-----------------------------------------------------------------------------
(* Rows and events.                                                        *)

Cancellation == "booking_cancellation"
SecurityRefund == "security_deposit"
DisputeRefund == "dispute_refund"
Reasons == {Cancellation, SecurityRefund, DisputeRefund}

BookingStates == {"confirmed", "cancelled", "completed", "no_show", "refunded"}
SettlementStates == {"held", "dispute_window", "disputed", "refund_pending",
                     "released", "refunded"}
Kinds == {"service_completed", "customer_no_show", "cancellation_fee"}

Ev(type) == <<type, "none">>
Completed == Ev("booking.completed")
NoShow == Ev("booking.no_show")
Cancelled == Ev("booking.cancelled")
Returned == Ev("booking.returned")
BookingRefunded == Ev("booking.refunded")
BalancePaid == Ev("payment.succeeded")
ReleaseRequested == Ev("settlement.release_requested")
RefundRequested == Ev("settlement.refund_requested")
RefundCompleted(r) == <<"refund.completed", r>>
RecoveryRequested(r) == <<"refund.recovery_requested", r>>
Events == {Completed, NoShow, Cancelled, Returned, BookingRefunded, BalancePaid,
           ReleaseRequested, RefundRequested}
          \cup {RefundCompleted(r) : r \in Reasons}
          \cup {RecoveryRequested(r) : r \in Reasons}
Sweep == Ev("sweep")  \* not an event: the release worker's own poll

(* How many handlers an event has, in the order the modules register them: *)
(* finance, booking, payments.  Finance's refund.completed handler is two  *)
(* transactions, counted one by one.                                       *)
Handlers(e) == IF e[1] = "refund.completed" THEN 3
               ELSE IF e \in {NoShow, Cancelled, BalancePaid} THEN 2 ELSE 1

Less(n, m) == IF n > m THEN n - m ELSE 0
Least(n, m) == IF n < m THEN n ELSE m

(* SUM of the succeeded payments, and what refunds have reserved of it.    *)
Captured == Deposit + Security
            + (IF balance = "succeeded" THEN Final - Deposit ELSE 0)
ReservedFor(r) == IF batches[r].status \in {"none", "failed"} THEN 0
                  ELSE batches[r].amount
Reserved == ReservedFor(Cancellation) + ReservedFor(SecurityRefund)
            + ReservedFor(DisputeRefund)

(* The active revenue journal (its index), or 0: a clawback closes a cycle. *)
ActiveRevenue(journals) ==
    IF journals = <<>> \/ journals[Len(journals)].type = "clawback"
    THEN 0 ELSE Len(journals)

Reversed == tax.reversals[Cancellation] + tax.reversals[SecurityRefund]
            + tax.reversals[DisputeRefund]

-----------------------------------------------------------------------------
(* The outbox.  An event is emitted in its writer's transaction.  `ran` is *)
(* the longest prefix of handlers that has committed; with Redeliver any   *)
(* handler of that prefix may run again until the row is marked processed. *)
(* An event is settled once no worker runs it any more: Delivery is this   *)
(* promise, Outbox the relay that keeps it.                                *)

Emit(box, e) == [box EXCEPT ![e] = [state |-> "pending", ran |-> 0]]

CanRun(e, i) ==
    /\ outbox[e].state = "pending"
    /\ \/ i = outbox[e].ran + 1
       \/ Redeliver /\ i <= outbox[e].ran

\* Mutant: the row counts handler runs, not handlers.
RanCounted(box, e, i) == IF e # Sweep THEN [box EXCEPT ![e].ran = @ + 1] ELSE box
Ran(box, e, i) == IF e # Sweep /\ box[e].ran < i THEN [box EXCEPT ![e].ran = i] ELSE box

Running(e) == \E w \in Workers : txs[w].event = e

MarkProcessed(e) ==
    /\ outbox[e].state = "pending" /\ outbox[e].ran = Handlers(e) /\ ~Running(e)
    /\ outbox' = [outbox EXCEPT ![e].state = "processed"]
    /\ UNCHANGED <<bookingVars, financeVars, batches, txs, deadLetters>>

DeadLetter(e) ==
    /\ outbox[e].state = "pending" /\ deadLetters < MaxDead /\ ~Running(e)
    /\ outbox' = [outbox EXCEPT ![e].state = "dead"]
    /\ deadLetters' = deadLetters + 1
    /\ UNCHANGED <<bookingVars, financeVars, batches, txs>>

-----------------------------------------------------------------------------
(* Booking use cases, each a compare-and-set from `confirmed`, and the     *)
(* balance payment, whose link outlives the state it was opened in.  Only  *)
(* inventory bookings are returned and only the others are completed: the  *)
(* two actions together stand for a booking of either mode.                *)

MarkCompleted ==
    /\ booking = "confirmed"
    /\ booking' = "completed"
    /\ report' \in {{Final - paid}, {}}  \* the partner's figure, or the sweep's none
    /\ outbox' = Emit(outbox, Completed)
    /\ UNCHANGED <<paid, refundDue, balance, returned, financeVars, batches, txs, deadLetters>>

MarkReturned ==
    /\ booking = "confirmed"
    /\ booking' = "completed"
    /\ returned' \in 0..Security
    /\ outbox' = Emit(Emit(outbox, Returned), Completed)
    /\ UNCHANGED <<paid, refundDue, balance, report, financeVars, batches, txs, deadLetters>>

MarkNoShow ==
    /\ booking = "confirmed"
    /\ booking' = "no_show"
    /\ outbox' = Emit(outbox, NoShow)
    /\ UNCHANGED <<paid, refundDue, balance, report, returned, financeVars, batches, txs, deadLetters>>

CancelBooking(percent) ==
    /\ booking = "confirmed"
    /\ booking' = "cancelled"
    /\ refundDue' = (paid * percent) \div 100 + Security
    /\ outbox' = Emit(outbox, Cancelled)
    /\ UNCHANGED <<paid, balance, report, returned, financeVars, batches, txs, deadLetters>>

OpenBalanceLink ==
    /\ BalanceLinks /\ balance = "none"
    /\ booking = "confirmed" /\ paid < Final
    /\ balance' = "pending"
    /\ UNCHANGED <<booking, paid, refundDue, report, returned, financeVars, batches, outbox, txs, deadLetters>>

BalanceSucceeds ==
    /\ balance = "pending"
    /\ balance' = "succeeded"
    /\ outbox' = Emit(outbox, BalancePaid)
    /\ UNCHANGED <<booking, paid, refundDue, report, returned, financeVars, batches, txs, deadLetters>>

-----------------------------------------------------------------------------
(* payment.succeeded of the balance: custody is recomputed from the sum of *)
(* the payments whatever the settlement's state, then booking records it.  *)

RecordHeldSettlement ==
    /\ CanRun(BalancePaid, 1)
    /\ settlement' = [settlement EXCEPT !.held = Captured - Security]
    /\ outbox' = Ran(outbox, BalancePaid, 1)
    /\ UNCHANGED <<bookingVars, dispute, ledger, tax, batches, txs, deadLetters>>

(* A booking that left `confirmed` is handed to the confirmation use case, *)
(* which ignores completed and no_show and throws on the other states.     *)
RecordBalancePayment ==
    /\ CanRun(BalancePaid, 2)
    /\ booking \in {"confirmed", "completed", "no_show"}
    /\ paid' = IF booking = "confirmed" THEN Final ELSE paid
    /\ outbox' = Ran(outbox, BalancePaid, 2)
    /\ UNCHANGED <<booking, refundDue, balance, report, returned, financeVars, batches, txs, deadLetters>>

-----------------------------------------------------------------------------
(* Finance opens a dispute window.  A wrong on-site figure throws.  Reading *)
(* the row and writing it are one step here, in FinalizeSettlementRefund   *)
(* and in ResolveWithRefund: their UPDATEs repeat in the WHERE clause what  *)
(* they have read of the status, and one that matches nothing writes none. *)

Window(row, kind, onsite) ==
    [row EXCEPT !.status = "dispute_window", !.kind = kind, !.onsite = onsite,
                !.due = (HoldingDays = 0),
                !.retained = IF kind = "cancellation_fee"
                             THEN Less(row.held, row.refunded) ELSE row.retained]

Assess(revenue) == IF tax.assessed = 0 THEN [tax EXCEPT !.assessed = revenue] ELSE tax

StartSettlementWindow ==
    /\ CanRun(Completed, 1)
    /\ LET onsite == Less(Final, settlement.held)
       IN  IF settlement.status = "held"
           THEN /\ report \subseteq {onsite}
                /\ settlement' = Window(settlement, "service_completed", onsite)
                /\ tax' = Assess(Final)
           ELSE UNCHANGED <<settlement, tax>>
    /\ outbox' = Ran(outbox, Completed, 1)
    /\ UNCHANGED <<bookingVars, dispute, ledger, batches, txs, deadLetters>>

StartNoShowWindow ==
    /\ CanRun(NoShow, 1)
    /\ IF settlement.status = "held"
       THEN /\ settlement' = Window(settlement, "customer_no_show", 0)
            /\ tax' = Assess(settlement.held)
       ELSE UNCHANGED <<settlement, tax>>
    /\ outbox' = Ran(outbox, NoShow, 1)
    /\ UNCHANGED <<bookingVars, dispute, ledger, batches, txs, deadLetters>>

(* The holding period passes while no transaction is open: transactions    *)
(* live for seconds and a holding period for days.                         *)
WindowElapses ==
    /\ settlement.status \in {"dispute_window", "disputed"} /\ ~settlement.due
    /\ \A w \in Workers : txs[w].op = "idle"
    /\ settlement' = [settlement EXCEPT !.due = TRUE]
    /\ UNCHANGED <<bookingVars, dispute, ledger, tax, batches, outbox, txs, deadLetters>>

-----------------------------------------------------------------------------
(* Refunds: finance freezes custody, payments plans one batch per reason,  *)
(* the provider or the maker/checker flow completes it.                    *)

Frozen(row, amount) ==  \* prepareRefund: a guarded UPDATE
    IF row.status \in {"held", "dispute_window", "disputed"}
    THEN [row EXCEPT !.status = "refund_pending", !.refunded = Least(amount, row.held),
                     !.retained = Less(row.held, amount)]
    ELSE row

PrepareCancellationRefund ==
    /\ CanRun(Cancelled, 1)
    /\ LET service == Less(refundDue, Security)
       IN  settlement' =
             IF settlement.status \in {"released", "refunded"} THEN settlement
             ELSE IF service = 0
             THEN IF settlement.status = "held"
                  THEN Window(settlement, "cancellation_fee", 0) ELSE settlement
             ELSE LET row == Frozen(settlement, service)
                  IN  IF row = settlement THEN row
                      ELSE [row EXCEPT !.kind = "cancellation_fee"]
    /\ outbox' = Ran(outbox, Cancelled, 1)
    /\ UNCHANGED <<bookingVars, dispute, ledger, tax, batches, txs, deadLetters>>

\* Mutant: any batch of the booking, whatever its reason, counts as this one.
ExecuteRefundOnce(e, i, reason, amount, affects) ==
    /\ CanRun(e, i)
    /\ IF amount = 0 \/ \E r \in Reasons : batches[r].status # "none"
       THEN UNCHANGED batches
       ELSE batches' = [batches EXCEPT ![reason] =
                 [status |-> "processing", amount |-> amount, affects |-> affects]]
    /\ outbox' = Ran(outbox, e, i)
    /\ UNCHANGED <<bookingVars, financeVars, txs, deadLetters>>

(* ExecuteRefund under the booking's refund lock: nothing for a zero       *)
(* amount or an existing batch; throws when the captures cannot cover it.  *)
ExecuteRefund(e, i, reason, amount, affects) ==
    /\ CanRun(e, i)
    /\ IF amount = 0 \/ batches[reason].status # "none"
       THEN UNCHANGED batches
       ELSE /\ amount + Reserved <= Captured
            /\ batches' = [batches EXCEPT ![reason] =
                 [status |-> "processing", amount |-> amount, affects |-> affects]]
    /\ outbox' = Ran(outbox, e, i)
    /\ UNCHANGED <<bookingVars, financeVars, txs, deadLetters>>

PlanRefunds ==
    \/ ExecuteRefund(Cancelled, 2, Cancellation, refundDue, TRUE)
    \/ ExecuteRefund(Returned, 1, SecurityRefund, returned, FALSE)
    \/ ExecuteRefund(NoShow, 2, SecurityRefund, Security, FALSE)
    \/ ExecuteRefund(RefundRequested, 1, DisputeRefund, dispute.refund, dispute.full)
    \/ ExecuteRefund(RecoveryRequested(Cancellation), 1, Cancellation, refundDue, TRUE)
    \/ ExecuteRefund(RecoveryRequested(SecurityRefund), 1, SecurityRefund, Security, FALSE)

BatchCompletes(r) ==
    /\ batches[r].status = "processing"
    /\ batches' = [batches EXCEPT ![r].status = "completed"]
    /\ outbox' = Emit(outbox, RefundCompleted(r))
    /\ UNCHANGED <<bookingVars, financeVars, txs, deadLetters>>

\* Mutant: a batch is announced as completed although its items failed.
BatchFailsAnnounced(r) ==
    /\ RefundsMayFail /\ batches[r].status = "processing"
    /\ batches' = [batches EXCEPT ![r].status = "failed"]
    /\ outbox' = Emit(outbox, RefundCompleted(r))
    /\ UNCHANGED <<bookingVars, financeVars, txs, deadLetters>>

BatchFails(r) ==
    /\ RefundsMayFail /\ batches[r].status = "processing"
    /\ batches' = [batches EXCEPT ![r].status = "failed"]
    /\ UNCHANGED <<bookingVars, financeVars, outbox, txs, deadLetters>>

-----------------------------------------------------------------------------
(* refund.completed: finance finalizes custody and reverses tax, then      *)
(* claws back (below), then booking moves to refunded.                     *)

Applies(r) == batches[r].affects \/ r = DisputeRefund

IgnoreRefundCompleted(r) ==
    /\ CanRun(RefundCompleted(r), 1) /\ ~Applies(r)
    /\ outbox' = Ran(outbox, RefundCompleted(r), 3)
    /\ UNCHANGED <<bookingVars, financeVars, batches, txs, deadLetters>>

\* Mutant: a dispute refund replaces the cumulative amount instead of adding.
FinalRefundedLatest(r) ==
    IF r = Cancellation THEN Less(batches[r].amount, Security) ELSE batches[r].amount

(* The new cumulative refunded amount: a dispute refund adds to it unless  *)
(* refund_pending already counts it; any other refund replaces it.         *)
FinalRefunded(r) ==
    CASE r = Cancellation -> Less(batches[r].amount, Security)
      [] r = DisputeRefund /\ settlement.status = "refund_pending" -> settlement.refunded
      [] r = DisputeRefund /\ settlement.status # "refund_pending" ->
            settlement.refunded + batches[r].amount
      [] OTHER -> batches[r].amount

(* A deadline is written as the writer's now(), which is later than the    *)
(* now() of a release that has already begun: its guard will not match.    *)
Outdated == [w \in Workers |-> [txs[w] EXCEPT !.current = txs[w].op # "release"]]

\* Mutants: a partial refund does not reopen the window; `refunded` is not final.
FinalizedFrozen(row, r, refunded) ==
    IF row.status = "refunded" \/ refunded < row.held
    THEN [row EXCEPT !.refundId = r]
    ELSE [row EXCEPT !.status = "refunded", !.refundId = r, !.refunded = row.held]
FinalizedAgain(row, r, refunded) ==
    [row EXCEPT !.status = IF refunded >= row.held THEN "refunded" ELSE "dispute_window",
                !.refundId = r, !.refunded = Least(refunded, row.held),
                !.retained = Less(row.held, refunded), !.due = FALSE]

Finalized(row, r, refunded) ==
    IF row.status = "refunded" THEN row
    ELSE [row EXCEPT
            !.status = IF refunded >= row.held THEN "refunded" ELSE "dispute_window",
            !.refundId = r, !.refunded = Least(refunded, row.held),
            !.retained = Less(row.held, refunded),
            !.due = refunded < row.held /\ HoldingDays = 0]

\* Mutant: tax is reversed that was never withheld.
WithholdingReversalUncapped(r, refunded) ==
    IF tax.reversals[r] = 0 /\ refunded > Reversed
    THEN [tax EXCEPT !.reversals[r] = refunded - Reversed] ELSE tax

WithholdingReversal(r, refunded) ==
    LET basis == Least(refunded, tax.assessed)
    IN  IF tax.reversals[r] = 0 /\ basis > Reversed
        THEN [tax EXCEPT !.reversals[r] = basis - Reversed] ELSE tax

FinalizeSettlementRefund(r) ==
    /\ CanRun(RefundCompleted(r), 1) /\ Applies(r)
    /\ IF settlement.refundId = r
       THEN UNCHANGED <<settlement, tax, txs>>
       ELSE /\ settlement' = Finalized(settlement, r, FinalRefunded(r))
            /\ tax' = WithholdingReversal(r, FinalRefunded(r))
            /\ \/ txs' = Outdated
               \/ HoldingDays = 0 /\ UNCHANGED txs  \* it may have begun first
    /\ outbox' = Ran(outbox, RefundCompleted(r), 1)
    /\ UNCHANGED <<bookingVars, dispute, ledger, batches, deadLetters>>

(* A booking still `confirmed` would make this handler throw.              *)
FinalizeRefundedBooking(r) ==
    /\ CanRun(RefundCompleted(r), 3) /\ Applies(r)
    /\ IF ~batches[r].affects \/ booking = "refunded"
       THEN /\ outbox' = Ran(outbox, RefundCompleted(r), 3)
            /\ UNCHANGED booking
       ELSE /\ booking \in {"cancelled", "completed", "no_show"}
            /\ booking' = "refunded"
            /\ outbox' = Emit(Ran(outbox, RefundCompleted(r), 3), BookingRefunded)
    /\ UNCHANGED <<paid, refundDue, balance, report, returned, financeVars, batches, txs, deadLetters>>

-----------------------------------------------------------------------------
(* Disputes: the customer asks for one before the deadline, the tenant     *)
(* resolves it by releasing the hold or by granting a refund.              *)

(* markDisputed compares the deadline with the start of the customer's     *)
(* transaction, which a deadline that has passed since does not undo: the  *)
(* dispute may land while a release that found it passed is under way.     *)
(* Without a holding period every dispute is too late.                     *)
OpenSettlementDispute ==
    /\ dispute.status = "none"
    /\ settlement.status = "dispute_window" /\ (settlement.due => HoldingDays # 0)
    /\ settlement' = [settlement EXCEPT !.status = "disputed"]
    /\ dispute' = [dispute EXCEPT !.status = "open"]
    /\ UNCHANGED <<bookingVars, ledger, tax, batches, outbox, txs, deadLetters>>

ResolveForRelease ==
    /\ dispute.status = "open" /\ settlement.status = "disputed"
    /\ settlement' = [settlement EXCEPT !.status = "dispute_window", !.due = TRUE]
    /\ dispute' = [dispute EXCEPT !.status = "rejected"]
    /\ outbox' = Emit(outbox, ReleaseRequested)
    /\ txs' = Outdated
    /\ UNCHANGED <<bookingVars, ledger, tax, batches, deadLetters>>

\* Mutant: the freeze is given the new refund, not the cumulative one.
ResolveWithRefundDelta(amount) ==
    /\ dispute.status = "open"
    /\ amount <= Less(settlement.held, settlement.refunded)
    /\ settlement' = Frozen(settlement, amount)
    /\ dispute' = [status |-> "accepted", refund |-> amount,
                   full |-> amount = Less(settlement.held, settlement.refunded)]
    /\ outbox' = Emit(outbox, RefundRequested)
    /\ UNCHANGED <<bookingVars, ledger, tax, batches, txs, deadLetters>>

(* The freeze is a guarded UPDATE whose result is not looked at.           *)
ResolveWithRefund(amount) ==
    /\ dispute.status = "open"
    /\ amount <= Less(settlement.held, settlement.refunded)
    /\ settlement' = Frozen(settlement, settlement.refunded + amount)
    /\ dispute' = [status |-> "accepted", refund |-> amount,
                   full |-> amount = Less(settlement.held, settlement.refunded)]
    /\ outbox' = Emit(outbox, RefundRequested)
    /\ UNCHANGED <<bookingVars, ledger, tax, batches, txs, deadLetters>>

-----------------------------------------------------------------------------
(* Release and clawback, statement by statement.                           *)

Idle == [op |-> "idle", event |-> Sweep, step |-> 0, arg |-> 0, current |-> TRUE]
Free(w, e, i) ==
    /\ txs[w] = Idle
    /\ Redeliver \/ e = Sweep
       \/ \A v \in Workers : <<txs[v].event, txs[v].step>> # <<e, i>>
Begin(w, op, e, i, arg) ==
    txs' = [txs EXCEPT ![w] = [op |-> op, event |-> e, step |-> i, arg |-> arg, current |-> TRUE]]

(* What a release books of a booking that a partner sells for itself; the  *)
(* journals of a house partner have other legs, which are in Earnings.     *)

\* Mutant: the journal of a release ignores what was already refunded.
ReleasePlanGross == settlement.held
ReleasePlan == IF settlement.kind = "cancellation_fee" /\ settlement.retained # 0
               THEN settlement.retained
               ELSE IF settlement.kind = "cancellation_fee" THEN settlement.held
               ELSE Less(settlement.held, settlement.refunded)

(* The settlement and the journals are read first; an active revenue       *)
(* journal throws.                                                         *)
BeginRelease(w, e) ==
    /\ Free(w, e, 1)
    /\ \/ e = Sweep /\ settlement.due  \* findDue
       \/ e = ReleaseRequested /\ CanRun(e, 1)
    /\ settlement.status = "dispute_window" /\ ActiveRevenue(ledger) = 0
    /\ Begin(w, "release", e, 1, ReleasePlan)
    /\ UNCHANGED <<bookingVars, financeVars, batches, outbox, deadLetters>>

(* The event's handler returns at once when nothing awaits release.        *)
SkipRelease ==
    /\ CanRun(ReleaseRequested, 1) /\ settlement.status # "dispute_window"
    /\ outbox' = Ran(outbox, ReleaseRequested, 1)
    /\ UNCHANGED <<bookingVars, financeVars, batches, txs, deadLetters>>

\* Mutant: the guarded UPDATE checks the deadline but not the status.
StillReleasableByDate(w) == settlement.due /\ txs[w].current
(* markReleased: the journal and this guarded UPDATE commit together.      *)
StillReleasable(w) == settlement.status = "dispute_window" /\ settlement.due
                      /\ txs[w].current

CommitRelease(w) ==
    /\ txs[w].op = "release" /\ StillReleasable(w) /\ Len(ledger) < MaxJournals
    /\ ledger' = Append(ledger, [type |-> "revenue", cash |-> txs[w].arg,
                                 journal |-> Len(ledger) + 1])
    /\ settlement' = [settlement EXCEPT !.status = "released"]
    /\ outbox' = Ran(outbox, txs[w].event, 1)
    /\ txs' = [txs EXCEPT ![w] = Idle]
    /\ UNCHANGED <<bookingVars, dispute, tax, batches, deadLetters>>

AbortRelease(w) ==
    /\ txs[w].op = "release" /\ ~StillReleasable(w)
    /\ txs' = [txs EXCEPT ![w] = Idle]
    /\ UNCHANGED <<bookingVars, financeVars, batches, outbox, deadLetters>>

ClawbackStep(e) == IF e = BookingRefunded THEN 1 ELSE 2
ClawbackEvents == {BookingRefunded} \cup {RefundCompleted(r) : r \in Reasons}

(* First statement: the settlement row.  A released one needs no clawback. *)
BeginClawback(w, e) ==
    LET i == ClawbackStep(e)
    IN  /\ Free(w, e, i) /\ CanRun(e, i)
        /\ e # BookingRefunded => Applies(e[2])
        /\ IF settlement.status = "released"
           THEN /\ outbox' = Ran(outbox, e, i)
                /\ UNCHANGED txs
           ELSE /\ Begin(w, "clawback_read", e, i, 0)
                /\ UNCHANGED outbox
        /\ UNCHANGED <<bookingVars, financeVars, batches, deadLetters>>

(* Second statement: the booking's journal entries.                        *)
ReadClawbackEntries(w) ==
    /\ txs[w].op = "clawback_read"
    /\ IF ActiveRevenue(ledger) = 0
       THEN /\ outbox' = Ran(outbox, txs[w].event, txs[w].step)
            /\ txs' = [txs EXCEPT ![w] = Idle]
       ELSE /\ txs' = [txs EXCEPT ![w].op = "clawback_write",
                                  ![w].arg = ActiveRevenue(ledger)]
            /\ UNCHANGED outbox
    /\ UNCHANGED <<bookingVars, financeVars, batches, deadLetters>>

CommitClawback(w) ==
    /\ txs[w].op = "clawback_write" /\ Len(ledger) < MaxJournals
    /\ ledger' = Append(ledger, [type |-> "clawback", cash |-> ledger[txs[w].arg].cash,
                                 journal |-> txs[w].arg])
    /\ outbox' = Ran(outbox, txs[w].event, txs[w].step)
    /\ txs' = [txs EXCEPT ![w] = Idle]
    /\ UNCHANGED <<bookingVars, settlement, dispute, tax, batches, deadLetters>>

-----------------------------------------------------------------------------
(* The reconciliation worker.  Re-emitting an event that is still pending  *)
(* is not distinguished from redelivering it.                              *)

RecoverBatch(r) ==
    /\ Recover /\ batches[r].status = "completed"
    /\ outbox[RefundCompleted(r)].state # "pending"
    /\ \/ batches[r].affects /\ (booking # "refunded" \/ settlement.refundId # r)
       \/ r = DisputeRefund /\ settlement.refundId # r
    /\ outbox' = Emit(outbox, RefundCompleted(r))
    /\ UNCHANGED <<bookingVars, financeVars, batches, txs, deadLetters>>

\* Mutant: only a booking that is already refunded is searched for its refund.
RecoverMissingRefundLate(r) ==
    /\ Recover /\ batches[r].status = "none"
    /\ outbox[RecoveryRequested(r)].state # "pending"
    /\ r = Cancellation /\ booking = "refunded" /\ refundDue > 0
    /\ outbox' = Emit(outbox, RecoveryRequested(r))
    /\ UNCHANGED <<bookingVars, financeVars, batches, txs, deadLetters>>

RecoverMissingRefund(r) ==
    /\ Recover /\ batches[r].status = "none"
    /\ outbox[RecoveryRequested(r)].state # "pending"
    /\ \/ r = Cancellation /\ booking \in {"cancelled", "refunded"} /\ refundDue > 0
       \/ r = SecurityRefund /\ booking = "no_show" /\ Security > 0
    /\ outbox' = Emit(outbox, RecoveryRequested(r))
    /\ UNCHANGED <<bookingVars, financeVars, batches, txs, deadLetters>>

-----------------------------------------------------------------------------
Init ==
    /\ booking = "confirmed" /\ paid = Deposit /\ refundDue = 0
    /\ balance = "none" /\ report = {} /\ returned = 0
    /\ settlement = [status |-> "held", kind |-> "service_completed",
                     held |-> Deposit, refunded |-> 0, retained |-> 0,
                     onsite |-> 0, due |-> FALSE, refundId |-> "none"]
    /\ dispute = [status |-> "none", refund |-> 0, full |-> FALSE]
    /\ batches = [r \in Reasons |-> [status |-> "none", amount |-> 0, affects |-> FALSE]]
    /\ ledger = <<>>
    /\ tax = [assessed |-> 0, reversals |-> [r \in Reasons |-> 0]]
    /\ outbox = [e \in Events |-> [state |-> "absent", ran |-> 0]]
    /\ deadLetters = 0
    /\ txs = [w \in Workers |-> Idle]

BookingNext ==
    \/ MarkCompleted \/ MarkReturned \/ MarkNoShow
    \/ \E percent \in RefundPercents \cup {100} : CancelBooking(percent)
    \/ OpenBalanceLink \/ BalanceSucceeds
DisputeNext ==
    \/ OpenSettlementDispute \/ ResolveForRelease
    \/ \E amount \in 1..settlement.held : ResolveWithRefund(amount)
HandlerNext ==
    \/ RecordHeldSettlement \/ RecordBalancePayment
    \/ StartSettlementWindow \/ StartNoShowWindow \/ PrepareCancellationRefund
    \/ PlanRefunds \/ SkipRelease
    \/ \E r \in Reasons : \/ IgnoreRefundCompleted(r) \/ FinalizeSettlementRefund(r)
                          \/ FinalizeRefundedBooking(r)
    \/ \E w \in Workers : \/ BeginRelease(w, ReleaseRequested)
                          \/ \E e \in ClawbackEvents : BeginClawback(w, e)
    \/ \E e \in Events : MarkProcessed(e)
WorkerNext ==
    \E w \in Workers : \/ BeginRelease(w, Sweep) \/ CommitRelease(w) \/ AbortRelease(w)
                       \/ ReadClawbackEntries(w) \/ CommitClawback(w)
RecoveryNext ==
    \E r \in Reasons : RecoverBatch(r) \/ RecoverMissingRefund(r)
EnvironmentNext ==
    \/ \E r \in Reasons : BatchCompletes(r) \/ BatchFails(r)
    \/ \E e \in Events : DeadLetter(e)

Next == BookingNext \/ DisputeNext \/ HandlerNext \/ WorkerNext \/ RecoveryNext
        \/ EnvironmentNext \/ WindowElapses

Spec == Init /\ [][Next]_vars

-----------------------------------------------------------------------------
SettlementRow == [status : SettlementStates, kind : Kinds, held : Nat, refunded : Nat,
                  retained : Nat, onsite : Nat, due : BOOLEAN,
                  refundId : Reasons \cup {"none"}]
DisputeRow == [status : {"none", "open", "accepted", "rejected"}, refund : Nat, full : BOOLEAN]
BatchRow == [status : {"none", "processing", "completed", "failed"}, amount : Nat,
             affects : BOOLEAN]
Journal == [type : {"revenue", "clawback"}, cash : Nat, journal : Nat]
TaxRows == [assessed : Nat, reversals : [Reasons -> Nat]]
OutboxRow == [state : {"absent", "pending", "processed", "dead"}, ran : 0..3]
Transaction == [op : {"idle", "release", "clawback_read", "clawback_write"},
                event : Events \cup {Sweep}, step : 0..2, arg : Nat, current : BOOLEAN]

(* Every row, event and open transaction has the shape its table gives it. *)
TypeOK ==
    /\ booking \in BookingStates
    /\ paid \in Nat /\ refundDue \in Nat /\ returned \in Nat
    /\ balance \in {"none", "pending", "succeeded"} /\ report \subseteq Nat
    /\ settlement \in SettlementRow
    /\ dispute \in DisputeRow
    /\ batches \in [Reasons -> BatchRow]
    /\ ledger \in Seq(Journal)
    /\ tax \in TaxRows
    /\ outbox \in [Events -> OutboxRow]
    /\ deadLetters \in Nat
    /\ txs \in [Workers -> Transaction]

(* The relay and the sweeps run on timers and the clock goes on; what the  *)
(* scheduler completes or returns is eventually completed or returned.     *)
(* Nothing is assumed of customers, tenants or the payment provider.       *)
Fairness ==
    /\ WF_vars(HandlerNext) /\ WF_vars(WorkerNext) /\ WF_vars(WindowElapses)
    /\ WF_vars(MarkCompleted \/ MarkReturned)
    /\ WF_vars(RecoveryNext)
FairSpec == Spec /\ Fairness

Quiet == /\ \A e \in Events : outbox[e].state \in {"absent", "processed"}
         /\ \A w \in Workers : txs[w] = Idle
         /\ \A r \in Reasons : batches[r].status # "processing"
ActiveCash == IF ActiveRevenue(ledger) = 0 THEN 0 ELSE ledger[ActiveRevenue(ledger)].cash
Paidback(r) == IF batches[r].status = "completed" THEN batches[r].amount ELSE 0
ServicePaidBack == Less(Paidback(Cancellation), Security) + Paidback(DisputeRefund)

(* The journals show revenue exactly while the settlement is released, and *)
(* exactly the money that custody did not give back: no refund path leaves *)
(* revenue standing, and no clawback takes away a later release.           *)
LedgerMatchesCustody ==
    ActiveCash = IF settlement.status = "released"
                 THEN Less(settlement.held, settlement.refunded) ELSE 0

(* Once nothing is in flight, the settlement's refunded_amount is the sum  *)
(* of the service money that the refund batches have really paid back.     *)
RefundsMatchCustody == Quiet => settlement.refunded = ServicePaidBack

(* Once nothing is in flight, the withholding tax of every refunded amount *)
(* has been reversed, and of nothing else.                                 *)
TaxFollowsRefunds == Quiet => Reversed = Least(settlement.refunded, tax.assessed)

(* As long as a dispute is open its settlement is frozen in `disputed`, so *)
(* neither a sweep nor a late refund can pay it out.                       *)
DisputeFreezesPayout == dispute.status = "open" => settlement.status = "disputed"

(* A settlement waits for a refund only while something is on its way that *)
(* ends the wait: an unhandled event, a batch, or a batch somebody has to  *)
(* look at.  Otherwise the partner's money is frozen for good.             *)
RefundPendingIsBacked ==
    settlement.status = "refund_pending" =>
        \/ outbox[Cancelled].state \in {"pending", "dead"}
        \/ outbox[RefundRequested].state \in {"pending", "dead"}
        \/ \E r \in Reasons : \/ batches[r].status \in {"processing", "failed"}
                              \/ /\ outbox[RefundCompleted(r)].state \in {"pending", "dead"}
                                 /\ outbox[RefundCompleted(r)].ran = 0

(* What finance and booking say about refunds is true: a settlement names  *)
(* only a completed batch, a refunded settlement names one, and a booking  *)
(* is refunded only when a batch that refunds the booking has completed.   *)
RefundTruth ==
    /\ settlement.refundId # "none" => batches[settlement.refundId].status = "completed"
    /\ settlement.status = "refunded" => settlement.refundId # "none"
    /\ booking = "refunded" =>
         \E r \in Reasons : batches[r].status = "completed" /\ batches[r].affects

(* Revenue is never recognised again before a clawback has reversed it,    *)
(* however release transactions overlap and handlers repeat.               *)
RevenueNotBookedTwice ==
    \A i \in 1..(Len(ledger) - 1) : ledger[i].type = "revenue" => ledger[i+1].type = "clawback"

(* What RecordClawbackJournalUseCase says of itself and does not keep: no   *)
(* revenue journal is clawed back twice, however often and from however    *)
(* many events its clawback runs.                                          *)
ClawedBackOnce ==
    \A i, j \in DOMAIN ledger :
        ledger[i].type = "clawback" /\ ledger[j].type = "clawback"
        /\ ledger[i].journal = ledger[j].journal => i = j

(* Likewise said and not kept: a clawback never reverses what a later      *)
(* release has booked, the money of a settlement that is released stands   *)
(* in the ledger.                                                          *)
ReleaseStands == settlement.status = "released" => ActiveRevenue(ledger) # 0

(* Repeated and reordered refunds never reverse more tax than was withheld. *)
TaxNeverOverReversed == Reversed <= tax.assessed

(* `refunded` is final for the booking and for its settlement: no repeated, *)
(* late or re-emitted event reopens what was given back in full.           *)
TerminalStatesStay ==
    [][/\ booking = "refunded" => booking' = "refunded"
       /\ settlement.status = "refunded" => settlement'.status = "refunded"]_vars

(* A cancellation's refund survives a lost event: the booking ends up      *)
(* refunded unless its batch stays with the provider.  A no-show's deposit *)
(* refund is planned, unless a dispute refunds the whole booking first.    *)
RefundsAreCarriedThrough ==
    /\ booking = "cancelled" /\ refundDue > 0 ~>
         \/ booking = "refunded"
         \/ [](batches[Cancellation].status \in {"processing", "failed"})
    /\ booking = "no_show" /\ Security > 0 ~>
         batches[SecurityRefund].status # "none" \/ booking = "refunded"

(* The money is released or given back in full, unless somebody is waited  *)
(* for: the tenant by an open dispute, the provider by a planned refund.   *)
SettlesUnlessWaiting ==
    []<>( \/ settlement.status \in {"released", "refunded"}
          \/ dispute.status = "open"
          \/ \E r \in Reasons : batches[r].status = "processing")

(* With every handler run exactly once, custody implements the escrow: the *)
(* amount promised back only grows, and the rest is revenue exactly once.  *)
Escrow == INSTANCE Escrow WITH Held <- Deposit, repaid <- settlement.refunded, earned <- ActiveCash
CustodyIsEscrow == Escrow!Spec

(* The handlers see an outbox that behaves as Delivery, the promise that   *)
(* its relay refines (Outbox): the handlers of an event commit in order,   *)
(* all of them before it counts as processed, any of them again until then.*)
Relay == INSTANCE Delivery WITH
    HandlersOf <- Handlers,
    state <- [e \in Events |-> outbox[e].state],
    done <- [e \in Events |-> 1..outbox[e].ran]
OutboxIsDelivery == Relay!Spec
=============================================================================
