---------------------------- MODULE BookingSlots ----------------------------
(***************************************************************************)
(* Bookings that compete for one resource, from the request to the refund: *)
(* approval and payment deadlines, the scheduler that acts on rows it has  *)
(* read before, payments that succeed at any time, the late payment that   *)
(* restores an expired booking or refunds it, and the cancellation.        *)
(*                                                                         *)
(* A use case is one action.  Confirming a payment is split where it reads *)
(* the booking and writes it in separate statements, and the refund of a   *)
(* late payment is a transaction of its own.                               *)
(***************************************************************************)
EXTENDS Naturals, FiniteSets

CONSTANTS
    Bookings,   \* requests for the resource, each with a fixed period
    Overlaps,   \* pairs of bookings whose periods overlap
    Inventory,  \* TRUE: the listing sells units of a stock, not a calendar
    Stock,      \* units of the listing; every booking asks for one
    Deposit,    \* of each booking: captured by the first payment
    Final,      \* of each booking: final_amount
    Methods,    \* payment methods a checkout of the deposit can use
    Redeliver,  \* TRUE: payment.succeeded may be handled again
    Workers,    \* relay processes that can overlap
    MaxDead     \* bound: events that exhaust their delivery attempts

ASSUME SlotAssumption ==
    /\ Overlaps \subseteq Bookings \X Bookings
    /\ \A b, c \in Bookings : <<b, c>> \in Overlaps => <<c, b>> \in Overlaps
    /\ Inventory \in BOOLEAN /\ Redeliver \in BOOLEAN
    /\ Stock \in Nat /\ MaxDead \in Nat
    /\ Deposit \in [Bookings -> Nat \ {0}] /\ Final \in [Bookings -> Nat]
    /\ \A b \in Bookings : Deposit[b] <= Final[b]
    /\ "balance" \notin Methods /\ IsFiniteSet(Methods)

VARIABLES
    bookings,    \* status, overdue (expires_at has passed), refundDue, paid
    payments,    \* payments, one attempt per booking and method
    events,      \* payment.succeeded of each attempt
    deadLetters, \* how many events have exhausted their attempts
    rows,        \* rows of the scheduler's last queries, not yet acted on
    txs          \* open confirmations and late refunds, per worker

vars == <<bookings, payments, events, deadLetters, rows, txs>>

Balance == "balance"
Attempts == Methods \cup {Balance}
Pending == {"pending_approval", "pending_payment"}
Holding == Pending \cup {"confirmed"}  \* the states that lock the calendar
Statuses == Holding \cup {"none", "rejected", "expired", "completed", "no_show",
                          "cancelled", "refunded"}

Rivals(b) == {c \in Bookings \ {b} : <<b, c>> \in Overlaps /\ bookings[c].status \in Holding}
Move(b, status) == [bookings EXCEPT ![b].status = status, ![b].overdue = FALSE]

-----------------------------------------------------------------------------
(* Creation and approval.  A calendar slot is guarded by the exclusion     *)
(* constraint, units by a count under the listing's advisory lock; the     *)
(* Redis hold in front of the constraint only refuses earlier.             *)

\* Mutant: the constraint forgets that approval is still to come.
AdmitsPaid(b) == IF Inventory THEN Cardinality(Rivals(b)) < Stock
                 ELSE \A c \in Rivals(b) : bookings[c].status = "pending_approval"
Admits(b) == IF Inventory THEN Cardinality(Rivals(b)) < Stock ELSE Rivals(b) = {}

CreateBooking(b) ==
    /\ bookings[b].status = "none" /\ Admits(b)
    /\ \E to \in Pending : bookings' = Move(b, to)
    /\ UNCHANGED <<payments, events, deadLetters, rows, txs>>

ApproveBooking(b) ==
    /\ bookings[b].status = "pending_approval"
    /\ bookings' = Move(b, "pending_payment")
    /\ UNCHANGED <<payments, events, deadLetters, rows, txs>>

RejectBooking(b) ==
    /\ bookings[b].status = "pending_approval"
    /\ bookings' = Move(b, "rejected")
    /\ UNCHANGED <<payments, events, deadLetters, rows, txs>>

-----------------------------------------------------------------------------
(* The scheduler reads due rows, then acts on each of them in a            *)
(* transaction that reads the booking again.                               *)

DeadlinePasses(b) ==
    /\ bookings[b].status \in Pending /\ ~bookings[b].overdue
    /\ bookings' = [bookings EXCEPT ![b].overdue = TRUE]
    /\ UNCHANGED <<payments, events, deadLetters, rows, txs>>

Captured(b) == \E a \in Attempts : payments[b][a] = "succeeded"
\* Mutant: a checkout that was merely opened keeps the booking alive.
DueOpened == {<<b, "rejected">> : b \in {c \in Bookings :
                 bookings[c].status = "pending_approval" /\ bookings[c].overdue}}
             \cup {<<b, "expired">> : b \in {c \in Bookings :
                 /\ bookings[c].status = "pending_payment" /\ bookings[c].overdue
                 /\ \A a \in Attempts : payments[c][a] = "none"}}
Due == {<<b, "rejected">> : b \in {c \in Bookings :
           bookings[c].status = "pending_approval" /\ bookings[c].overdue}}
       \cup {<<b, "expired">> : b \in {c \in Bookings :
           bookings[c].status = "pending_payment" /\ bookings[c].overdue /\ ~Captured(c)}}

Scan ==
    /\ Due \ rows # {}
    /\ rows' = rows \cup Due
    /\ UNCHANGED <<bookings, payments, events, deadLetters, txs>>

SystemEdges == {<<"pending_approval", "rejected">>, <<"pending_payment", "expired">>}

\* Mutant: the row's own verdict is written without looking at the booking.
SweepRowBlindly(b, to) ==
    /\ <<b, to>> \in rows
    /\ rows' = rows \ {<<b, to>>}
    /\ bookings' = Move(b, to)
    /\ UNCHANGED <<payments, events, deadLetters, txs>>

SweepRow(b, to) ==
    /\ <<b, to>> \in rows
    /\ rows' = rows \ {<<b, to>>}
    /\ bookings' = IF <<bookings[b].status, to>> \in SystemEdges
                   THEN Move(b, to) ELSE bookings
    /\ UNCHANGED <<payments, events, deadLetters, txs>>

-----------------------------------------------------------------------------
(* Payments.  A checkout is opened for a booking that can be paid; the     *)
(* provider may capture it at any later time.                              *)

OpenCheckout(b, a) ==
    /\ payments[b][a] \in {"none", "closed"}
    /\ IF a = Balance
       THEN bookings[b].status = "confirmed" /\ bookings[b].paid < Final[b]
       ELSE bookings[b].status = "pending_payment"
    /\ payments' = [payments EXCEPT ![b][a] = "pending"]
    /\ UNCHANGED <<bookings, events, deadLetters, rows, txs>>

Capture(b, a) ==
    /\ payments[b][a] = "pending"
    /\ payments' = [payments EXCEPT ![b][a] = "succeeded"]
    /\ events' = [events EXCEPT ![b][a] = "pending"]
    /\ UNCHANGED <<bookings, deadLetters, rows, txs>>

CloseAttempt(b, a) ==
    /\ payments[b][a] = "pending"
    /\ payments' = [payments EXCEPT ![b][a] = "closed"]
    /\ UNCHANGED <<bookings, events, deadLetters, rows, txs>>

-----------------------------------------------------------------------------
(* payment.succeeded.  A confirmed booking takes it as its balance; others *)
(* are confirmed, unless they are past that; the remaining states throw.   *)

Deliverable(b, a) == events[b][a] = "pending" \/ (Redeliver /\ events[b][a] = "handled")
Handled(b, a) == [events EXCEPT ![b][a] = "handled"]
RefundPending(b) == bookings[b].status = "expired" /\ bookings[b].refundDue

RecordBalancePayment(b, a) ==
    /\ Deliverable(b, a) /\ bookings[b].status = "confirmed"
    /\ bookings' = [bookings EXCEPT ![b].paid = Final[b]]
    /\ events' = Handled(b, a)
    /\ UNCHANGED <<payments, deadLetters, rows, txs>>

IgnorePayment(b, a) ==
    /\ Deliverable(b, a)
    /\ bookings[b].status \in {"completed", "no_show"} \/ RefundPending(b)
    /\ events' = Handled(b, a)
    /\ UNCHANGED <<bookings, payments, deadLetters, rows, txs>>

Idle == [op |-> "idle"]
BeginConfirm(w, b, a) ==
    /\ txs[w] = Idle /\ Deliverable(b, a)
    /\ bookings[b].status \in {"pending_payment", "expired"} /\ ~RefundPending(b)
    /\ txs' = [txs EXCEPT ![w] = [op |-> "confirm", booking |-> b, attempt |-> a,
                                  from |-> bookings[b].status]]
    /\ UNCHANGED <<bookings, payments, events, deadLetters, rows>>

\* Mutant: the guarded UPDATE does not ask for the missing refund intent.
UnchangedSinceStatus(t) == bookings[t.booking].status = t.from
(* What the guarded UPDATE asks of the row that was read before.           *)
UnchangedSince(t) ==
    /\ bookings[t.booking].status = t.from
    /\ t.from = "expired" => ~bookings[t.booking].refundDue

(* The UPDATE re-enters the exclusion constraint; units are not counted.   *)
Confirm(w) ==
    LET t == txs[w]
    IN  /\ t.op = "confirm" /\ UnchangedSince(t)
        /\ Inventory \/ Rivals(t.booking) = {}
        /\ bookings' = [bookings EXCEPT ![t.booking].status = "confirmed",
                                        ![t.booking].overdue = FALSE,
                                        ![t.booking].paid = Deposit[t.booking]]
        /\ events' = Handled(t.booking, t.attempt)
        /\ txs' = [txs EXCEPT ![w] = Idle]
        /\ UNCHANGED <<payments, deadLetters, rows>>

(* The constraint refuses: the transaction is lost, a new one will refund. *)
FindSlotTaken(w) ==
    LET t == txs[w]
    IN  /\ t.op = "confirm" /\ UnchangedSince(t)
        /\ ~Inventory /\ Rivals(t.booking) # {}
        /\ txs' = [txs EXCEPT ![w].op = "refund"]
        /\ UNCHANGED <<bookings, payments, events, deadLetters, rows>>

(* Somebody was faster: done if the booking no longer needs confirmation,  *)
(* otherwise the event stays for a retry.                                  *)
LoseConfirmationRace(w) ==
    LET t == txs[w]
        settled == \/ bookings[t.booking].status \in {"confirmed", "completed", "no_show"}
                   \/ RefundPending(t.booking)
    IN  /\ t.op = "confirm" /\ ~UnchangedSince(t)
        /\ events' = IF settled THEN Handled(t.booking, t.attempt) ELSE events
        /\ txs' = [txs EXCEPT ![w] = Idle]
        /\ UNCHANGED <<bookings, payments, deadLetters, rows>>

(* recordRefundIntent expects `expired` and throws otherwise.              *)
AutoRefund(w) ==
    LET t == txs[w]
        expired == bookings[t.booking].status = "expired"
    IN  /\ t.op = "refund"
        /\ bookings' = IF expired THEN [bookings EXCEPT ![t.booking].refundDue = TRUE]
                       ELSE bookings
        /\ events' = IF expired THEN Handled(t.booking, t.attempt) ELSE events
        /\ txs' = [txs EXCEPT ![w] = Idle]
        /\ UNCHANGED <<payments, deadLetters, rows>>

MarkProcessed(b, a) ==
    /\ events[b][a] = "handled"
    /\ events' = [events EXCEPT ![b][a] = "processed"]
    /\ UNCHANGED <<bookings, payments, deadLetters, rows, txs>>

DeadLetter(b, a) ==
    /\ events[b][a] = "pending" /\ deadLetters < MaxDead
    /\ events' = [events EXCEPT ![b][a] = "dead"]
    /\ deadLetters' = deadLetters + 1
    /\ UNCHANGED <<bookings, payments, rows, txs>>

\* Mutant: only bookings that never expired are looked at.
RecoverUnexpiredPayment(b, a) ==
    /\ payments[b][a] = "succeeded" /\ events[b][a] \in {"processed", "dead"}
    /\ bookings[b].status = "pending_payment"
    /\ events' = [events EXCEPT ![b][a] = "pending"]
    /\ UNCHANGED <<bookings, payments, deadLetters, rows, txs>>

(* Reconciliation re-emits the event of a payment whose booking still      *)
(* waits for it, and of every balance, which no settlement row names.      *)
RecoverPayment(b, a) ==
    /\ payments[b][a] = "succeeded" /\ events[b][a] \in {"processed", "dead"}
    /\ bookings[b].status \notin {"cancelled", "refunded"} /\ ~RefundPending(b)
    /\ bookings[b].status \in {"pending_payment", "expired"} \/ a = Balance
    /\ events' = [events EXCEPT ![b][a] = "pending"]
    /\ UNCHANGED <<bookings, payments, deadLetters, rows, txs>>

-----------------------------------------------------------------------------
(* The end of a booking.                                                   *)

CancelBooking(b) ==
    /\ bookings[b].status = "confirmed"
    /\ bookings' = [bookings EXCEPT ![b].status = "cancelled", ![b].refundDue = TRUE]
    /\ UNCHANGED <<payments, events, deadLetters, rows, txs>>

CompleteBooking(b) ==
    /\ bookings[b].status = "confirmed"
    /\ \E to \in {"completed", "no_show"} : bookings' = Move(b, to)
    /\ UNCHANGED <<payments, events, deadLetters, rows, txs>>

FinalizeRefund(b) ==
    /\ \/ bookings[b].status \in {"cancelled", "expired"} /\ bookings[b].refundDue
       \/ bookings[b].status \in {"completed", "no_show"}
    /\ bookings' = Move(b, "refunded")
    /\ UNCHANGED <<payments, events, deadLetters, rows, txs>>

-----------------------------------------------------------------------------
Init ==
    /\ bookings = [b \in Bookings |-> [status |-> "none", overdue |-> FALSE,
                                       refundDue |-> FALSE, paid |-> 0]]
    /\ payments = [b \in Bookings |-> [a \in Attempts |-> "none"]]
    /\ events = [b \in Bookings |-> [a \in Attempts |-> "absent"]]
    /\ deadLetters = 0 /\ rows = {}
    /\ txs = [w \in Workers |-> Idle]

BookingNext(b) ==
    \/ CreateBooking(b) \/ ApproveBooking(b) \/ RejectBooking(b) \/ DeadlinePasses(b)
    \/ CancelBooking(b) \/ CompleteBooking(b) \/ FinalizeRefund(b)
    \/ \E to \in {"rejected", "expired"} : SweepRow(b, to)
HandlePayment(b, a) ==
    \/ RecordBalancePayment(b, a) \/ IgnorePayment(b, a)
    \/ \E w \in Workers : BeginConfirm(w, b, a)
PaymentNext(b, a) ==
    \/ OpenCheckout(b, a) \/ Capture(b, a) \/ CloseAttempt(b, a)
    \/ HandlePayment(b, a) \/ MarkProcessed(b, a) \/ DeadLetter(b, a) \/ RecoverPayment(b, a)
WorkerNext(w) ==
    Confirm(w) \/ FindSlotTaken(w) \/ LoseConfirmationRace(w) \/ AutoRefund(w)

Next ==
    \/ \E b \in Bookings : BookingNext(b) \/ \E a \in Attempts : PaymentNext(b, a)
    \/ \E w \in Workers : WorkerNext(w)
    \/ Scan

Spec == Init /\ [][Next]_vars

(* Timers go on; the scheduler, the relay and the reconciliation worker    *)
(* poll.  Every poll of the relay takes all due events, so one event that  *)
(* is delivered again and again does not keep it from another.             *)
Fairness ==
    /\ WF_vars(\E b \in Bookings : DeadlinePasses(b))
    /\ WF_vars(Scan \/ \E b \in Bookings, to \in {"rejected", "expired"} : SweepRow(b, to))
    /\ WF_vars(\E w \in Workers : WorkerNext(w))
    /\ \A b \in Bookings, a \in Methods : SF_vars(HandlePayment(b, a))
    /\ WF_vars(\E b \in Bookings, a \in Methods : RecoverPayment(b, a))
FairSpec == Spec /\ Fairness

-----------------------------------------------------------------------------
BookingRow == [status : Statuses, overdue : BOOLEAN, refundDue : BOOLEAN, paid : Nat]
PaymentStatuses == {"none", "pending", "succeeded", "closed"}
EventStates == {"absent", "pending", "handled", "processed", "dead"}
Transaction == {Idle} \cup [op : {"confirm", "refund"}, booking : Bookings,
                            attempt : Attempts, from : {"pending_payment", "expired"}]

(* Every row, scheduler row and open transaction has its shape.            *)
TypeOK ==
    /\ bookings \in [Bookings -> BookingRow]
    /\ payments \in [Bookings -> [Attempts -> PaymentStatuses]]
    /\ events \in [Bookings -> [Attempts -> EventStates]]
    /\ deadLetters \in Nat
    /\ rows \subseteq Bookings \X {"rejected", "expired"}
    /\ txs \in [Workers -> Transaction]

Capacity == IF Inventory THEN Stock ELSE 1

(* No period is sold more often than there is something to sell, however   *)
(* creation, expiry and late payments interleave.                          *)
NeverOversold ==
    \A S \in SUBSET {b \in Bookings : bookings[b].status \in Holding} :
        (\A b, c \in S : b # c => <<b, c>> \in Overlaps) => Cardinality(S) <= Capacity

(* Once the refund of a booking is decided, no late, repeated or racing    *)
(* payment confirms the booking: the customer would be given both.         *)
RefundDecisionIsFinal ==
    \A b \in Bookings : bookings[b].refundDue =>
        bookings[b].status \in {"cancelled", "expired", "refunded"}

(* The scheduler acts on what a booking is, not on what it was when its    *)
(* row was read: it rejects only what still waits for approval, and        *)
(* expires only what waits for payment past its deadline.                  *)
SweepsActOnFreshState ==
    [][\A b \in Bookings :
         LET old == bookings[b] new == bookings'[b]
         IN  /\ new.status = "rejected" => old.status \in {"pending_approval", "rejected"}
             /\ new.status = "expired" =>
                  \/ old.status = "expired"
                  \/ old.status = "pending_payment" /\ old.overdue]_vars

(* A customer whose deposit was captured gets the booking or a refund,     *)
(* whatever expires, is taken by somebody else, or is lost in delivery.    *)
CapturedMoneyIsServed ==
    \A b \in Bookings : (\E a \in Methods : payments[b][a] = "succeeded") ~>
        \/ bookings[b].refundDue
        \/ bookings[b].status \in {"confirmed", "completed", "no_show", "refunded"}

(* A slot that nobody approves or pays for is free again some day.         *)
WaitingIsBounded ==
    \A b \in Bookings : bookings[b].status \in Pending ~> bookings[b].status \notin Pending

CapturedAmount(b) ==
    Deposit[b] * Cardinality({a \in Methods : payments[b][a] = "succeeded"})
    + IF payments[b][Balance] = "succeeded" THEN Final[b] - Deposit[b] ELSE 0

(* paid_amount never says more than the provider has captured.  The code   *)
(* keeps this only where the price leaves no room for a second or repeated *)
(* deposit to be taken for the balance.                                    *)
PaidWasCaptured == \A b \in Bookings : bookings[b].paid <= CapturedAmount(b)
=============================================================================
