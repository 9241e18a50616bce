------------------------- MODULE BookingSlotsProofs -------------------------
(***************************************************************************)
(* What holds of BookingSlots for any number of bookings and workers, any  *)
(* overlap of their periods and any delivery of their payment events.      *)
(***************************************************************************)
EXTENDS BookingSlots, FiniteSetTheorems, TLAPS

-----------------------------------------------------------------------------
(* Type correctness.                                                       *)

(* Moving a booking to a status leaves rows of bookings.                   *)
LEMMA MoveTypes ==
    ASSUME TypeOK, NEW b \in Bookings, NEW to \in Statuses
    PROVE  Move(b, to) \in [Bookings -> BookingRow]
BY DEF TypeOK, Move, BookingRow

(* A handled event leaves events.                                          *)
LEMMA HandledTypes ==
    ASSUME TypeOK, NEW b \in Bookings, NEW a \in Attempts
    PROVE  Handled(b, a) \in [Bookings -> [Attempts -> EventStates]]
BY DEF TypeOK, Handled, EventStates

(* Every state an action moves a booking to is a status.                   *)
LEMMA StatusNames ==
    /\ Pending \subseteq Statuses
    /\ {"pending_payment", "rejected", "expired", "completed", "no_show", "refunded",
        "cancelled", "confirmed"} \subseteq Statuses
BY DEF Pending, Holding, Statuses

(* The steps of a booking keep the types.                                  *)
LEMMA BookingTypes ==
    ASSUME TypeOK, NEW b \in Bookings, BookingNext(b)
    PROVE  TypeOK'
<1> USE StatusNames, MoveTypes
<1>1. CASE CreateBooking(b)
  <2>1. bookings' \in [Bookings -> BookingRow]
    BY <1>1 DEF CreateBooking
  <2> QED
    BY <1>1, <2>1 DEF CreateBooking, TypeOK
<1>2. CASE ApproveBooking(b)
  BY <1>2 DEF ApproveBooking, TypeOK
<1>3. CASE RejectBooking(b)
  BY <1>3 DEF RejectBooking, TypeOK
<1>4. CASE DeadlinePasses(b)
  BY <1>4 DEF DeadlinePasses, TypeOK, BookingRow
<1>5. CASE CancelBooking(b)
  BY <1>5 DEF CancelBooking, TypeOK, BookingRow
<1>6. CASE CompleteBooking(b)
  <2>1. bookings' \in [Bookings -> BookingRow]
    BY <1>6 DEF CompleteBooking
  <2> QED
    BY <1>6, <2>1 DEF CompleteBooking, TypeOK
<1>7. CASE FinalizeRefund(b)
  BY <1>7 DEF FinalizeRefund, TypeOK
<1>8. ASSUME NEW to \in {"rejected", "expired"}, SweepRow(b, to)
      PROVE  TypeOK'
  <2>1. bookings' \in [Bookings -> BookingRow]
    BY <1>8 DEF SweepRow, TypeOK
  <2> QED
    BY <1>8, <2>1 DEF SweepRow, TypeOK
<1> QED
  BY <1>1, <1>2, <1>3, <1>4, <1>5, <1>6, <1>7, <1>8 DEF BookingNext

(* The steps of a payment attempt and of its event keep the types.         *)
LEMMA PaymentTypes ==
    ASSUME TypeOK, NEW b \in Bookings, NEW a \in Attempts, PaymentNext(b, a)
    PROVE  TypeOK'
<1> USE HandledTypes, SlotAssumption DEF TypeOK
<1>1. CASE OpenCheckout(b, a)
  BY <1>1 DEF OpenCheckout, PaymentStatuses
<1>2. CASE Capture(b, a)
  BY <1>2 DEF Capture, PaymentStatuses, EventStates
<1>3. CASE CloseAttempt(b, a)
  BY <1>3 DEF CloseAttempt, PaymentStatuses
<1>4. CASE RecordBalancePayment(b, a)
  BY <1>4 DEF RecordBalancePayment, BookingRow
<1>5. CASE IgnorePayment(b, a)
  BY <1>5 DEF IgnorePayment
<1>6. ASSUME NEW w \in Workers, BeginConfirm(w, b, a)
      PROVE  TypeOK'
  <2>1. bookings[b].status \in {"pending_payment", "expired"}
    BY <1>6 DEF BeginConfirm
  <2>2. txs' \in [Workers -> Transaction]
    BY <1>6, <2>1 DEF BeginConfirm, Transaction
  <2> QED
    BY <1>6, <2>2 DEF BeginConfirm
<1>7. CASE MarkProcessed(b, a)
  BY <1>7 DEF MarkProcessed, EventStates
<1>8. CASE DeadLetter(b, a)
  BY <1>8 DEF DeadLetter, EventStates
<1>9. CASE RecoverPayment(b, a)
  BY <1>9 DEF RecoverPayment, EventStates
<1> QED
  BY <1>1, <1>2, <1>3, <1>4, <1>5, <1>6, <1>7, <1>8, <1>9 DEF PaymentNext, HandlePayment

(* A transaction that is not idle names a booking and an attempt.          *)
LEMMA TransactionTypes ==
    ASSUME TypeOK, NEW w \in Workers, txs[w].op \in {"confirm", "refund"}
    PROVE  /\ txs[w].booking \in Bookings /\ txs[w].attempt \in Attempts
           /\ txs[w].from \in {"pending_payment", "expired"}
           /\ [txs[w] EXCEPT !.op = "refund"] \in Transaction
<1>1. txs[w] \in [op : {"confirm", "refund"}, booking : Bookings, attempt : Attempts,
                  from : {"pending_payment", "expired"}]
  <2>1. txs[w] # Idle
    BY DEF Idle
  <2> QED
    BY <2>1 DEF TypeOK, Transaction
<1> QED
  BY <1>1 DEF Transaction

(* The end of a confirmation and the refund of a late payment keep types.  *)
LEMMA WorkerTypes ==
    ASSUME TypeOK, NEW w \in Workers, WorkerNext(w)
    PROVE  TypeOK'
<1> DEFINE t == txs[w]
<1>1. t.op \in {"confirm", "refund"}
  BY DEF WorkerNext, Confirm, FindSlotTaken, LoseConfirmationRace, AutoRefund
<1>2. /\ t.booking \in Bookings /\ t.attempt \in Attempts
      /\ [t EXCEPT !.op = "refund"] \in Transaction
  BY <1>1, TransactionTypes
<1>3. Handled(t.booking, t.attempt) \in [Bookings -> [Attempts -> EventStates]]
  BY <1>2, HandledTypes
<1>4. [txs EXCEPT ![w] = Idle] \in [Workers -> Transaction]
  BY DEF TypeOK, Transaction
<1> USE <1>2, <1>3, <1>4 DEF TypeOK
<1>5. CASE Confirm(w)
  <2> DEFINE new == [bookings[t.booking] EXCEPT !.status = "confirmed", !.overdue = FALSE,
                                                !.paid = Deposit[t.booking]]
  <2>1. bookings' \in [Bookings -> BookingRow]
    <3>1. new \in BookingRow
      <4>1. bookings[t.booking] \in BookingRow
        OBVIOUS
      <4>2. "confirmed" \in Statuses /\ Deposit[t.booking] \in Nat
        BY SlotAssumption, StatusNames
      <4> QED
        BY ONLY <4>1, <4>2 DEF BookingRow
    <3>2. bookings' = [bookings EXCEPT ![t.booking] = new]
      BY <1>5 DEF Confirm
    <3> HIDE DEF new
    <3> QED
      BY <3>1, <3>2
  <2> QED
    BY <1>5, <2>1 DEF Confirm
<1>6. CASE FindSlotTaken(w)
  <2>1. txs' = [txs EXCEPT ![w] = [t EXCEPT !.op = "refund"]]
    BY <1>6 DEF FindSlotTaken
  <2> QED
    BY <1>6, <2>1 DEF FindSlotTaken
<1>7. CASE LoseConfirmationRace(w)
  BY <1>7 DEF LoseConfirmationRace
<1>8. CASE AutoRefund(w)
  <2>1. bookings' \in [Bookings -> BookingRow]
    BY <1>8 DEF AutoRefund, BookingRow
  <2> QED
    BY <1>8, <2>1 DEF AutoRefund
<1> QED
  BY <1>5, <1>6, <1>7, <1>8 DEF WorkerNext

(* A scan queues pairs of a booking and a verdict.                         *)
LEMMA ScanTypes == TypeOK /\ Scan => TypeOK'
BY DEF TypeOK, Scan, Due

(* Every step keeps the types.                                             *)
LEMMA TypeStep == TypeOK /\ [Next]_vars => TypeOK'
<1> SUFFICES ASSUME TypeOK, [Next]_vars PROVE TypeOK'
  OBVIOUS
<1>1. CASE UNCHANGED vars
  BY <1>1 DEF vars, TypeOK
<1> QED
  BY <1>1, BookingTypes, PaymentTypes, WorkerTypes, ScanTypes DEF Next

(* Type correctness of bookings, payments, events and transactions.        *)
THEOREM TypeCorrect == Spec => []TypeOK
<1>1. Init => TypeOK
  BY DEF Init, TypeOK, BookingRow, Statuses, PaymentStatuses, EventStates, Transaction
<1> QED
  BY <1>1, TypeStep, PTL DEF Spec

-----------------------------------------------------------------------------
(* A calendar slot.  NeverOversold counts sets of bookings; inductive is   *)
(* that a booking which holds its slot has no rival.                       *)
Exclusive == ~Inventory => \A b \in Bookings : bookings[b].status \in Holding => Rivals(b) = {}

(* Leaving the calendar, or staying in it, keeps it exclusive.             *)
LEMMA HoldingShrinks ==
    ASSUME Exclusive,
           \A b \in Bookings : bookings'[b].status \in Holding => bookings[b].status \in Holding
    PROVE  Exclusive'
BY DEF Exclusive, Rivals

(* Entering the calendar where there is no rival keeps it exclusive.       *)
LEMMA HoldingGrows ==
    ASSUME Exclusive, NEW x \in Bookings, ~Inventory => Rivals(x) = {},
           \A b \in Bookings \ {x} : bookings'[b].status = bookings[b].status
    PROVE  Exclusive'
<1> SUFFICES ASSUME ~Inventory, NEW b \in Bookings, NEW c \in Bookings,
                    bookings'[b].status \in Holding, bookings'[c].status \in Holding,
                    c # b, <<b, c>> \in Overlaps
             PROVE  FALSE
  BY DEF Exclusive, Rivals
<1>1. <<c, b>> \in Overlaps
  BY SlotAssumption
<1>2. CASE b = x
  <2>1. bookings[c].status \in Holding
    BY <1>2
  <2> QED
    BY <1>2, <2>1 DEF Rivals
<1>3. CASE c = x
  <2>1. bookings[b].status \in Holding
    BY <1>3
  <2> QED
    BY <1>1, <1>3, <2>1 DEF Rivals
<1>4. CASE b # x /\ c # x
  <2>1. bookings[b].status \in Holding /\ bookings[c].status \in Holding
    BY <1>4
  <2> QED
    BY <2>1 DEF Exclusive, Rivals
<1> QED
  BY <1>2, <1>3, <1>4

(* Moving a booking changes its status and that of no other.               *)
LEMMA MoveStatus ==
    ASSUME TypeOK, NEW b \in Bookings, NEW to
    PROVE  \A c \in Bookings : Move(b, to)[c].status = IF c = b THEN to ELSE bookings[c].status
BY DEF TypeOK, BookingRow, Move

(* A booking enters the calendar when it is created, without a rival;      *)
(* every other of its steps keeps it there or takes it out.                *)
LEMMA BookingExclusive ==
    ASSUME TypeOK, Exclusive, NEW b \in Bookings, BookingNext(b)
    PROVE  Exclusive'
<1> USE MoveStatus DEF Holding, Pending
<1>1. CASE CreateBooking(b)
  <2>1. ~Inventory => Rivals(b) = {}
    BY <1>1 DEF CreateBooking, Admits
  <2>2. \A c \in Bookings \ {b} : bookings'[c].status = bookings[c].status
    BY <1>1 DEF CreateBooking
  <2> QED
    BY <2>1, <2>2, HoldingGrows
<1>2. CASE ApproveBooking(b) \/ RejectBooking(b)
  BY <1>2, HoldingShrinks DEF ApproveBooking, RejectBooking
<1>3. CASE DeadlinePasses(b)
  BY <1>3, HoldingShrinks DEF DeadlinePasses, TypeOK, BookingRow
<1>4. CASE CancelBooking(b)
  BY <1>4, HoldingShrinks DEF CancelBooking, TypeOK, BookingRow
<1>5. CASE CompleteBooking(b)
  BY <1>5, HoldingShrinks DEF CompleteBooking
<1>6. CASE FinalizeRefund(b)
  BY <1>6, HoldingShrinks DEF FinalizeRefund
<1>7. ASSUME NEW to \in {"rejected", "expired"}, SweepRow(b, to)
      PROVE  Exclusive'
  BY <1>7, HoldingShrinks DEF SweepRow
<1> QED
  BY <1>1, <1>2, <1>3, <1>4, <1>5, <1>6, <1>7 DEF BookingNext

(* A payment is confirmed into the calendar only where it has no rival.    *)
LEMMA WorkerExclusive ==
    ASSUME TypeOK, Exclusive, NEW w \in Workers, WorkerNext(w)
    PROVE  Exclusive'
<1> DEFINE x == txs[w].booking
<1>1. x \in Bookings
  BY TransactionTypes DEF WorkerNext, Confirm, FindSlotTaken, LoseConfirmationRace, AutoRefund
<1>2. CASE Confirm(w)
  <2>1. ~Inventory => Rivals(x) = {}
    BY <1>2 DEF Confirm
  <2>2. \A c \in Bookings \ {x} : bookings'[c].status = bookings[c].status
    BY <1>1, <1>2 DEF Confirm, TypeOK
  <2> QED
    BY <1>1, <2>1, <2>2, HoldingGrows
<1>3. CASE FindSlotTaken(w) \/ LoseConfirmationRace(w)
  BY <1>3, HoldingShrinks DEF FindSlotTaken, LoseConfirmationRace
<1>4. CASE AutoRefund(w)
  BY <1>1, <1>4, HoldingShrinks DEF AutoRefund, TypeOK, BookingRow
<1> QED
  BY <1>2, <1>3, <1>4 DEF WorkerNext

(* Payments and the scheduler's queries change no status.                  *)
LEMMA PaymentKeepsStatus ==
    ASSUME TypeOK, NEW b \in Bookings, NEW a \in Attempts, PaymentNext(b, a)
    PROVE  \A c \in Bookings : /\ bookings'[c].status = bookings[c].status
                               /\ bookings'[c].refundDue = bookings[c].refundDue
                               /\ bookings'[c].overdue = bookings[c].overdue
<1>1. CASE RecordBalancePayment(b, a)
  BY <1>1 DEF RecordBalancePayment, TypeOK, BookingRow
<1>2. CASE UNCHANGED bookings
  BY <1>2
<1> QED
  BY <1>1, <1>2 DEF PaymentNext, HandlePayment, OpenCheckout, Capture, CloseAttempt, IgnorePayment,
     BeginConfirm, MarkProcessed, DeadLetter, RecoverPayment

(* Every step keeps the calendar exclusive.                                *)
LEMMA ExclusiveStep == TypeOK /\ Exclusive /\ [Next]_vars => Exclusive'
<1> SUFFICES ASSUME TypeOK, Exclusive, [Next]_vars PROVE Exclusive'
  OBVIOUS
<1>1. ASSUME NEW b \in Bookings, NEW a \in Attempts, PaymentNext(b, a)
      PROVE  Exclusive'
  BY <1>1, PaymentKeepsStatus, HoldingShrinks
<1>2. CASE Scan \/ UNCHANGED vars
  BY <1>2, HoldingShrinks DEF Scan, vars
<1> QED
  BY <1>1, <1>2, BookingExclusive, WorkerExclusive DEF Next

(* Bookings that pairwise overlap and all hold their slot are at most one. *)
LEMMA ExclusiveNeverOversold == ~Inventory /\ Exclusive => NeverOversold
<1> SUFFICES ASSUME ~Inventory, Exclusive,
                    NEW S \in SUBSET {b \in Bookings : bookings[b].status \in Holding},
                    \A b, c \in S : b # c => <<b, c>> \in Overlaps
             PROVE  Cardinality(S) <= 1
  BY DEF NeverOversold, Capacity
<1>1. \A b, c \in S : b = c
  BY DEF Exclusive, Rivals
<1>2. CASE S = {}
  BY <1>2, FS_EmptySet
<1>3. ASSUME NEW b \in S PROVE Cardinality(S) <= 1
  <2>1. S = {b}
    BY <1>1
  <2> QED
    BY <2>1, FS_Singleton
<1> QED
  BY <1>2, <1>3

(* A calendar listing is never sold twice for one period, however requests,*)
(* expiry and late payments of any number of bookings interleave.          *)
THEOREM CalendarNeverOversold == ~Inventory /\ Spec => []NeverOversold
<1>1. Init => Exclusive
  BY DEF Init, Exclusive, Holding, Pending
<1>2. Spec => []Exclusive
  BY <1>1, ExclusiveStep, TypeCorrect, PTL DEF Spec
<1>3. CASE ~Inventory
  <2>1. Exclusive => NeverOversold
    BY <1>3, ExclusiveNeverOversold
  <2> QED
    BY <1>2, <2>1, PTL
<1> QED
  BY <1>3

(* What one step of a booking can do: only its own row changes, along the  *)
(* edges of the state machine; an expiry is a queued row; only a           *)
(* cancellation decides a refund.                                          *)
BookingEdge(b) ==
    LET old == bookings[b] new == bookings'[b]
    IN  /\ \A c \in Bookings \ {b} : bookings'[c] = bookings[c]
        /\ rows' \subseteq rows
        /\ new.refundDue => old.refundDue \/ new.status = "cancelled"
        /\ \/ old.status = "none" /\ new.status \in Pending
           \/ old.status = "pending_approval" /\ new.status \in {"pending_payment", "rejected"}
           \/ old.status = "pending_payment" /\ new.status = "expired" /\ <<b, "expired">> \in rows
           \/ old.status = "confirmed" /\ new.status \in {"cancelled", "completed", "no_show"}
           \/ /\ old.status \in {"cancelled", "expired", "completed", "no_show"}
              /\ new.status = "refunded"
           \/ old.status = new.status /\ (old.overdue => new.overdue)

(* Moving a booking keeps its refund decision and every other row.         *)
LEMMA MoveRow ==
    ASSUME TypeOK, NEW b \in Bookings, NEW to
    PROVE  /\ Move(b, to)[b].status = to
           /\ Move(b, to)[b].refundDue = bookings[b].refundDue
           /\ \A c \in Bookings \ {b} : Move(b, to)[c] = bookings[c]
BY DEF TypeOK, BookingRow, Move

(* Every step of a booking is such an edge.                                *)
LEMMA BookingEdges ==
    ASSUME TypeOK, NEW b \in Bookings, BookingNext(b)
    PROVE  BookingEdge(b)
<1> USE MoveRow DEF BookingEdge
<1>1. CASE CreateBooking(b)
  BY <1>1 DEF CreateBooking
<1>2. CASE ApproveBooking(b)
  BY <1>2 DEF ApproveBooking
<1>3. CASE RejectBooking(b)
  BY <1>3 DEF RejectBooking
<1>4. CASE DeadlinePasses(b)
  BY <1>4 DEF DeadlinePasses, TypeOK, BookingRow
<1>5. CASE CancelBooking(b)
  BY <1>5 DEF CancelBooking, TypeOK, BookingRow
<1>6. CASE CompleteBooking(b)
  BY <1>6 DEF CompleteBooking
<1>7. CASE FinalizeRefund(b)
  BY <1>7 DEF FinalizeRefund
<1>8. ASSUME NEW to \in {"rejected", "expired"}, SweepRow(b, to)
      PROVE  BookingEdge(b)
  <2>1. rows' \subseteq rows
    BY <1>8 DEF SweepRow
  <2>2. CASE <<bookings[b].status, to>> \in SystemEdges
    BY <1>8, <2>1, <2>2 DEF SweepRow, SystemEdges
  <2>3. CASE <<bookings[b].status, to>> \notin SystemEdges
    BY <1>8, <2>1, <2>3 DEF SweepRow
  <2> QED
    BY <2>2, <2>3
<1> QED
  BY <1>1, <1>2, <1>3, <1>4, <1>5, <1>6, <1>7, <1>8 DEF BookingNext

-----------------------------------------------------------------------------
(* The refund decision.                                                    *)

(* No step gives a booking whose refund is decided back to the customer.   *)
LEMMA RefundDecisionStep ==
    TypeOK /\ RefundDecisionIsFinal /\ [Next]_vars => RefundDecisionIsFinal'
<1> SUFFICES ASSUME TypeOK, RefundDecisionIsFinal, [Next]_vars PROVE RefundDecisionIsFinal'
  OBVIOUS
<1> USE DEF RefundDecisionIsFinal
<1>1. ASSUME NEW b \in Bookings, BookingNext(b) PROVE RefundDecisionIsFinal'
  <2>1. BookingEdge(b)
    BY <1>1, BookingEdges
  <2> QED
    BY <2>1 DEF BookingEdge, Pending
<1>2. ASSUME NEW w \in Workers, WorkerNext(w) PROVE RefundDecisionIsFinal'
  <2>1. /\ txs[w].booking \in Bookings
        /\ txs[w].from \in {"pending_payment", "expired"}
    BY <1>2, TransactionTypes
    DEF WorkerNext, Confirm, FindSlotTaken, LoseConfirmationRace, AutoRefund
  <2>2. CASE Confirm(w)
    <3>1. ~bookings[txs[w].booking].refundDue
      BY <2>1, <2>2 DEF Confirm, UnchangedSince
    <3> QED
      BY <2>1, <2>2, <3>1 DEF Confirm, TypeOK, BookingRow
  <2>3. CASE AutoRefund(w)
    BY <2>1, <2>3 DEF AutoRefund, TypeOK, BookingRow
  <2>4. CASE FindSlotTaken(w) \/ LoseConfirmationRace(w)
    BY <2>4 DEF FindSlotTaken, LoseConfirmationRace
  <2> QED
    BY <1>2, <2>2, <2>3, <2>4 DEF WorkerNext
<1>3. ASSUME NEW b \in Bookings, NEW a \in Attempts, PaymentNext(b, a)
      PROVE  RefundDecisionIsFinal'
  BY <1>3, PaymentKeepsStatus
<1>4. CASE Scan \/ UNCHANGED vars
  BY <1>4 DEF Scan, vars
<1> QED
  BY <1>1, <1>2, <1>3, <1>4 DEF Next

(* Once a refund is decided, no late, repeated or racing payment confirms  *)
(* the booking, with any number of overlapping workers.                    *)
THEOREM RefundDecisionFinal == Spec => []RefundDecisionIsFinal
<1>1. Init => RefundDecisionIsFinal
  BY DEF Init, RefundDecisionIsFinal
<1> QED
  BY <1>1, RefundDecisionStep, TypeCorrect, PTL DEF Spec

(* The end of a confirmation confirms a booking or leaves it where it is,  *)
(* and the scheduler's rows as they are.                                   *)
LEMMA WorkerEdges ==
    ASSUME TypeOK, NEW w \in Workers, WorkerNext(w)
    PROVE  /\ rows' = rows
           /\ \A b \in Bookings :
                \/ bookings'[b].status = "confirmed"
                \/ /\ bookings'[b].status = bookings[b].status
                   /\ bookings'[b].overdue = bookings[b].overdue
<1>1. txs[w].booking \in Bookings
  BY TransactionTypes DEF WorkerNext, Confirm, FindSlotTaken, LoseConfirmationRace, AutoRefund
<1>2. CASE Confirm(w)
  BY <1>1, <1>2 DEF Confirm, TypeOK, BookingRow
<1>3. CASE FindSlotTaken(w) \/ LoseConfirmationRace(w)
  BY <1>3 DEF FindSlotTaken, LoseConfirmationRace
<1>4. CASE AutoRefund(w)
  BY <1>1, <1>4 DEF AutoRefund, TypeOK, BookingRow
<1> QED
  BY <1>2, <1>3, <1>4 DEF WorkerNext

-----------------------------------------------------------------------------
(* The scheduler's stale rows.  What makes them harmless: a queued         *)
(* expiry stays true of a booking for as long as it still waits to be paid.*)
RowsStayTrue ==
    \A b \in Bookings : <<b, "expired">> \in rows =>
        /\ bookings[b].status \notin {"none", "pending_approval"}
        /\ bookings[b].status = "pending_payment" => bookings[b].overdue

(* No step makes a queued expiry false of a booking that still waits.      *)
LEMMA RowsStep == TypeOK /\ RowsStayTrue /\ [Next]_vars => RowsStayTrue'
<1> SUFFICES ASSUME TypeOK, RowsStayTrue, [Next]_vars PROVE RowsStayTrue'
  OBVIOUS
<1> USE DEF RowsStayTrue
<1>1. ASSUME NEW b \in Bookings, BookingNext(b) PROVE RowsStayTrue'
  <2>1. BookingEdge(b)
    BY <1>1, BookingEdges
  <2> QED
    BY <2>1 DEF BookingEdge, Pending
<1>2. ASSUME NEW w \in Workers, WorkerNext(w) PROVE RowsStayTrue'
  BY <1>2, WorkerEdges
<1>3. ASSUME NEW b \in Bookings, NEW a \in Attempts, PaymentNext(b, a)
      PROVE  RowsStayTrue'
  <2>1. rows' = rows
    BY <1>3 DEF PaymentNext, HandlePayment, OpenCheckout, Capture, CloseAttempt,
       RecordBalancePayment, IgnorePayment, BeginConfirm, MarkProcessed, DeadLetter, RecoverPayment
  <2> QED
    BY <1>3, <2>1, PaymentKeepsStatus
<1>4. CASE Scan
  BY <1>4 DEF Scan, Due
<1>5. CASE UNCHANGED vars
  BY <1>5 DEF vars
<1> QED
  BY <1>1, <1>2, <1>3, <1>4, <1>5 DEF Next

(* One step rejects or expires only what waits, and only past its deadline.*)
FreshStep ==
    \A b \in Bookings :
        LET old == bookings[b] new == bookings'[b]
        IN  /\ new.status = "rejected" => old.status \in {"pending_approval", "rejected"}
            /\ new.status = "expired" =>
                 \/ old.status = "expired"
                 \/ old.status = "pending_payment" /\ old.overdue

(* Every step is one of these, whatever row the scheduler acts on.         *)
LEMMA SweepStep == TypeOK /\ RowsStayTrue /\ [Next]_vars => [FreshStep]_vars
<1> SUFFICES ASSUME TypeOK, RowsStayTrue, Next PROVE FreshStep
  OBVIOUS
<1> USE DEF FreshStep
<1>1. ASSUME NEW b \in Bookings, BookingNext(b) PROVE FreshStep
  <2>1. BookingEdge(b)
    BY <1>1, BookingEdges
  <2> QED
    BY <2>1 DEF BookingEdge, Pending, RowsStayTrue
<1>2. ASSUME NEW w \in Workers, WorkerNext(w) PROVE FreshStep
  BY <1>2, WorkerEdges DEF FreshStep
<1>3. ASSUME NEW b \in Bookings, NEW a \in Attempts, PaymentNext(b, a) PROVE FreshStep
  BY <1>3, PaymentKeepsStatus DEF TypeOK
<1>4. CASE Scan
  BY <1>4 DEF Scan
<1> QED
  BY <1>1, <1>2, <1>3, <1>4 DEF Next

(* The scheduler rejects only what still waits for approval and expires    *)
(* only what waits for payment past its deadline, however old its rows.    *)
THEOREM SweepsFresh == Spec => SweepsActOnFreshState
<1>1. Init => RowsStayTrue
  BY DEF Init, RowsStayTrue
<1>2. Spec => []RowsStayTrue
  BY <1>1, RowsStep, TypeCorrect, PTL DEF Spec
<1>3. Spec => [][FreshStep]_vars
  BY <1>2, SweepStep, TypeCorrect, PTL DEF Spec
<1> QED
  BY <1>3 DEF SweepsActOnFreshState, FreshStep

-----------------------------------------------------------------------------
(* paid_amount.  The first amount is recorded by the confirmation, and the *)
(* whole price by any later event of a confirmed booking; inductive is     *)
(* which captures those events stand for.                                  *)

Served == {"confirmed", "completed", "no_show", "cancelled", "refunded"}
Succeeded(b, a) == payments[b][a] = "succeeded"

(* Only captures have events, and a balance is paid of what was confirmed. *)
CaptureInv ==
    /\ \A b \in Bookings, a \in Attempts : events[b][a] # "absent" => Succeeded(b, a)
    /\ \A b \in Bookings : payments[b][Balance] # "none" => bookings[b].status \in Served

(* A confirmation serves the capture of a deposit, and uses up its event.  *)
ConfirmInv ==
    /\ \A w \in Workers : txs[w] # Idle =>
         txs[w].attempt \in Methods /\ Succeeded(txs[w].booking, txs[w].attempt)
    /\ \A b \in Bookings : bookings[b].status = "confirmed" =>
         \E m \in Methods : events[b][m] \in {"handled", "processed"}

(* What is recorded as paid is the deposit of one capture, or the price,   *)
(* after a second capture unless events are handled again.                 *)
PaidInv ==
    \A b \in Bookings :
        \/ bookings[b].paid = 0
        \/ /\ bookings[b].paid = Deposit[b]
           /\ \E m \in Methods : Succeeded(b, m)
        \/ /\ bookings[b].paid = Final[b]
           /\ \E m \in Methods : /\ Succeeded(b, m)
                                 /\ Redeliver \/ \E a \in Attempts \ {m} : Succeeded(b, a)

PaymentInv == CaptureInv /\ ConfirmInv /\ PaidInv

(* Only checkouts, captures and closings write a payment.                  *)
LEMMA PaymentSteps ==
    ASSUME TypeOK, [Next]_vars
    PROVE  \/ payments' = payments
           \/ \E b \in Bookings, a \in Attempts :
                OpenCheckout(b, a) \/ Capture(b, a) \/ CloseAttempt(b, a)
<1>1. ASSUME NEW b \in Bookings, BookingNext(b) PROVE payments' = payments
  BY <1>1 DEF BookingNext, CreateBooking, ApproveBooking, RejectBooking, DeadlinePasses,
     CancelBooking, CompleteBooking, FinalizeRefund, SweepRow
<1>2. ASSUME NEW w \in Workers, WorkerNext(w) PROVE payments' = payments
  BY <1>2 DEF WorkerNext, Confirm, FindSlotTaken, LoseConfirmationRace, AutoRefund
<1>3. ASSUME NEW b \in Bookings, NEW a \in Attempts, PaymentNext(b, a),
             ~(OpenCheckout(b, a) \/ Capture(b, a) \/ CloseAttempt(b, a))
      PROVE  payments' = payments
  BY <1>3 DEF PaymentNext, HandlePayment, RecordBalancePayment, IgnorePayment, BeginConfirm,
     MarkProcessed, DeadLetter, RecoverPayment
<1>4. CASE Scan \/ UNCHANGED vars
  BY <1>4 DEF Scan, vars
<1> QED
  BY <1>1, <1>2, <1>3, <1>4 DEF Next

(* What the provider has captured stays captured.                          *)
LEMMA CapturesStand ==
    ASSUME TypeOK, [Next]_vars, NEW b \in Bookings, NEW a \in Attempts, Succeeded(b, a)
    PROVE  Succeeded(b, a)'
<1>1. CASE payments' = payments
  BY <1>1 DEF Succeeded
<1>2. ASSUME NEW c \in Bookings, NEW d \in Attempts,
             OpenCheckout(c, d) \/ Capture(c, d) \/ CloseAttempt(c, d)
      PROVE  Succeeded(b, a)'
  BY <1>2 DEF OpenCheckout, Capture, CloseAttempt, Succeeded, TypeOK
<1> QED
  BY <1>1, <1>2, PaymentSteps

(* A worker's transaction serves a capture that it found in an event.      *)
LEMMA ServesACapture ==
    ASSUME TypeOK, ConfirmInv, NEW w \in Workers, txs[w].op \in {"confirm", "refund"}
    PROVE  /\ txs[w].booking \in Bookings /\ txs[w].attempt \in Methods
           /\ txs[w].attempt \in Attempts
           /\ Succeeded(txs[w].booking, txs[w].attempt)
<1>1. txs[w] # Idle
  BY DEF Idle
<1> QED
  BY <1>1, TransactionTypes DEF ConfirmInv

(* How an event moves: it is emitted by a capture, handled, marked         *)
(* processed or given up, and emitted again only of what is not confirmed. *)
EventMoves(b, a, state) ==
    /\ events' = [events EXCEPT ![b][a] = state]
    /\ \/ payments[b][a] = "pending" /\ Succeeded(b, a)'
       \/ state = "handled" /\ Succeeded(b, a)
       \/ state = "processed" /\ events[b][a] = "handled"
       \/ state = "dead" /\ events[b][a] = "pending"
       \/ /\ state = "pending" /\ Succeeded(b, a) /\ bookings' = bookings
          /\ bookings[b].status # "confirmed" \/ a = Balance

(* Every step moves one event like that, or none.                          *)
LEMMA EventSteps ==
    ASSUME TypeOK, CaptureInv, ConfirmInv, [Next]_vars
    PROVE  \/ events' = events
           \/ \E b \in Bookings, a \in Attempts, state \in EventStates : EventMoves(b, a, state)
<1> DEFINE Moves == \E b \in Bookings, a \in Attempts, state \in EventStates :
                      EventMoves(b, a, state)
<1> HIDE DEF Moves
<1>1. ASSUME NEW b \in Bookings, BookingNext(b) PROVE events' = events
  BY <1>1 DEF BookingNext, CreateBooking, ApproveBooking, RejectBooking, DeadlinePasses,
     CancelBooking, CompleteBooking, FinalizeRefund, SweepRow
<1>2. ASSUME NEW b \in Bookings, NEW a \in Attempts, NEW state \in EventStates,
             EventMoves(b, a, state)
      PROVE  Moves
  BY <1>2 DEF Moves
<1>3. {"pending", "handled", "processed", "dead"} \subseteq EventStates
  BY DEF EventStates
<1>4. ASSUME NEW w \in Workers, WorkerNext(w) PROVE events' = events \/ Moves
  <2> DEFINE t == txs[w]
  <2>1. /\ t.booking \in Bookings /\ t.attempt \in Attempts
        /\ Succeeded(t.booking, t.attempt)
    BY <1>4, ServesACapture
    DEF WorkerNext, Confirm, FindSlotTaken, LoseConfirmationRace, AutoRefund
  <2>2. events' = events \/ events' = Handled(t.booking, t.attempt)
    BY <1>4 DEF WorkerNext, Confirm, FindSlotTaken, LoseConfirmationRace, AutoRefund
  <2>3. ASSUME events' = Handled(t.booking, t.attempt) PROVE Moves
    <3>1. EventMoves(t.booking, t.attempt, "handled")
      BY <2>1, <2>3 DEF EventMoves, Handled
    <3> QED
      BY <1>2, <1>3, <2>1, <3>1
  <2> QED
    BY <2>2, <2>3
<1>5. ASSUME NEW b \in Bookings, NEW a \in Attempts, PaymentNext(b, a)
      PROVE  events' = events \/ Moves
  <2>1. CASE OpenCheckout(b, a) \/ CloseAttempt(b, a) \/ \E w \in Workers : BeginConfirm(w, b, a)
    BY <2>1 DEF OpenCheckout, CloseAttempt, BeginConfirm
  <2>2. CASE Capture(b, a)
    <3>1. EventMoves(b, a, "pending")
      BY <2>2 DEF Capture, EventMoves, Succeeded, TypeOK
    <3> QED
      BY <1>2, <1>3, <3>1
  <2>3. CASE RecordBalancePayment(b, a) \/ IgnorePayment(b, a)
    <3>1. events[b][a] # "absent" /\ events' = Handled(b, a)
      BY <2>3 DEF RecordBalancePayment, IgnorePayment, Deliverable
    <3>2. EventMoves(b, a, "handled")
      BY <3>1 DEF CaptureInv, EventMoves, Handled
    <3> QED
      BY <1>2, <1>3, <3>2
  <2>4. CASE MarkProcessed(b, a)
    <3>1. EventMoves(b, a, "processed")
      BY <2>4 DEF MarkProcessed, EventMoves
    <3> QED
      BY <1>2, <1>3, <3>1
  <2>5. CASE DeadLetter(b, a)
    <3>1. EventMoves(b, a, "dead")
      BY <2>5 DEF DeadLetter, EventMoves
    <3> QED
      BY <1>2, <1>3, <3>1
  <2>6. CASE RecoverPayment(b, a)
    <3>1. EventMoves(b, a, "pending")
      BY <2>6 DEF RecoverPayment, EventMoves, Succeeded
    <3> QED
      BY <1>2, <1>3, <3>1
  <2> QED
    BY <1>5, <2>1, <2>2, <2>3, <2>4, <2>5, <2>6 DEF PaymentNext, HandlePayment
<1>6. CASE Scan \/ UNCHANGED vars
  BY <1>6 DEF Scan, vars
<1> QED
  BY <1>1, <1>4, <1>5, <1>6 DEF Next, Moves

(* A booking that was ever confirmed is never offered for payment again.   *)
LEMMA ServedStays ==
    ASSUME TypeOK, [Next]_vars, NEW b \in Bookings, bookings[b].status \in Served
    PROVE  bookings'[b].status \in Served
<1> USE DEF Served
<1>1. ASSUME NEW c \in Bookings, BookingNext(c) PROVE bookings'[b].status \in Served
  BY <1>1, BookingEdges DEF BookingEdge
<1>2. ASSUME NEW w \in Workers, WorkerNext(w) PROVE bookings'[b].status \in Served
  BY <1>2, WorkerEdges
<1>3. ASSUME NEW c \in Bookings, NEW a \in Attempts, PaymentNext(c, a)
      PROVE  bookings'[b].status \in Served
  BY <1>3, PaymentKeepsStatus
<1>4. CASE Scan \/ UNCHANGED vars
  BY <1>4 DEF Scan, vars
<1> QED
  BY <1>1, <1>2, <1>3, <1>4 DEF Next

(* Events go on standing for captures, and balances for confirmations.     *)
LEMMA CaptureStep == TypeOK /\ CaptureInv /\ ConfirmInv /\ [Next]_vars => CaptureInv'
<1> SUFFICES ASSUME TypeOK, CaptureInv, ConfirmInv, [Next]_vars PROVE CaptureInv'
  OBVIOUS
<1>1. ASSUME NEW b \in Bookings, NEW a \in Attempts, events'[b][a] # "absent"
      PROVE  Succeeded(b, a)'
  <2>1. CASE events[b][a] # "absent"
    BY <2>1, CapturesStand DEF CaptureInv
  <2>2. CASE events[b][a] = "absent"
    <3>1. PICK c \in Bookings, d \in Attempts, state \in EventStates : EventMoves(c, d, state)
      BY <1>1, <2>2, EventSteps
    <3>2. c = b /\ d = a
      BY <1>1, <2>2, <3>1 DEF EventMoves, TypeOK
    <3>3. Succeeded(b, a)' \/ Succeeded(b, a)
      BY <2>2, <3>1, <3>2 DEF EventMoves
    <3> QED
      BY <3>3, CapturesStand
  <2> QED
    BY <2>1, <2>2
<1>2. ASSUME NEW b \in Bookings, payments'[b][Balance] # "none"
      PROVE  bookings'[b].status \in Served
  <2> Balance \in Attempts
    BY DEF Attempts
  <2>1. CASE payments[b][Balance] # "none"
    BY <2>1, ServedStays DEF CaptureInv
  <2>2. CASE payments[b][Balance] = "none"
    <3>1. PICK c \in Bookings, a \in Attempts :
            OpenCheckout(c, a) \/ Capture(c, a) \/ CloseAttempt(c, a)
      BY <1>2, <2>2, PaymentSteps
    <3>2. c = b /\ a = Balance
      BY <1>2, <2>2, <3>1 DEF OpenCheckout, Capture, CloseAttempt, TypeOK
    <3>3. bookings[b].status = "confirmed"
      BY <2>2, <3>1, <3>2 DEF OpenCheckout, Capture, CloseAttempt
    <3> QED
      BY <3>3, ServedStays DEF Served
  <2> QED
    BY <2>1, <2>2
<1> QED
  BY <1>1, <1>2 DEF CaptureInv

(* A transaction is opened for the event it serves, and keeps to it.       *)
LEMMA TransactionSteps ==
    ASSUME TypeOK, [Next]_vars, NEW w \in Workers, txs'[w] # Idle
    PROVE  \/ /\ txs[w] # Idle
              /\ txs'[w].booking = txs[w].booking /\ txs'[w].attempt = txs[w].attempt
           \/ \E b \in Bookings, a \in Attempts :
                BeginConfirm(w, b, a) /\ txs'[w].booking = b /\ txs'[w].attempt = a
<1>1. ASSUME NEW b \in Bookings, BookingNext(b) PROVE txs' = txs
  BY <1>1 DEF BookingNext, CreateBooking, ApproveBooking, RejectBooking, DeadlinePasses,
     CancelBooking, CompleteBooking, FinalizeRefund, SweepRow
<1>2. ASSUME NEW v \in Workers, WorkerNext(v)
      PROVE  /\ txs[w] # Idle
             /\ txs'[w].booking = txs[w].booking /\ txs'[w].attempt = txs[w].attempt
  <2>1. txs[v] \in Transaction /\ txs[v] # Idle
    BY <1>2 DEF TypeOK, Idle, WorkerNext, Confirm, FindSlotTaken, LoseConfirmationRace, AutoRefund
  <2>2. CASE FindSlotTaken(v)
    <3>1. txs' = [txs EXCEPT ![v] = [txs[v] EXCEPT !.op = "refund"]]
      BY <2>2 DEF FindSlotTaken
    <3>2. [txs[v] EXCEPT !.op = "refund"].booking = txs[v].booking
          /\ [txs[v] EXCEPT !.op = "refund"].attempt = txs[v].attempt
      BY <2>1 DEF Transaction
    <3> QED
      BY <2>1, <3>1, <3>2 DEF TypeOK
  <2>3. CASE Confirm(v) \/ LoseConfirmationRace(v) \/ AutoRefund(v)
    BY <2>3 DEF Confirm, LoseConfirmationRace, AutoRefund, TypeOK
  <2> QED
    BY <1>2, <2>2, <2>3 DEF WorkerNext
<1>3. ASSUME NEW b \in Bookings, NEW a \in Attempts, NEW v \in Workers, BeginConfirm(v, b, a)
      PROVE  txs'[w] = txs[w] \/ /\ BeginConfirm(w, b, a)
                                 /\ txs'[w].booking = b /\ txs'[w].attempt = a
  BY <1>3 DEF BeginConfirm, TypeOK
<1>4. ASSUME NEW b \in Bookings, NEW a \in Attempts, PaymentNext(b, a),
             \A v \in Workers : ~BeginConfirm(v, b, a)
      PROVE  txs' = txs
  BY <1>4 DEF PaymentNext, HandlePayment, OpenCheckout, Capture, CloseAttempt,
     RecordBalancePayment, IgnorePayment, MarkProcessed, DeadLetter, RecoverPayment
<1>5. CASE Scan \/ UNCHANGED vars
  BY <1>5 DEF Scan, vars
<1> QED
  BY <1>1, <1>2, <1>3, <1>4, <1>5 DEF Next

(* What confirms a booking, and what leaves it confirmed.                  *)
LEMMA ConfirmedBy ==
    ASSUME TypeOK, [Next]_vars, NEW b \in Bookings, bookings'[b].status = "confirmed"
    PROVE  \/ bookings[b].status = "confirmed"
           \/ \E w \in Workers : Confirm(w) /\ txs[w].booking = b
<1>1. ASSUME NEW c \in Bookings, BookingNext(c) PROVE bookings[b].status = "confirmed"
  BY <1>1, BookingEdges DEF BookingEdge, Pending
<1>2. ASSUME NEW w \in Workers, WorkerNext(w), bookings[b].status # "confirmed"
      PROVE  Confirm(w) /\ txs[w].booking = b
  <2>1. txs[w].booking \in Bookings
    BY <1>2, TransactionTypes
    DEF WorkerNext, Confirm, FindSlotTaken, LoseConfirmationRace, AutoRefund
  <2>2. CASE Confirm(w)
    BY <1>2, <2>1, <2>2 DEF Confirm, TypeOK
  <2>3. CASE FindSlotTaken(w) \/ LoseConfirmationRace(w) \/ AutoRefund(w)
    BY <1>2, <2>1, <2>3 DEF FindSlotTaken, LoseConfirmationRace, AutoRefund, TypeOK, BookingRow
  <2> QED
    BY <1>2, <2>2, <2>3 DEF WorkerNext
<1>3. ASSUME NEW c \in Bookings, NEW a \in Attempts, PaymentNext(c, a)
      PROVE  bookings[b].status = "confirmed"
  BY <1>3, PaymentKeepsStatus
<1>4. CASE Scan \/ UNCHANGED vars
  BY <1>4 DEF Scan, vars
<1> QED
  BY <1>1, <1>2, <1>3, <1>4 DEF Next

(* Confirmations go on serving deposits, and their events stay used up.    *)
LEMMA ConfirmStep == TypeOK /\ CaptureInv /\ ConfirmInv /\ [Next]_vars => ConfirmInv'
<1> SUFFICES ASSUME TypeOK, CaptureInv, ConfirmInv, [Next]_vars PROVE ConfirmInv'
  OBVIOUS
<1>1. ASSUME NEW w \in Workers, txs'[w] # Idle
      PROVE  txs'[w].attempt \in Methods /\ Succeeded(txs[w].booking, txs[w].attempt)'
  <2>1. CASE /\ txs[w] # Idle
             /\ txs'[w].booking = txs[w].booking /\ txs'[w].attempt = txs[w].attempt
    <3>1. txs[w].op \in {"confirm", "refund"}
      BY <2>1 DEF TypeOK, Transaction
    <3>2. Succeeded(txs[w].booking, txs[w].attempt) /\ txs[w].attempt \in Methods
          /\ txs[w].attempt \in Attempts /\ txs[w].booking \in Bookings
      BY <3>1, ServesACapture
    <3>3. payments'[txs[w].booking][txs[w].attempt] = "succeeded"
      BY <3>2, CapturesStand DEF Succeeded
    <3> QED
      BY <2>1, <3>2, <3>3 DEF Succeeded
  <2>2. ASSUME NEW b \in Bookings, NEW a \in Attempts,
               BeginConfirm(w, b, a) /\ txs'[w].booking = b /\ txs'[w].attempt = a
        PROVE  txs'[w].attempt \in Methods /\ Succeeded(txs[w].booking, txs[w].attempt)'
    <3>1. Succeeded(b, a)
      BY <2>2 DEF BeginConfirm, Deliverable, CaptureInv
    <3>2. a # Balance
      <4>1. bookings[b].status \notin Served
        BY <2>2 DEF BeginConfirm, Served
      <4> QED
        BY <3>1, <4>1 DEF CaptureInv, Succeeded
    <3>3. payments' = payments
      BY <2>2 DEF BeginConfirm
    <3> QED
      BY <2>2, <3>1, <3>2, <3>3 DEF Attempts, Succeeded
  <2> QED
    BY <1>1, <2>1, <2>2, TransactionSteps
<1>2. ASSUME NEW b \in Bookings, bookings'[b].status = "confirmed"
      PROVE  \E m \in Methods : events'[b][m] \in {"handled", "processed"}
  <2>1. CASE bookings[b].status = "confirmed"
    <3>1. PICK m \in Methods : events[b][m] \in {"handled", "processed"}
      BY <2>1 DEF ConfirmInv
    <3>2. m \in Attempts /\ m # Balance
      BY SlotAssumption DEF Attempts, Balance
    <3>3. Succeeded(b, m)
      BY <3>1, <3>2 DEF CaptureInv
    <3>4. ASSUME NEW c \in Bookings, NEW a \in Attempts, NEW state \in EventStates,
                 EventMoves(c, a, state)
          PROVE  events'[b][m] \in {"handled", "processed"}
      <4>1. CASE c = b /\ a = m
        BY <2>1, <3>1, <3>2, <3>3, <3>4, <4>1 DEF EventMoves, TypeOK, Succeeded
      <4>2. CASE ~(c = b /\ a = m)
        BY <3>1, <3>2, <3>4, <4>2 DEF EventMoves, TypeOK
      <4> QED
        BY <4>1, <4>2
    <3> QED
      BY <3>1, <3>4, EventSteps
  <2>2. ASSUME NEW w \in Workers, Confirm(w), txs[w].booking = b
        PROVE  \E m \in Methods : events'[b][m] \in {"handled", "processed"}
    <3>1. txs[w].attempt \in Methods /\ txs[w].attempt \in Attempts
      BY <2>2, ServesACapture DEF Confirm
    <3>2. events'[b][txs[w].attempt] = "handled"
      BY <2>2, <3>1 DEF Confirm, Handled, TypeOK
    <3> QED
      BY <3>1, <3>2
  <2> QED
    BY <1>2, <2>1, <2>2, ConfirmedBy
<1> QED
  BY <1>1, <1>2 DEF ConfirmInv

(* The two writers of paid_amount.                                         *)
LEMMA WhoWritesPaid ==
    ASSUME TypeOK, [Next]_vars, NEW b \in Bookings
    PROVE  \/ bookings'[b].paid = bookings[b].paid
           \/ /\ \E w \in Workers : Confirm(w) /\ txs[w].booking = b
              /\ bookings'[b].paid = Deposit[b]
           \/ /\ \E a \in Attempts : RecordBalancePayment(b, a)
              /\ bookings'[b].paid = Final[b]
<1>1. ASSUME NEW c \in Bookings, BookingNext(c) PROVE bookings'[b].paid = bookings[b].paid
  <2>1. \A to : Move(c, to)[b].paid = bookings[b].paid
    BY DEF Move, TypeOK, BookingRow
  <2> QED
    BY <1>1, <2>1 DEF BookingNext, CreateBooking, ApproveBooking, RejectBooking, DeadlinePasses,
       CancelBooking, CompleteBooking, FinalizeRefund, SweepRow, TypeOK, BookingRow
<1>2. ASSUME NEW w \in Workers, WorkerNext(w)
      PROVE  \/ bookings'[b].paid = bookings[b].paid
             \/ Confirm(w) /\ txs[w].booking = b /\ bookings'[b].paid = Deposit[b]
  <2>1. txs[w].booking \in Bookings
    BY <1>2, TransactionTypes
    DEF WorkerNext, Confirm, FindSlotTaken, LoseConfirmationRace, AutoRefund
  <2>2. CASE Confirm(w)
    BY <2>1, <2>2 DEF Confirm, TypeOK, BookingRow
  <2>3. CASE FindSlotTaken(w) \/ LoseConfirmationRace(w) \/ AutoRefund(w)
    BY <2>1, <2>3 DEF FindSlotTaken, LoseConfirmationRace, AutoRefund, TypeOK, BookingRow
  <2> QED
    BY <1>2, <2>2, <2>3 DEF WorkerNext
<1>3. ASSUME NEW c \in Bookings, NEW a \in Attempts, PaymentNext(c, a)
      PROVE  \/ bookings'[b].paid = bookings[b].paid
             \/ RecordBalancePayment(b, a) /\ bookings'[b].paid = Final[b]
  <2>1. CASE RecordBalancePayment(c, a)
    BY <2>1 DEF RecordBalancePayment, TypeOK, BookingRow
  <2>2. CASE UNCHANGED bookings
    BY <2>2
  <2> QED
    BY <1>3, <2>1, <2>2 DEF PaymentNext, HandlePayment, OpenCheckout, Capture, CloseAttempt,
       IgnorePayment, BeginConfirm, MarkProcessed, DeadLetter, RecoverPayment
<1>4. CASE Scan \/ UNCHANGED vars
  BY <1>4 DEF Scan, vars
<1> QED
  BY <1>1, <1>2, <1>3, <1>4 DEF Next

(* Each of them records a capture, and the price after a second one.       *)
LEMMA PaidStep == TypeOK /\ CaptureInv /\ ConfirmInv /\ PaidInv /\ [Next]_vars => PaidInv'
<1> SUFFICES ASSUME TypeOK, CaptureInv, ConfirmInv, PaidInv, [Next]_vars, NEW b \in Bookings
             PROVE  \/ bookings'[b].paid = 0
                    \/ /\ bookings'[b].paid = Deposit[b]
                       /\ \E m \in Methods : Succeeded(b, m)'
                    \/ /\ bookings'[b].paid = Final[b]
                       /\ \E m \in Methods :
                            /\ Succeeded(b, m)'
                            /\ Redeliver \/ \E a \in Attempts \ {m} : Succeeded(b, a)'
  BY DEF PaidInv
<1>1. \A a \in Attempts : Succeeded(b, a) => Succeeded(b, a)'
  BY CapturesStand
<1>2. Methods \subseteq Attempts
  BY DEF Attempts
<1>3. CASE bookings'[b].paid = bookings[b].paid
  BY <1>1, <1>2, <1>3 DEF PaidInv
<1>4. ASSUME NEW w \in Workers, Confirm(w), txs[w].booking = b
      PROVE  \E m \in Methods : Succeeded(b, m)'
  BY <1>1, <1>4, ServesACapture DEF Confirm
<1>5. ASSUME NEW a \in Attempts, RecordBalancePayment(b, a)
      PROVE  \E m \in Methods : /\ Succeeded(b, m)'
                                /\ Redeliver \/ \E d \in Attempts \ {m} : Succeeded(b, d)'
  <2>1. bookings[b].status = "confirmed" /\ Deliverable(b, a)
    BY <1>5 DEF RecordBalancePayment
  <2>2. PICK m \in Methods : events[b][m] \in {"handled", "processed"}
    BY <2>1 DEF ConfirmInv
  <2>3. Succeeded(b, m)
    BY <1>2, <2>2 DEF CaptureInv
  <2>4. ASSUME ~Redeliver PROVE a # m /\ Succeeded(b, a)
    BY <2>1, <2>2, <2>4 DEF Deliverable, CaptureInv
  <2> QED
    BY <1>1, <1>2, <2>3, <2>4
<1> QED
  BY <1>3, <1>4, <1>5, WhoWritesPaid

LEMMA PaymentInvStep == TypeOK /\ PaymentInv /\ [Next]_vars => PaymentInv'
BY CaptureStep, ConfirmStep, PaidStep DEF PaymentInv

LEMMA PaymentInvInit == Init => PaymentInv
<1> SUFFICES ASSUME Init PROVE PaymentInv
  OBVIOUS
<1>1. CaptureInv
  BY DEF Init, CaptureInv, Attempts
<1>2. ConfirmInv
  BY DEF Init, ConfirmInv
<1>3. PaidInv
  BY DEF Init, PaidInv
<1> QED
  BY <1>1, <1>2, <1>3 DEF PaymentInv

(* When the price is all that the captures of a confirmed booking can      *)
(* stand for: it is paid at once, or no event is handled again and the     *)
(* deposit cannot be captured twice, or two deposits cover the price.      *)
PriceIsCovered ==
    \A b \in Bookings :
        \/ Final[b] = Deposit[b]
        \/ /\ ~Redeliver
           /\ (\A m, n \in Methods : m = n) \/ Final[b] <= 2 * Deposit[b]

(* One deposit captured is one deposit paid, two are two.                  *)
LEMMA CapturedDeposits ==
    ASSUME NEW b \in Bookings,
           NEW S, S = {a \in Methods : payments[b][a] = "succeeded"}
    PROVE  /\ Cardinality(S) \in Nat
           /\ \A m \in S : Cardinality(S) >= 1
           /\ \A m, n \in S : m # n => Cardinality(S) >= 2
<1>1. IsFiniteSet(S)
  BY SlotAssumption, FS_Subset
<1>2. Cardinality(S) \in Nat
  BY <1>1, FS_CardinalityType
<1>3. ASSUME NEW m \in S PROVE Cardinality(S) >= 1
  <2>1. Cardinality({m}) = 1
    BY FS_Singleton
  <2>2. {m} \subseteq S
    OBVIOUS
  <2>3. Cardinality({m}) <= Cardinality(S)
    BY <1>1, <2>2, FS_Subset
  <2> QED
    BY <1>2, <2>1, <2>3
<1>4. ASSUME NEW m \in S, NEW n \in S, m # n PROVE Cardinality(S) >= 2
  <2>1. Cardinality({m}) = 1 /\ IsFiniteSet({m}) /\ n \notin {m}
    BY <1>4, FS_Singleton
  <2>2. Cardinality({m} \cup {n}) = Cardinality({m}) + 1
    BY <2>1, FS_AddElement
  <2>3. Cardinality({m} \cup {n}) <= Cardinality(S)
    BY <1>1, FS_Subset
  <2> QED
    BY <1>2, <2>1, <2>2, <2>3
<1> QED
  BY <1>2, <1>3, <1>4

(* PaidInv keeps paid_amount within what was captured.                     *)
LEMMA PaidWithinCaptures ==
    ASSUME PriceIsCovered, TypeOK, PaidInv
    PROVE  PaidWasCaptured
<1> SUFFICES ASSUME NEW b \in Bookings PROVE bookings[b].paid <= CapturedAmount(b)
  BY DEF PaidWasCaptured
<1> DEFINE S == {a \in Methods : payments[b][a] = "succeeded"}
           k == Cardinality(S)
           rest == IF payments[b][Balance] = "succeeded" THEN Final[b] - Deposit[b] ELSE 0
<1>1. /\ k \in Nat
      /\ \A m \in Methods : Succeeded(b, m) => k >= 1
      /\ \A m, n \in Methods : m # n /\ Succeeded(b, m) /\ Succeeded(b, n) => k >= 2
  BY CapturedDeposits DEF Succeeded
<1>2. CapturedAmount(b) = Deposit[b] * k + rest
  BY DEF CapturedAmount
<1>3. /\ Deposit[b] \in Nat /\ Final[b] \in Nat /\ Deposit[b] <= Final[b]
      /\ rest \in Nat
  BY SlotAssumption
<1>4. /\ k >= 1 => Deposit[b] * k >= Deposit[b]
      /\ k >= 2 => Deposit[b] * k >= 2 * Deposit[b]
      /\ Deposit[b] * k \in Nat
  <2> DEFINE d == Deposit[b]
  <2> HIDE DEF d, k
  <2>1. d \in Nat /\ k \in Nat
    BY <1>1, <1>3 DEF d
  <2>2. (k >= 1 => d * k >= d) /\ (k >= 2 => d * k >= 2 * d) /\ d * k \in Nat
    BY <2>1
  <2> QED
    BY <2>2 DEF d
<1> HIDE DEF k, S
<1>5. CASE bookings[b].paid = 0
  BY <1>2, <1>3, <1>4, <1>5
<1>6. CASE bookings[b].paid = Deposit[b] /\ \E m \in Methods : Succeeded(b, m)
  BY <1>1, <1>2, <1>3, <1>4, <1>6
<1>7. ASSUME bookings[b].paid = Final[b], NEW m \in Methods, Succeeded(b, m),
             Redeliver \/ \E a \in Attempts \ {m} : Succeeded(b, a)
      PROVE  bookings[b].paid <= CapturedAmount(b)
  <2>1. k >= 1
    BY <1>1, <1>7
  <2>2. CASE Final[b] = Deposit[b]
    BY <1>1, <1>2, <1>3, <1>4, <1>7, <2>1, <2>2
  <2>3. ASSUME NEW a \in Attempts \ {m}, Succeeded(b, a), ~Redeliver,
               (\A n, o \in Methods : n = o) \/ Final[b] <= 2 * Deposit[b]
        PROVE  bookings[b].paid <= CapturedAmount(b)
    <3>1. CASE a = Balance
      <4>1. rest = Final[b] - Deposit[b]
        BY <2>3, <3>1 DEF Succeeded
      <4> QED
        BY <1>1, <1>2, <1>3, <1>4, <1>7, <2>1, <4>1
    <3>2. CASE a # Balance
      <4>1. a \in Methods /\ k >= 2 /\ Final[b] <= 2 * Deposit[b]
        BY <1>1, <1>7, <2>3, <3>2 DEF Attempts
      <4> QED
        BY <1>1, <1>2, <1>3, <1>4, <1>7, <4>1
    <3> QED
      BY <3>1, <3>2
  <2> QED
    BY <1>7, <2>2, <2>3 DEF PriceIsCovered
<1> QED
  BY <1>5, <1>6, <1>7 DEF PaidInv

(* PaidWasCaptured wherever a confirmed booking cannot be credited a       *)
(* balance that nobody paid, for any number of bookings, methods and       *)
(* workers, with payments captured, lost and recovered at any time.        *)
THEOREM PaidIsCaptured == PriceIsCovered => (Spec => []PaidWasCaptured)
<1> SUFFICES ASSUME PriceIsCovered PROVE Spec => []PaidWasCaptured
  OBVIOUS
<1>1. TypeOK /\ PaymentInv => PaidWasCaptured
  BY PaidWithinCaptures DEF PaymentInv
<1> QED
  BY <1>1, PaymentInvInit, PaymentInvStep, TypeCorrect, PTL DEF Spec
=============================================================================
