------------------------------ MODULE Refunds ------------------------------
(***************************************************************************)
(* The refunds of ONE booking: a batch per reason, a refund per capture it *)
(* is taken from, the gateways that push money back, the people who        *)
(* transfer it by hand, and the manual refund workflow of the tenant.      *)
(* Bookings share only the tenant's workflow flags: the lock, the batches, *)
(* the refunds and the operations are keyed by the booking.                *)
(*                                                                         *)
(* A gateway is called between two transactions; planning a refund is      *)
(* split at its last read, the workflow flag; a confirmation is split      *)
(* behind its read of the same flag.  The other use cases compare and swap *)
(* on a version or are one conditional update, and are single steps.       *)
(* Custody takes from here that a batch is announced once, when paid.      *)
(***************************************************************************)
EXTENDS Integers, FiniteSets, Functions

CONSTANTS
    Payments,       \* the captures of the booking
    Captured,       \* the amount of each
    Age,            \* 1 for the newest capture, larger for older ones
    DepositSource,  \* the capture that took the security deposit
    Wallets,        \* captures by gateways that refund any part of an order
    Cards,          \* captures that their gateway can only void in full
    Reasons,        \* why money goes back: one batch each
    Deposit,        \* the reason that returns the security deposit
    Amounts,        \* what a reason may ask for
    Workers,        \* relays and sweeps that execute automatic refunds
    MaxConfirming,  \* bound: confirmations under way at once
    MaxTransfers    \* bound: bank transfers the payout gateway sends for a batch

ASSUME PaymentAssumption ==
    /\ IsFiniteSet(Payments) /\ DepositSource \in Payments
    /\ Captured \in [Payments -> Nat] /\ Age \in [Payments -> Nat]
    /\ \A p, q \in Payments : Age[p] = Age[q] => p = q
ASSUME ReasonAssumption ==
    /\ IsFiniteSet(Reasons) /\ Deposit \in Reasons
    /\ Amounts \subseteq Nat \ {0}

VARIABLES
    batches,     \* refund_batches, with the announcements made for each
    refunds,     \* refunds, per reason and capture
    planning,    \* open ExecuteRefund transactions, per reason
    operations,  \* manual_refund_operations, per reason
    workflow,    \* the tenant's flags
    confirming,  \* confirmations that found the workflow disabled
    tasks,       \* what each worker is executing
    provider,    \* what the gateway really did with each refund
    transfers    \* bank transfers sent and not recorded yet, and all sent

vars == <<batches, refunds, planning, operations, workflow, confirming, tasks,
          provider, transfers>>

Less(n, m) == IF n > m THEN n - m ELSE 0
Least(n, m) == IF n < m THEN n ELSE m

-----------------------------------------------------------------------------
(* Batches and their refunds.                                              *)

NoRefund == [amount |-> 0, status |-> "none", mode |-> "manual", evidence |-> FALSE]
NoBatch == [requested |-> 0, status |-> "none", announced |-> 0]

AmountIf(row, statuses) == IF row.status \in statuses THEN row.amount ELSE 0
Succeeded(rows) == SumFunction([p \in Payments |-> AmountIf(rows[p], {"succeeded"})])
Some(rows, status) == \E p \in Payments : rows[p].status = status

Classify(requested, rows) ==
    CASE Succeeded(rows) = requested -> "completed"
      [] Succeeded(rows) # requested /\ Some(rows, "manual_required") -> "manual_required"
      [] Succeeded(rows) # requested /\ ~Some(rows, "manual_required") ->
           IF Some(rows, "pending") THEN "processing" ELSE "failed"

\* Mutant: every refresh of a complete batch announces it.
RefreshAnnouncing(batch, rows) ==
    LET next == Classify(batch.requested, rows)
    IN  [batch EXCEPT !.status = IF @ = "completed" THEN @ ELSE next,
                      !.announced = IF next = "completed" THEN @ + 1 ELSE @]

(* Completed is kept; the transition to it announces refund.completed.     *)
RefreshStatus(batch, rows) ==
    LET next == Classify(batch.requested, rows)
    IN  IF batch.status = "completed" THEN batch
        ELSE [batch EXCEPT !.status = next,
                           !.announced = IF next = "completed" THEN @ + 1 ELSE @]

(* A reason's refunds become rows, and its batch follows.                  *)
Update(r, rows) ==
    /\ refunds' = [refunds EXCEPT ![r] = rows]
    /\ batches' = [batches EXCEPT ![r] = RefreshStatus(@, rows)]

-----------------------------------------------------------------------------
(* Planning.                                                               *)

Holding == {"pending", "manual_required", "succeeded"}
Reserved(p) == SumFunction([r \in Reasons |-> AmountIf(refunds[r][p], Holding)])

SourcesFor(r) == IF r = Deposit THEN {DepositSource} ELSE Payments
Capacity(r) == [p \in Payments |->
    IF p \in SourcesFor(r) THEN Less(Captured[p], Reserved(p)) ELSE 0]

(* Newest capture first: each is charged what the newer ones leave.        *)
Newer(p) == {q \in Payments : Age[q] < Age[p]}
NewestFirst(amount, capacity) ==
    [p \in Payments |-> Least(capacity[p], Less(amount, SumFunctionOnSet(capacity, Newer(p))))]

ExecutesAutomatically(r, p, amount) ==
    r # Deposit /\ (p \in Wallets \/ (p \in Cards /\ amount = Captured[p]))

PlannedRefund(r, p, amount) ==
    IF amount = 0 THEN NoRefund
    ELSE IF ExecutesAutomatically(r, p, amount)
         THEN [NoRefund EXCEPT !.amount = amount, !.status = "pending", !.mode = "automatic"]
         ELSE [NoRefund EXCEPT !.amount = amount, !.status = "manual_required"]

NoPlan == [requested |-> 0, rows |-> [p \in Payments |-> NoRefund], enabled |-> FALSE]

\* Mutant: two reasons plan at once.
BookingNeverLocked == TRUE
(* lockForBooking: held by a planning transaction until it ends.           *)
BookingUnlocked == \A r \in Reasons : planning[r] = NoPlan

(* One batch per reason; a shortfall throws before the first write.  The   *)
(* workflow flag is the last thing read before the commit.                 *)
ExecuteRefund(r, amount) ==
    LET split == NewestFirst(amount, Capacity(r))
    IN  /\ BookingUnlocked /\ planning[r] = NoPlan /\ batches[r] = NoBatch
        /\ SumFunction(split) = amount
        /\ planning' = [planning EXCEPT ![r] =
                [requested |-> amount, enabled |-> workflow.enabled,
                 rows |-> [p \in Payments |-> PlannedRefund(r, p, split[p])]]]
        /\ UNCHANGED <<batches, refunds, operations, workflow, confirming, tasks,
                       provider, transfers>>

NoOperation == [status |-> "none", claimed |-> FALSE]
NewOperation == [status |-> "awaiting_details", claimed |-> FALSE]

CommitRefund(r) ==
    LET batch == RefreshStatus([NoBatch EXCEPT !.requested = planning[r].requested],
                               planning[r].rows)
    IN  /\ planning[r] # NoPlan
        /\ planning' = [planning EXCEPT ![r] = NoPlan]
        /\ refunds' = [refunds EXCEPT ![r] = planning[r].rows]
        /\ batches' = [batches EXCEPT ![r] = batch]
        /\ operations' = [operations EXCEPT ![r] =
                IF planning[r].enabled /\ batch.status = "manual_required"
                THEN NewOperation ELSE @]
        /\ UNCHANGED <<workflow, confirming, tasks, provider, transfers>>

-----------------------------------------------------------------------------
(* Automatic execution.                                                    *)

Idle == [step |-> "idle", reason |-> Deposit, payment |-> DepositSource, answer |-> "pending"]

CanExecute(row) == row.status = "pending" /\ row.mode = "automatic"

\* Mutant: only the event executes a refund, nothing tries again.
PrepareOnce(w, r, p) ==
    /\ tasks[w] = Idle /\ CanExecute(refunds[r][p]) /\ provider[r][p] = "unseen"
    /\ tasks' = [tasks EXCEPT ![w] = [@ EXCEPT !.step = "prepared", !.reason = r,
                                               !.payment = p]]
    /\ UNCHANGED <<batches, refunds, planning, operations, workflow, confirming,
                   provider, transfers>>

(* The event's handler, or the sweep of pending automatic refunds.         *)
PrepareExecution(w, r, p) ==
    /\ tasks[w] = Idle /\ CanExecute(refunds[r][p])
    /\ tasks' = [tasks EXCEPT ![w] = [@ EXCEPT !.step = "prepared", !.reason = r,
                                               !.payment = p]]
    /\ UNCHANGED <<batches, refunds, planning, operations, workflow, confirming,
                   provider, transfers>>

(* A gateway knows a refund by its id: it decides once, and answers every  *)
(* call and query according to what it did.                                *)
Outcomes(state) == IF state = "unseen" THEN {"processing", "paid", "refused"} ELSE {state}
Answers(state) == CASE state = "processing" -> {"pending"}
                    [] state = "paid" -> {"succeeded"}
                    [] state = "refused" -> {"failed", "unsupported"}

CallGateway(w) ==
    LET r == tasks[w].reason
        p == tasks[w].payment
    IN  /\ tasks[w].step = "prepared"
        /\ \E state \in Outcomes(provider[r][p]) : \E answer \in Answers(state) :
             /\ provider' = [provider EXCEPT ![r][p] = state]
             /\ tasks' = [tasks EXCEPT ![w].step = "answered", ![w].answer = answer]
        /\ UNCHANGED <<batches, refunds, planning, operations, workflow, confirming,
                       transfers>>

(* The worker dies, or the answer is lost after the gateway acted.         *)
LoseAnswer(w) ==
    /\ tasks[w].step = "answered"
    /\ tasks' = [tasks EXCEPT ![w] = Idle]
    /\ UNCHANGED <<batches, refunds, planning, operations, workflow, confirming,
                   provider, transfers>>

\* Mutant: the gateway's word becomes the refund's status.
AnswerVerbatim(row, answer) == [row EXCEPT !.status = answer]
\* Mutant: what a gateway is still processing is handed to people.
AnswerImpatiently(row, answer) ==
    CASE answer = "succeeded" -> [row EXCEPT !.status = "succeeded"]
      [] answer = "failed" -> [row EXCEPT !.status = "failed"]
      [] answer \in {"unsupported", "pending"} ->
           [row EXCEPT !.status = "manual_required", !.mode = "manual"]

AfterAnswer(row, answer) ==
    CASE answer = "succeeded" -> [row EXCEPT !.status = "succeeded"]
      [] answer = "failed" -> [row EXCEPT !.status = "failed"]
      [] answer = "unsupported" -> [row EXCEPT !.status = "manual_required", !.mode = "manual"]
      [] answer = "pending" -> row

\* Mutant: the answer is applied to whatever the refund has become.
RecordStaleAnswer(w) ==
    LET r == tasks[w].reason
        p == tasks[w].payment
    IN  /\ tasks[w].step = "answered" /\ BookingUnlocked
        /\ Update(r, [refunds[r] EXCEPT ![p] = AfterAnswer(@, tasks[w].answer)])
        /\ tasks' = [tasks EXCEPT ![w] = Idle]
        /\ UNCHANGED <<planning, operations, workflow, confirming, provider, transfers>>

(* Under the booking's lock, and only if the refund is still automatic and *)
(* pending.  A failure is final; unsupported is handed to people.          *)
RecordAnswer(w) ==
    LET r == tasks[w].reason
        p == tasks[w].payment
    IN  /\ tasks[w].step = "answered" /\ BookingUnlocked
        /\ IF CanExecute(refunds[r][p])
           THEN Update(r, [refunds[r] EXCEPT ![p] = AfterAnswer(@, tasks[w].answer)])
           ELSE UNCHANGED <<refunds, batches>>
        /\ tasks' = [tasks EXCEPT ![w] = Idle]
        /\ UNCHANGED <<planning, operations, workflow, confirming, provider, transfers>>

(* What a gateway took for processing it decides later.                    *)
ProviderSettles(r, p) ==
    /\ provider[r][p] = "processing"
    /\ \E state \in {"paid", "refused"} : provider' = [provider EXCEPT ![r][p] = state]
    /\ UNCHANGED <<batches, refunds, planning, operations, workflow, confirming, tasks,
                   transfers>>

-----------------------------------------------------------------------------
(* Confirmation of one refund by hand, while the workflow is disabled.     *)

BeginConfirm(r, p) ==
    /\ ~workflow.enabled /\ refunds[r][p] # NoRefund /\ <<r, p>> \notin confirming
    /\ Cardinality(confirming) < MaxConfirming
    /\ confirming' = confirming \cup {<<r, p>>}
    /\ UNCHANGED <<batches, refunds, planning, operations, workflow, tasks, provider,
                   transfers>>

ByHand(row) == [row EXCEPT !.status = "succeeded", !.evidence = TRUE]
Confirmable(row) == row.status \in {"pending", "manual_required"}

(* Behind the lock.  A failed refund throws, one that succeeded is left as *)
(* it is; an automatic refund still under way can be confirmed.            *)
ConfirmManualRefund(r, p) ==
    /\ <<r, p>> \in confirming /\ BookingUnlocked
    /\ IF refunds[r][p].status = "failed"
       THEN UNCHANGED <<refunds, batches>>
       ELSE Update(r, [refunds[r] EXCEPT ![p] = IF Confirmable(@) THEN ByHand(@) ELSE @])
    /\ confirming' = confirming \ {<<r, p>>}
    /\ UNCHANGED <<planning, operations, workflow, tasks, provider, transfers>>

-----------------------------------------------------------------------------
(* The manual refund workflow: its flags, ...                              *)

(* Every manual batch that has no operation gets one.                      *)
EnableWorkflow ==
    /\ workflow' = [workflow EXCEPT !.enabled = TRUE]
    /\ operations' = [r \in Reasons |->
            IF batches[r].status = "manual_required" /\ operations[r] = NoOperation
            THEN NewOperation ELSE operations[r]]
    /\ UNCHANGED <<batches, refunds, planning, confirming, tasks, provider, transfers>>

SetWorkflowPaused(paused) ==
    /\ workflow.enabled /\ workflow.paused # paused
    /\ workflow' = [workflow EXCEPT !.paused = paused]
    /\ UNCHANGED <<batches, refunds, planning, operations, confirming, tasks, provider,
                   transfers>>

(* ... the operation of a batch, in the hands of customer, maker, checker, *)
Move(r, operation) ==
    /\ ~workflow.paused
    /\ operations' = [operations EXCEPT ![r] = operation]
    /\ UNCHANGED <<batches, refunds, planning, workflow, confirming, tasks, provider,
                   transfers>>

SubmitDestination(r) ==
    /\ operations[r].status \in {"awaiting_details", "verification_required",
                                 "correction_required", "ready_for_transfer"}
    /\ ~operations[r].claimed
    /\ \E verdict \in {"ready_for_transfer", "correction_required", "verification_required"} :
         Move(r, [operations[r] EXCEPT !.status = verdict])

VerifyDestination(r) ==
    /\ operations[r].status = "verification_required"
    /\ Move(r, [operations[r] EXCEPT !.status = "ready_for_transfer"])

Claim(r) ==
    /\ operations[r].status = "ready_for_transfer" /\ ~operations[r].claimed
    /\ Move(r, [operations[r] EXCEPT !.claimed = TRUE])

SubmitTransfer(r) ==
    /\ operations[r].status = "ready_for_transfer" /\ operations[r].claimed
    /\ Move(r, [operations[r] EXCEPT !.status = "transfer_submitted"])

Reject(r) ==
    /\ operations[r].status = "transfer_submitted"
    /\ Move(r, [operations[r] EXCEPT !.status = "transfer_rejected"])

Reopen(r) ==
    /\ \/ operations[r].status = "ready_for_transfer" /\ operations[r].claimed
       \/ operations[r].status = "transfer_rejected"
    /\ Move(r, NewOperation)

(* ... and its end.  The manual refunds of the batch succeed together.     *)
ManualRowsPaid(r) ==
    [p \in Payments |->
        IF refunds[r][p].mode = "manual" /\ Confirmable(refunds[r][p])
        THEN ByHand(refunds[r][p]) ELSE refunds[r][p]]

\* Mutant: the operation is closed whatever is left of its batch.
CloseUnchecked(r) ==
    /\ Update(r, ManualRowsPaid(r))
    /\ operations' = [operations EXCEPT ![r].status = "completed", ![r].claimed = TRUE]

(* Rolled back unless that completes the batch.                            *)
CloseOperation(r) ==
    /\ Classify(batches[r].requested, ManualRowsPaid(r)) = "completed"
    /\ Update(r, ManualRowsPaid(r))
    /\ operations' = [operations EXCEPT ![r].status = "completed", ![r].claimed = TRUE]

(* By the checker, or by the platform's break-glass.                       *)
Approve(r) ==
    /\ ~workflow.paused /\ operations[r].status = "transfer_submitted"
    /\ CloseOperation(r)
    /\ UNCHANGED <<planning, workflow, confirming, tasks, provider, transfers>>

CompleteDirectTransfer(r) ==
    /\ ~workflow.paused
    /\ operations[r].status \in {"ready_for_transfer", "transfer_submitted"}
    /\ CloseOperation(r)
    /\ UNCHANGED <<planning, workflow, confirming, tasks, provider, transfers>>

(* The payout gateway sends the whole batch between two transactions.      *)
SendAutoPayout(r) ==
    /\ ~workflow.paused
    /\ operations[r].status \in {"ready_for_transfer", "verification_required"}
    /\ transfers[r].sent < MaxTransfers
    /\ transfers' = [transfers EXCEPT ![r].sent = @ + 1, ![r].unrecorded = @ + 1]
    /\ UNCHANGED <<batches, refunds, planning, operations, workflow, confirming, tasks,
                   provider>>

(* Recorded if the operation can still be closed, or else forgotten.       *)
RecordAutoPayout(r) ==
    /\ transfers[r].unrecorded > 0
    /\ IF /\ operations[r].status \in {"ready_for_transfer", "transfer_submitted"}
          /\ Classify(batches[r].requested, ManualRowsPaid(r)) = "completed"
       THEN CloseOperation(r)
       ELSE UNCHANGED <<batches, refunds, operations>>
    /\ transfers' = [transfers EXCEPT ![r].unrecorded = @ - 1]
    /\ UNCHANGED <<planning, workflow, confirming, tasks, provider>>

-----------------------------------------------------------------------------
Init ==
    /\ batches = [r \in Reasons |-> NoBatch]
    /\ refunds = [r \in Reasons |-> [p \in Payments |-> NoRefund]]
    /\ planning = [r \in Reasons |-> NoPlan]
    /\ operations = [r \in Reasons |-> NoOperation]
    /\ workflow = [enabled |-> FALSE, paused |-> FALSE]
    /\ confirming = {}
    /\ tasks = [w \in Workers |-> Idle]
    /\ provider = [r \in Reasons |-> [p \in Payments |-> "unseen"]]
    /\ transfers = [r \in Reasons |-> [sent |-> 0, unrecorded |-> 0]]

PlanNext ==
    \E r \in Reasons : CommitRefund(r) \/ \E amount \in Amounts : ExecuteRefund(r, amount)
ExecuteNext ==
    \/ \E w \in Workers : CallGateway(w) \/ LoseAnswer(w) \/ RecordAnswer(w)
    \/ \E r \in Reasons, p \in Payments :
         ProviderSettles(r, p) \/ \E w \in Workers : PrepareExecution(w, r, p)
ConfirmNext ==
    \E r \in Reasons, p \in Payments : BeginConfirm(r, p) \/ ConfirmManualRefund(r, p)
WorkflowNext ==
    \/ EnableWorkflow
    \/ \E paused \in BOOLEAN : SetWorkflowPaused(paused)
    \/ \E r \in Reasons : \/ SubmitDestination(r) \/ VerifyDestination(r) \/ Claim(r)
                          \/ SubmitTransfer(r) \/ Reject(r) \/ Reopen(r)
                          \/ Approve(r) \/ CompleteDirectTransfer(r)
                          \/ SendAutoPayout(r) \/ RecordAutoPayout(r)

Next == PlanNext \/ ExecuteNext \/ ConfirmNext \/ WorkflowNext

Spec == Init /\ [][Next]_vars

(* The sweep runs every minute and takes the refund that waits longest, no *)
(* outage of a gateway or of the database is for ever, transactions end.   *)
Fairness ==
    /\ \A r \in Reasons : WF_vars(CommitRefund(r))
    /\ \A r \in Reasons, p \in Payments :
         /\ WF_vars(ProviderSettles(r, p))
         /\ SF_vars(\E w \in Workers : PrepareExecution(w, r, p))
    /\ \A w \in Workers : WF_vars(CallGateway(w)) /\ SF_vars(RecordAnswer(w))

FairSpec == Spec /\ Fairness

-----------------------------------------------------------------------------
RefundRow == [amount : Nat, status : {"none", "pending", "manual_required", "succeeded", "failed"},
              mode : {"manual", "automatic"}, evidence : BOOLEAN]
BatchRow == [requested : Nat, announced : Nat,
             status : {"none", "processing", "manual_required", "completed", "failed"}]
OperationRow == [status : {"none", "awaiting_details", "verification_required",
                           "correction_required", "ready_for_transfer", "transfer_submitted",
                           "transfer_rejected", "completed"}, claimed : BOOLEAN]

(* Every row, plan, task and flag has the shape its table or type gives.   *)
TypeOK ==
    /\ batches \in [Reasons -> BatchRow]
    /\ refunds \in [Reasons -> [Payments -> RefundRow]]
    /\ planning \in [Reasons -> [requested : Nat, rows : [Payments -> RefundRow],
                                 enabled : BOOLEAN]]
    /\ operations \in [Reasons -> OperationRow]
    /\ workflow \in [enabled : BOOLEAN, paused : BOOLEAN]
    /\ confirming \subseteq Reasons \X Payments
    /\ tasks \in [Workers -> [step : {"idle", "prepared", "answered"}, reason : Reasons,
                              payment : Payments,
                              answer : {"pending", "succeeded", "failed", "unsupported"}]]
    /\ provider \in [Reasons -> [Payments -> {"unseen", "processing", "paid", "refused"}]]
    /\ transfers \in [Reasons -> [sent : Nat, unrecorded : Nat]]

(* However cancellations, deposit returns, failures and hand-overs of one  *)
(* booking interleave, what its refunds hold of a capture never exceeds it.*)
CapacityKept == \A p \in Payments : Reserved(p) <= Captured[p]

(* Booking and finance hear of a batch once, and exactly when its refunds  *)
(* have succeeded in full, whichever of gateway, admin and checker made    *)
(* the last step, and however often events and sweeps repeat.              *)
AnnouncedOnceInFull ==
    \A r \in Reasons :
        batches[r] # NoBatch =>
            /\ batches[r].status = Classify(batches[r].requested, refunds[r])
            /\ batches[r].announced = IF batches[r].status = "completed" THEN 1 ELSE 0

(* The record agrees with the gateway: a refund that failed, or was handed *)
(* to people, is never paid by the gateway as well, and one that succeeded *)
(* without anybody's evidence was.                                         *)
ProviderAgrees ==
    \A r \in Reasons, p \in Payments :
        /\ refunds[r][p].status = "failed" \/ refunds[r][p].mode = "manual" =>
             provider[r][p] \in {"unseen", "refused"}
        /\ refunds[r][p].status = "succeeded" /\ ~refunds[r][p].evidence =>
             provider[r][p] = "paid"

(* A closed operation leaves nothing to pay: its batch is complete.        *)
OperationClosesBatch ==
    \A r \in Reasons : operations[r].status = "completed" => batches[r].status = "completed"

(* What the customer is promised: Reimbursement, under this mapping.       *)
Promises == INSTANCE Reimbursement WITH
    promised <- [r \in Reasons |-> batches[r].requested],
    returned <- [r \in Reasons |->
                    [p \in Payments |-> AmountIf(refunds[r][p], {"succeeded"})]],
    announced <- [r \in Reasons |-> batches[r].announced]
PromisesKept == Promises!Spec

(* Every refund that a gateway should push is decided in the end, though   *)
(* answers are lost, workers die and the gateway takes its time.           *)
EveryRefundSettles ==
    \A r \in Reasons, p \in Payments : CanExecute(refunds[r][p]) ~> ~CanExecute(refunds[r][p])
=============================================================================
