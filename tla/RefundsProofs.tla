--------------------------- MODULE RefundsProofs ---------------------------
(***************************************************************************)
(* The refunds of a booking keep what they promise, for any number of      *)
(* captures, reasons and workers: the invariants that the runs check, and  *)
(* the refinement of Reimbursement.                                        *)
(***************************************************************************)
EXTENDS Refunds, SumTheorems

Waiting == {"pending", "manual_required"}
Total(rows) == SumFunction([p \in Payments |-> rows[p].amount])

(* What a step may do to a refund that exists.                             *)
Advances(old, new) ==
    \/ new = old
    \/ /\ old.status \in Waiting /\ new.amount = old.amount
       /\ new.status \in Waiting \cup {"succeeded", "failed"}

PlannedRow(row) ==
    \/ row = NoRefund
    \/ row.amount > 0 /\ row.status \in Waiting /\ (row.status = "pending" => row.mode = "automatic")

(* At most one plan is open, under the booking's lock; its rows add up to  *)
(* its batch, and still fit beside everything reserved.                    *)
OnePlan == \A r, s \in Reasons : planning[r] # NoPlan /\ planning[s] # NoPlan => r = s
PlansFit ==
    \A r \in Reasons : planning[r] # NoPlan =>
        /\ batches[r] = NoBatch /\ planning[r].requested > 0
        /\ Total(planning[r].rows) = planning[r].requested
        /\ \A p \in Payments :
             /\ PlannedRow(planning[r].rows[p])
             /\ Reserved(p) + planning[r].rows[p].amount <= Captured[p]

(* A batch and its refunds are written together and for the same amount.   *)
RowsAddUp ==
    \A r \in Reasons :
        /\ batches[r] = NoBatch => \A p \in Payments : refunds[r][p] = NoRefund
        /\ batches[r] # NoBatch => batches[r].requested > 0
        /\ Total(refunds[r]) = batches[r].requested
        /\ \A p \in Payments : refunds[r][p].status = "none" => refunds[r][p] = NoRefund

(* Confirmations and operations are about refunds that exist.              *)
ConfirmationsMeetRefunds ==
    \A r \in Reasons, p \in Payments : <<r, p>> \in confirming => refunds[r][p] # NoRefund
OperationsHaveBatches ==
    \A r \in Reasons : operations[r] # NoOperation => batches[r] # NoBatch

(* A gateway is asked only about refunds that exist; those under way are   *)
(* the gateway's, unless it has refused them; its answers are its deeds.   *)
AskedOnlyOfRefunds ==
    \A r \in Reasons, p \in Payments : refunds[r][p] = NoRefund => provider[r][p] = "unseen"
TasksAgree ==
    \A w \in Workers : tasks[w].step # "idle" =>
        LET row == refunds[tasks[w].reason][tasks[w].payment]
            state == provider[tasks[w].reason][tasks[w].payment]
        IN  /\ row # NoRefund
            /\ (row.mode = "automatic" /\ row.status # "failed") \/ state = "refused"
            /\ tasks[w].step = "answered" =>
                 /\ tasks[w].answer = "succeeded" => state = "paid"
                 /\ tasks[w].answer \in {"failed", "unsupported"} => state = "refused"

Money == OnePlan /\ PlansFit /\ RowsAddUp /\ CapacityKept /\ AnnouncedOnceInFull
People == ConfirmationsMeetRefunds /\ OperationsHaveBatches /\ OperationClosesBatch
Gateway == AskedOnlyOfRefunds /\ TasksAgree /\ ProviderAgrees
IInv == TypeOK /\ Money /\ People /\ Gateway

-----------------------------------------------------------------------------
(* Sums of natural numbers over a finite set.                              *)
LEMMA SumNatural ==
    ASSUME NEW S, IsFiniteSet(S), NEW f \in [S -> Nat]
    PROVE  SumFunction(f) \in Nat
<1>1. DOMAIN f = S /\ \A x \in S : f[x] \in Nat
  OBVIOUS
<1>2. SumFunctionOnSet(f, S) \in Nat
  BY <1>1, SumNat
<1> QED BY <1>1, <1>2 DEF SumFunction

LEMMA SumMonotone ==
    ASSUME NEW S, IsFiniteSet(S), NEW f \in [S -> Nat], NEW g \in [S -> Nat],
           \A x \in S : f[x] <= g[x]
    PROVE  SumFunction(f) <= SumFunction(g)
<1>1. DOMAIN f = S /\ DOMAIN g = S
  OBVIOUS
<1>2. \A x \in S : f[x] \in Int /\ g[x] \in Int /\ f[x] <= g[x]
  OBVIOUS
<1>3. SumFunctionOnSet(f, S) <= SumFunctionOnSet(g, S)
  BY <1>2, SumLeq
<1> QED BY <1>1, <1>3 DEF SumFunction

LEMMA SumBoundsMember ==
    ASSUME NEW S, IsFiniteSet(S), NEW f \in [S -> Nat], NEW z \in S
    PROVE  f[z] <= SumFunction(f)
<1>1. DOMAIN f = S /\ (\A x \in S : f[x] \in Int) /\ \A x \in S \ {z} : f[x] \in Nat
  OBVIOUS
<1>2. SumFunctionOnSet(f, S) = f[z] + SumFunctionOnSet(f, S \ {z})
  BY <1>1, SumRemove
<1>3. SumFunctionOnSet(f, S \ {z}) \in Nat
  BY <1>1, FS_RemoveElement, SumNat
<1>4. f[z] \in Nat
  OBVIOUS
<1> QED BY <1>1, <1>2, <1>3, <1>4 DEF SumFunction

LEMMA SumZero ==
    ASSUME NEW S, IsFiniteSet(S), NEW f \in [S -> Nat], \A x \in S : f[x] = 0
    PROVE  SumFunction(f) = 0
<1>1. DOMAIN f = S /\ (\A x \in S : f[x] \in Int) /\ \A x \in S \ {} : f[x] = 0
  OBVIOUS
<1>2. {} \in SUBSET S
  OBVIOUS
<1>3. SumFunctionOnSet(f, S) = SumFunctionOnSet(f, {})
  BY <1>1, <1>2, SumSupport
<1> QED BY <1>1, <1>3, SumEmpty DEF SumFunction

LEMMA SumOneChanged ==
    ASSUME NEW S, IsFiniteSet(S), NEW f \in [S -> Nat], NEW g \in [S -> Nat], NEW z \in S,
           \A x \in S \ {z} : f[x] = g[x]
    PROVE  SumFunction(g) = SumFunction(f) - f[z] + g[z]
<1>1. DOMAIN f = S /\ DOMAIN g = S
  OBVIOUS
<1>2. /\ \A x \in DOMAIN f : f[x] \in Int /\ g[x] \in Int
      /\ \A x \in DOMAIN f \ {z} : f[x] = g[x]
  BY <1>1
<1> QED BY <1>1, <1>2, SumUpdated

-----------------------------------------------------------------------------
(* The sums of the model.                                                  *)
RowsOf == [Payments -> RefundRow]

LEMMA RowTypes ==
    ASSUME NEW rows \in RowsOf
    PROVE  /\ [p \in Payments |-> rows[p].amount] \in [Payments -> Nat]
           /\ \A S : [p \in Payments |-> AmountIf(rows[p], S)] \in [Payments -> Nat]
           /\ \A p \in Payments : \A S : AmountIf(rows[p], S) <= rows[p].amount
<1>1. \A p \in Payments : rows[p].amount \in Nat
  BY DEF RowsOf, RefundRow
<1>2. \A p \in Payments : \A S : AmountIf(rows[p], S) \in Nat /\ AmountIf(rows[p], S) <= rows[p].amount
  BY <1>1 DEF AmountIf
<1> QED BY <1>1, <1>2

LEMMA SucceededType ==
    ASSUME NEW rows \in RowsOf
    PROVE  Succeeded(rows) \in Nat /\ Total(rows) \in Nat /\ Succeeded(rows) <= Total(rows)
<1> DEFINE f == [p \in Payments |-> AmountIf(rows[p], {"succeeded"})]
           g == [p \in Payments |-> rows[p].amount]
<1>1. f \in [Payments -> Nat] /\ g \in [Payments -> Nat] /\ \A p \in Payments : f[p] <= g[p]
  BY RowTypes
<1>2. Succeeded(rows) = SumFunction(f) /\ Total(rows) = SumFunction(g)
  BY DEF Succeeded, Total
<1> HIDE DEF f, g
<1> QED BY <1>1, <1>2, SumNatural, SumMonotone, PaymentAssumption

LEMMA ReservedType ==
    ASSUME TypeOK, NEW p \in Payments
    PROVE  /\ Reserved(p) \in Nat
           /\ \A r \in Reasons : AmountIf(refunds[r][p], Holding) <= Reserved(p)
<1> DEFINE f == [r \in Reasons |-> AmountIf(refunds[r][p], Holding)]
<1>1. \A r \in Reasons : AmountIf(refunds[r][p], Holding) \in Nat
  <2>1. \A r \in Reasons : refunds[r][p].amount \in Nat
    BY DEF TypeOK, RefundRow
  <2> QED BY <2>1 DEF AmountIf
<1>2. f \in [Reasons -> Nat]
  BY <1>1
<1>3. Reserved(p) = SumFunction(f)
  BY DEF Reserved
<1>4. \A r \in Reasons : f[r] = AmountIf(refunds[r][p], Holding)
  OBVIOUS
<1> HIDE DEF f
<1> QED BY <1>2, <1>3, <1>4, SumNatural, SumBoundsMember, ReasonAssumption

LEMMA Cutoff ==
    ASSUME NEW n \in Int, NEW m \in Int
    PROVE  /\ Less(n, m) \in Nat /\ n - m <= Less(n, m)
           /\ Less(n, m) = 0 \/ Less(n, m) = n - m
           /\ Least(n, m) \in {n, m} /\ Least(n, m) <= n /\ Least(n, m) <= m
BY DEF Less, Least

LEMMA CapacityType ==
    ASSUME TypeOK, NEW r \in Reasons
    PROVE  /\ Capacity(r) \in [Payments -> Nat]
           /\ CapacityKept => \A p \in Payments : Capacity(r)[p] + Reserved(p) <= Captured[p]
<1> SUFFICES ASSUME NEW p \in Payments
             PROVE  /\ Capacity(r)[p] \in Nat
                    /\ CapacityKept => Capacity(r)[p] + Reserved(p) <= Captured[p]
  BY DEF Capacity
<1>1. Captured[p] \in Nat /\ Reserved(p) \in Nat
  BY PaymentAssumption, ReservedType
<1>2. Less(Captured[p], Reserved(p)) \in Nat
  <2> DEFINE n == Captured[p]
             m == Reserved(p)
  <2>1. n \in Int /\ m \in Int
    BY <1>1
  <2> HIDE DEF n, m
  <2>2. Less(n, m) \in Nat
    BY <2>1, Cutoff
  <2> QED BY <2>2 DEF n, m
<1>3. Capacity(r)[p] \in {0, Less(Captured[p], Reserved(p))}
  BY DEF Capacity
<1> QED BY <1>1, <1>2, <1>3 DEF Less, CapacityKept

LEMMA SplitType ==
    ASSUME NEW amount \in Nat, NEW capacity \in [Payments -> Nat]
    PROVE  /\ NewestFirst(amount, capacity) \in [Payments -> Nat]
           /\ \A p \in Payments : NewestFirst(amount, capacity)[p] <= capacity[p]
<1> SUFFICES ASSUME NEW p \in Payments
             PROVE  /\ NewestFirst(amount, capacity)[p] \in Nat
                    /\ NewestFirst(amount, capacity)[p] <= capacity[p]
  BY DEF NewestFirst
<1> DEFINE newer == SumFunctionOnSet(capacity, Newer(p))
<1>1. newer \in Nat
  <2>1. IsFiniteSet(Newer(p)) /\ \A q \in Newer(p) : capacity[q] \in Nat
    BY PaymentAssumption, FS_Subset DEF Newer
  <2> QED BY <2>1, SumNat
<1>2. NewestFirst(amount, capacity)[p] = Least(capacity[p], Less(amount, newer))
  BY DEF NewestFirst
<1>3. capacity[p] \in Nat
  OBVIOUS
<1> HIDE DEF newer
<1> QED BY <1>1, <1>2, <1>3 DEF Least, Less

LEMMA PlannedType ==
    ASSUME NEW r, NEW p, NEW amount \in Nat
    PROVE  /\ PlannedRefund(r, p, amount) \in RefundRow
           /\ PlannedRefund(r, p, amount).amount = amount
           /\ PlannedRow(PlannedRefund(r, p, amount))
<1>1. CASE amount = 0
  BY <1>1 DEF PlannedRefund, NoRefund, RefundRow, PlannedRow
<1>2. CASE amount # 0 /\ ExecutesAutomatically(r, p, amount)
  <2>1. PlannedRefund(r, p, amount) = [amount |-> amount, status |-> "pending",
                                       mode |-> "automatic", evidence |-> FALSE]
    BY <1>2 DEF PlannedRefund, NoRefund
  <2> QED BY <1>2, <2>1 DEF RefundRow, PlannedRow, Waiting
<1>3. CASE amount # 0 /\ ~ExecutesAutomatically(r, p, amount)
  <2>1. PlannedRefund(r, p, amount) = [amount |-> amount, status |-> "manual_required",
                                       mode |-> "manual", evidence |-> FALSE]
    BY <1>3 DEF PlannedRefund, NoRefund
  <2> QED BY <1>3, <2>1 DEF RefundRow, PlannedRow, Waiting
<1> QED BY <1>1, <1>2, <1>3

LEMMA RefreshedType ==
    ASSUME NEW batch \in BatchRow, NEW rows
    PROVE  /\ RefreshStatus(batch, rows) \in BatchRow
           /\ RefreshStatus(batch, rows).requested = batch.requested
<1>1. Classify(batch.requested, rows) \in {"processing", "manual_required", "completed", "failed"}
  <2> DEFINE full == Succeeded(rows) = batch.requested
             manual == Some(rows, "manual_required")
  <2>1. full \in BOOLEAN /\ manual \in BOOLEAN
    BY DEF Some
  <2>2. CASE full
    BY <2>2 DEF Classify
  <2>3. CASE ~full /\ manual
    BY <2>3 DEF Classify
  <2>4. CASE ~full /\ ~manual
    BY <2>4 DEF Classify
  <2> QED BY <2>2, <2>3, <2>4
<1> DEFINE next == Classify(batch.requested, rows)
<1>2. RefreshStatus(batch, rows) =
        IF batch.status = "completed" THEN batch
        ELSE [batch EXCEPT !.status = next,
                           !.announced = IF next = "completed" THEN @ + 1 ELSE @]
  BY DEF RefreshStatus
<1> HIDE DEF next
<1>3. next \in {"processing", "manual_required", "completed", "failed"}
  BY <1>1 DEF next
<1>4. batch.announced \in Nat
  BY DEF BatchRow
<1> DEFINE n == IF next = "completed" THEN batch.announced + 1 ELSE batch.announced
<1>5. n \in Nat
  BY <1>4
<1>6. CASE batch.status = "completed"
  BY <1>2, <1>6
<1>7. CASE batch.status # "completed"
  <2>1. RefreshStatus(batch, rows) = [batch EXCEPT !.status = next, !.announced = n]
    BY <1>2, <1>7
  <2> HIDE DEF n
  <2> QED BY <2>1, <1>3, <1>5 DEF BatchRow
<1> QED BY <1>6, <1>7

LEMMA UpdateType ==
    ASSUME TypeOK, NEW r \in Reasons, NEW rows \in RowsOf, Update(r, rows)
    PROVE  batches' \in [Reasons -> BatchRow] /\ refunds' \in [Reasons -> RowsOf]
<1>1. RefreshStatus(batches[r], rows) \in BatchRow
  BY RefreshedType DEF TypeOK
<1> QED BY <1>1 DEF TypeOK, Update, RowsOf

(* What the steps that touch refunds do to their rows.                     *)
LEMMA AnswerAdvances ==
    ASSUME NEW row \in RefundRow, CanExecute(row),
           NEW answer \in {"pending", "succeeded", "failed", "unsupported"}
    PROVE  /\ AfterAnswer(row, answer) \in RefundRow
           /\ Advances(row, AfterAnswer(row, answer))
<1>1. CASE answer = "pending"
  BY <1>1 DEF AfterAnswer, Advances
<1>2. CASE answer = "succeeded"
  BY <1>2 DEF AfterAnswer, Advances, CanExecute, Waiting, RefundRow
<1>3. CASE answer = "failed"
  BY <1>3 DEF AfterAnswer, Advances, CanExecute, Waiting, RefundRow
<1>4. CASE answer = "unsupported"
  BY <1>4 DEF AfterAnswer, Advances, CanExecute, Waiting, RefundRow
<1> QED BY <1>1, <1>2, <1>3, <1>4

LEMMA HandAdvances ==
    ASSUME NEW row \in RefundRow, Confirmable(row)
    PROVE  ByHand(row) \in RefundRow /\ Advances(row, ByHand(row))
BY DEF ByHand, Advances, Confirmable, Waiting, RefundRow

LEMMA ManualRowsAdvance ==
    ASSUME TypeOK, NEW r \in Reasons
    PROVE  /\ ManualRowsPaid(r) \in RowsOf
           /\ \A p \in Payments : Advances(refunds[r][p], ManualRowsPaid(r)[p])
<1> SUFFICES ASSUME NEW p \in Payments
             PROVE  ManualRowsPaid(r)[p] \in RefundRow /\ Advances(refunds[r][p], ManualRowsPaid(r)[p])
  BY DEF ManualRowsPaid, RowsOf
<1> DEFINE row == refunds[r][p]
<1>1. row \in RefundRow
  BY DEF TypeOK
<1>2. ManualRowsPaid(r)[p] = IF row.mode = "manual" /\ Confirmable(row) THEN ByHand(row) ELSE row
  BY DEF ManualRowsPaid
<1> HIDE DEF row
<1>3. CASE row.mode = "manual" /\ Confirmable(row)
  BY <1>1, <1>2, <1>3, HandAdvances DEF row
<1>4. CASE ~(row.mode = "manual" /\ Confirmable(row))
  BY <1>1, <1>2, <1>4 DEF Advances, row
<1> QED BY <1>3, <1>4

-----------------------------------------------------------------------------
(* Type correctness.                                                       *)
PlanRow == [requested : Nat, rows : RowsOf, enabled : BOOLEAN]

LEMMA ExecutePlans ==
    ASSUME TypeOK, NEW r \in Reasons, NEW amount \in Amounts, ExecuteRefund(r, amount)
    PROVE  \E plan \in PlanRow :
             /\ planning' = [planning EXCEPT ![r] = plan]
             /\ plan.requested = amount /\ amount > 0 /\ Total(plan.rows) = amount
             /\ \A p \in Payments :
                  /\ PlannedRow(plan.rows[p])
                  /\ CapacityKept => Reserved(p) + plan.rows[p].amount <= Captured[p]
<1> DEFINE split == NewestFirst(amount, Capacity(r))
           rows == [p \in Payments |-> PlannedRefund(r, p, split[p])]
           plan == [requested |-> amount, enabled |-> workflow.enabled, rows |-> rows]
<1>1. amount \in Nat /\ amount > 0
  BY ReasonAssumption
<1>2. /\ split \in [Payments -> Nat]
      /\ \A p \in Payments : split[p] <= Capacity(r)[p]
  BY <1>1, CapacityType, SplitType
<1>3. planning' = [planning EXCEPT ![r] = plan] /\ SumFunction(split) = amount
  BY DEF ExecuteRefund
<1> HIDE DEF split
<1>4. /\ rows \in RowsOf
      /\ \A p \in Payments : rows[p].amount = split[p] /\ PlannedRow(rows[p])
  BY <1>2, PlannedType DEF RowsOf
<1> HIDE DEF rows
<1>5. plan \in PlanRow
  BY <1>1, <1>4 DEF PlanRow, TypeOK
<1>6. Total(plan.rows) = amount
  <2>1. [p \in Payments |-> rows[p].amount] = split
    BY <1>2, <1>4
  <2> QED BY <1>3, <2>1 DEF Total
<1>7. \A p \in Payments : CapacityKept => Reserved(p) + rows[p].amount <= Captured[p]
  <2> SUFFICES ASSUME NEW p \in Payments, CapacityKept
               PROVE  Reserved(p) + rows[p].amount <= Captured[p]
    OBVIOUS
  <2> DEFINE room == Capacity(r)[p]
             held == Reserved(p)
             all == Captured[p]
  <2>1. room \in Nat /\ held \in Nat /\ all \in Nat /\ room + held <= all
    BY CapacityType, ReservedType, PaymentAssumption
  <2>2. rows[p].amount = split[p] /\ split[p] \in Nat /\ split[p] <= room
    BY <1>2, <1>4
  <2> HIDE DEF room, held, all
  <2>3. held + rows[p].amount <= all
    BY <2>1, <2>2
  <2> QED BY <2>3 DEF held, all
<1> QED BY <1>1, <1>3, <1>4, <1>5, <1>6, <1>7

LEMMA TypeInit == Init => TypeOK
<1> SUFFICES ASSUME Init PROVE TypeOK
  OBVIOUS
<1>1. NoBatch \in BatchRow /\ NoRefund \in RefundRow /\ NoOperation \in OperationRow
  BY DEF NoBatch, BatchRow, NoRefund, RefundRow, NoOperation, OperationRow
<1>2. NoPlan \in PlanRow
  BY <1>1 DEF NoPlan, PlanRow, RowsOf
<1>3. /\ batches \in [Reasons -> BatchRow] /\ refunds \in [Reasons -> [Payments -> RefundRow]]
      /\ operations \in [Reasons -> OperationRow]
      /\ planning \in [Reasons -> PlanRow]
  BY <1>1, <1>2 DEF Init
<1>4. Idle \in [step : {"idle", "prepared", "answered"}, reason : Reasons, payment : Payments,
                answer : {"pending", "succeeded", "failed", "unsupported"}]
  BY PaymentAssumption, ReasonAssumption DEF Idle
<1>5. /\ workflow \in [enabled : BOOLEAN, paused : BOOLEAN]
      /\ confirming \subseteq Reasons \X Payments
      /\ provider \in [Reasons -> [Payments -> {"unseen", "processing", "paid", "refused"}]]
      /\ transfers \in [Reasons -> [sent : Nat, unrecorded : Nat]]
  BY DEF Init
<1> QED BY <1>3, <1>4, <1>5 DEF TypeOK, Init, PlanRow, RowsOf

LEMMA TypePlan ==
    ASSUME TypeOK, PlanNext
    PROVE  TypeOK'
<1>1. ASSUME NEW r \in Reasons, NEW amount \in Amounts, ExecuteRefund(r, amount)
      PROVE  TypeOK'
  <2>1. PICK plan \in PlanRow : planning' = [planning EXCEPT ![r] = plan]
    BY <1>1, ExecutePlans
  <2>2. planning' \in [Reasons -> PlanRow]
    BY <2>1 DEF TypeOK, PlanRow, RowsOf
  <2> QED BY <1>1, <2>2 DEF ExecuteRefund, TypeOK, PlanRow, RowsOf
<1>2. ASSUME NEW r \in Reasons, CommitRefund(r)
      PROVE  TypeOK'
  <2>1. planning[r] \in PlanRow
    BY DEF TypeOK, PlanRow, RowsOf
  <2>2. NoPlan \in PlanRow
    BY DEF NoPlan, PlanRow, RowsOf, NoRefund, RefundRow
  <2>3. planning' \in [Reasons -> PlanRow]
    BY <1>2, <2>2 DEF TypeOK, PlanRow, RowsOf, CommitRefund
  <2>4. [NoBatch EXCEPT !.requested = planning[r].requested] \in BatchRow
    BY <2>1 DEF NoBatch, BatchRow, PlanRow
  <2>5. batches' \in [Reasons -> BatchRow]
    BY <1>2, <2>4, RefreshedType DEF TypeOK, CommitRefund
  <2>6. refunds' \in [Reasons -> RowsOf]
    BY <1>2, <2>1 DEF TypeOK, CommitRefund, RowsOf, PlanRow
  <2>7. operations' \in [Reasons -> OperationRow]
    BY <1>2 DEF TypeOK, CommitRefund, NewOperation, OperationRow
  <2> QED BY <1>2, <2>3, <2>5, <2>6, <2>7 DEF CommitRefund, TypeOK, PlanRow, RowsOf
<1> QED BY <1>1, <1>2 DEF PlanNext

TaskRow == [step : {"idle", "prepared", "answered"}, reason : Reasons, payment : Payments,
            answer : {"pending", "succeeded", "failed", "unsupported"}]

LEMMA IdleType == Idle \in TaskRow
BY PaymentAssumption, ReasonAssumption DEF Idle, TaskRow

(* A recorded answer: the row it writes, or nothing.                       *)
LEMMA RecordedRows ==
    ASSUME TypeOK, NEW w \in Workers, RecordAnswer(w)
    PROVE  \/ UNCHANGED <<refunds, batches>>
           \/ \E rows \in RowsOf :
                /\ Update(tasks[w].reason, rows) /\ tasks[w].reason \in Reasons
                /\ CanExecute(refunds[tasks[w].reason][tasks[w].payment])
                /\ tasks[w].payment \in Payments
                /\ rows = [refunds[tasks[w].reason] EXCEPT
                             ![tasks[w].payment] = AfterAnswer(@, tasks[w].answer)]
                /\ \A p \in Payments : Advances(refunds[tasks[w].reason][p], rows[p])
<1> DEFINE r == tasks[w].reason
           p == tasks[w].payment
           answer == tasks[w].answer
           rows == [refunds[r] EXCEPT ![p] = AfterAnswer(@, answer)]
<1>1. r \in Reasons /\ p \in Payments /\ answer \in {"pending", "succeeded", "failed", "unsupported"}
  BY DEF TypeOK
<1>2. CASE CanExecute(refunds[r][p])
  <2>1. Update(r, rows)
    BY <1>2 DEF RecordAnswer
  <2>2. refunds[r] \in [Payments -> RefundRow] /\ refunds[r][p] \in RefundRow
    BY <1>1 DEF TypeOK
  <2> HIDE DEF answer
  <2>3. /\ AfterAnswer(refunds[r][p], answer) \in RefundRow
        /\ Advances(refunds[r][p], AfterAnswer(refunds[r][p], answer))
    BY <1>1, <1>2, <2>2, AnswerAdvances
  <2>4. rows \in RowsOf /\ \A q \in Payments : Advances(refunds[r][q], rows[q])
    BY <1>1, <2>2, <2>3 DEF RowsOf, Advances
  <2> QED BY <1>1, <1>2, <2>1, <2>4 DEF answer
<1>3. CASE ~CanExecute(refunds[r][p])
  BY <1>3 DEF RecordAnswer
<1> QED BY <1>2, <1>3

LEMMA ConfirmedRows ==
    ASSUME TypeOK, NEW r \in Reasons, NEW p \in Payments, ConfirmManualRefund(r, p)
    PROVE  \/ UNCHANGED <<refunds, batches>>
           \/ \E rows \in RowsOf :
                /\ Update(r, rows)
                /\ rows = [refunds[r] EXCEPT ![p] = IF Confirmable(@) THEN ByHand(@) ELSE @]
                /\ \A q \in Payments : Advances(refunds[r][q], rows[q])
<1> DEFINE rows == [refunds[r] EXCEPT ![p] = IF Confirmable(@) THEN ByHand(@) ELSE @]
<1>1. CASE refunds[r][p].status = "failed"
  BY <1>1 DEF ConfirmManualRefund
<1>2. CASE refunds[r][p].status # "failed"
  <2>1. Update(r, rows)
    BY <1>2 DEF ConfirmManualRefund
  <2>2. refunds[r] \in [Payments -> RefundRow] /\ refunds[r][p] \in RefundRow
    BY DEF TypeOK
  <2>3. Confirmable(refunds[r][p]) =>
          /\ ByHand(refunds[r][p]) \in RefundRow
          /\ Advances(refunds[r][p], ByHand(refunds[r][p]))
    BY <2>2, HandAdvances
  <2>4. rows \in RowsOf /\ \A q \in Payments : Advances(refunds[r][q], rows[q])
    BY <2>2, <2>3 DEF RowsOf, Advances
  <2> QED BY <2>1, <2>4
<1> QED BY <1>1, <1>2

LEMMA TypeExecute ==
    ASSUME TypeOK, ExecuteNext
    PROVE  TypeOK'
<1>1. ASSUME NEW w \in Workers, NEW r \in Reasons, NEW p \in Payments, PrepareExecution(w, r, p)
      PROVE  TypeOK'
  <2> DEFINE row == [tasks[w] EXCEPT !.step = "prepared", !.reason = r, !.payment = p]
  <2>1. row \in TaskRow
    <3>1. tasks[w] \in TaskRow
      BY DEF TypeOK, TaskRow
    <3> QED BY <3>1 DEF TaskRow
  <2>2. tasks' = [tasks EXCEPT ![w] = row]
    BY <1>1 DEF PrepareExecution
  <2> HIDE DEF row
  <2>3. tasks' \in [Workers -> TaskRow]
    BY <2>1, <2>2 DEF TypeOK, TaskRow
  <2> QED BY <1>1, <2>3 DEF PrepareExecution, TypeOK, TaskRow
<1>2. ASSUME NEW w \in Workers, CallGateway(w)
      PROVE  TypeOK'
  <2> DEFINE r == tasks[w].reason
             p == tasks[w].payment
  <2>1. PICK state \in Outcomes(provider[r][p]) : \E answer \in Answers(state) :
          /\ provider' = [provider EXCEPT ![r][p] = state]
          /\ tasks' = [tasks EXCEPT ![w].step = "answered", ![w].answer = answer]
    BY <1>2 DEF CallGateway
  <2>2. PICK answer \in Answers(state) :
          /\ provider' = [provider EXCEPT ![r][p] = state]
          /\ tasks' = [tasks EXCEPT ![w].step = "answered", ![w].answer = answer]
    BY <2>1
  <2>3. state \in {"processing", "paid", "refused"}
    BY <2>1 DEF Outcomes, TypeOK
  <2>4. answer \in {"pending", "succeeded", "failed", "unsupported"}
    BY <2>2, <2>3 DEF Answers
  <2> DEFINE row == [tasks[w] EXCEPT !.step = "answered", !.answer = answer]
  <2>5. row \in TaskRow
    <3>1. tasks[w] \in TaskRow
      BY DEF TypeOK, TaskRow
    <3> QED BY <2>4, <3>1 DEF TaskRow
  <2>6. tasks' = [tasks EXCEPT ![w] = row]
    BY <2>2 DEF TypeOK
  <2> HIDE DEF row
  <2>7. tasks' \in [Workers -> TaskRow]
    BY <2>5, <2>6 DEF TypeOK, TaskRow
  <2>8. provider' \in [Reasons -> [Payments -> {"unseen", "processing", "paid", "refused"}]]
    BY <2>2, <2>3 DEF TypeOK
  <2> QED BY <1>2, <2>7, <2>8 DEF CallGateway, TypeOK, TaskRow
<1>3. ASSUME NEW w \in Workers, LoseAnswer(w)
      PROVE  TypeOK'
  BY <1>3, IdleType DEF LoseAnswer, TypeOK, TaskRow
<1>4. ASSUME NEW w \in Workers, RecordAnswer(w)
      PROVE  TypeOK'
  <2>1. batches' \in [Reasons -> BatchRow] /\ refunds' \in [Reasons -> RowsOf]
    BY <1>4, RecordedRows, UpdateType DEF TypeOK, RowsOf
  <2> QED BY <1>4, <2>1, IdleType DEF RecordAnswer, TypeOK, TaskRow, RowsOf
<1>5. ASSUME NEW r \in Reasons, NEW p \in Payments, ProviderSettles(r, p)
      PROVE  TypeOK'
  BY <1>5 DEF ProviderSettles, TypeOK
<1> QED BY <1>1, <1>2, <1>3, <1>4, <1>5 DEF ExecuteNext

LEMMA TypeConfirm ==
    ASSUME TypeOK, ConfirmNext
    PROVE  TypeOK'
<1>1. ASSUME NEW r \in Reasons, NEW p \in Payments, BeginConfirm(r, p)
      PROVE  TypeOK'
  BY <1>1 DEF BeginConfirm, TypeOK
<1>2. ASSUME NEW r \in Reasons, NEW p \in Payments, ConfirmManualRefund(r, p)
      PROVE  TypeOK'
  <2>1. batches' \in [Reasons -> BatchRow] /\ refunds' \in [Reasons -> RowsOf]
    BY <1>2, ConfirmedRows, UpdateType DEF TypeOK, RowsOf
  <2> QED BY <1>2, <2>1 DEF ConfirmManualRefund, TypeOK, RowsOf
<1> QED BY <1>1, <1>2 DEF ConfirmNext

LEMMA TypeMoved ==
    ASSUME TypeOK, NEW r \in Reasons, NEW operation \in OperationRow, Move(r, operation)
    PROVE  TypeOK'
BY DEF Move, TypeOK

LEMMA OperationTypes ==
    ASSUME TypeOK, NEW r \in Reasons
    PROVE  /\ \A status \in {"awaiting_details", "verification_required", "correction_required",
                             "ready_for_transfer", "transfer_submitted", "transfer_rejected"} :
                [operations[r] EXCEPT !.status = status] \in OperationRow
           /\ [operations[r] EXCEPT !.claimed = TRUE] \in OperationRow
           /\ NewOperation \in OperationRow
<1>1. operations[r] \in OperationRow
  BY DEF TypeOK
<1> QED BY <1>1 DEF OperationRow, NewOperation

LEMMA TypeClosed ==
    ASSUME TypeOK, NEW r \in Reasons, CloseOperation(r)
    PROVE  /\ batches' \in [Reasons -> BatchRow] /\ refunds' \in [Reasons -> RowsOf]
           /\ operations' \in [Reasons -> OperationRow]
<1>1. batches' \in [Reasons -> BatchRow] /\ refunds' \in [Reasons -> RowsOf]
  BY ManualRowsAdvance, UpdateType DEF CloseOperation
<1> DEFINE row == [operations[r] EXCEPT !.status = "completed", !.claimed = TRUE]
<1>2. row \in OperationRow
  <2>1. operations[r] \in OperationRow
    BY DEF TypeOK
  <2> QED BY <2>1 DEF OperationRow
<1>3. operations' = [operations EXCEPT ![r] = row]
  BY DEF CloseOperation, TypeOK
<1> HIDE DEF row
<1> QED BY <1>1, <1>2, <1>3 DEF TypeOK

LEMMA TypeWorkflow ==
    ASSUME TypeOK, WorkflowNext
    PROVE  TypeOK'
<1>1. CASE EnableWorkflow
  <2>1. NewOperation \in OperationRow
    BY DEF NewOperation, OperationRow
  <2>2. operations' \in [Reasons -> OperationRow]
    BY <1>1, <2>1 DEF EnableWorkflow, TypeOK
  <2> QED BY <1>1, <2>2 DEF EnableWorkflow, TypeOK
<1>2. ASSUME NEW paused \in BOOLEAN, SetWorkflowPaused(paused)
      PROVE  TypeOK'
  BY <1>2 DEF SetWorkflowPaused, TypeOK
<1>3. ASSUME NEW r \in Reasons,
             \/ SubmitDestination(r) \/ VerifyDestination(r) \/ Claim(r)
             \/ SubmitTransfer(r) \/ Reject(r) \/ Reopen(r)
      PROVE  TypeOK'
  <2>1. \E operation \in OperationRow : Move(r, operation)
    BY <1>3, OperationTypes
       DEF SubmitDestination, VerifyDestination, Claim, SubmitTransfer, Reject, Reopen
  <2> QED BY <2>1, TypeMoved
<1>4. ASSUME NEW r \in Reasons, Approve(r) \/ CompleteDirectTransfer(r)
      PROVE  TypeOK'
  <2>1. CloseOperation(r)
    BY <1>4 DEF Approve, CompleteDirectTransfer
  <2> QED BY <1>4, <2>1, TypeClosed DEF Approve, CompleteDirectTransfer, TypeOK, RowsOf
<1>5. ASSUME NEW r \in Reasons, SendAutoPayout(r)
      PROVE  TypeOK'
  <2> DEFINE row == [transfers[r] EXCEPT !.sent = @ + 1, !.unrecorded = @ + 1]
  <2>1. row \in [sent : Nat, unrecorded : Nat]
    <3>1. transfers[r] \in [sent : Nat, unrecorded : Nat]
      BY DEF TypeOK
    <3>2. transfers[r].sent + 1 \in Nat /\ transfers[r].unrecorded + 1 \in Nat
      BY <3>1
    <3> QED BY <3>1, <3>2
  <2>2. transfers' = [transfers EXCEPT ![r] = row]
    BY <1>5 DEF SendAutoPayout, TypeOK
  <2> HIDE DEF row
  <2> QED BY <1>5, <2>1, <2>2 DEF SendAutoPayout, TypeOK
<1>6. ASSUME NEW r \in Reasons, RecordAutoPayout(r)
      PROVE  TypeOK'
  <2>1. transfers' \in [Reasons -> [sent : Nat, unrecorded : Nat]]
    <3> DEFINE row == [transfers[r] EXCEPT !.unrecorded = @ - 1]
    <3>1. transfers[r] \in [sent : Nat, unrecorded : Nat] /\ transfers[r].unrecorded > 0
      BY <1>6 DEF TypeOK, RecordAutoPayout
    <3>2. row \in [sent : Nat, unrecorded : Nat]
      BY <3>1
    <3>3. transfers' = [transfers EXCEPT ![r] = row]
      BY <1>6 DEF RecordAutoPayout, TypeOK
    <3> HIDE DEF row
    <3> QED BY <3>2, <3>3 DEF TypeOK
  <2>2. CASE CloseOperation(r)
    BY <1>6, <2>1, <2>2, TypeClosed DEF RecordAutoPayout, TypeOK, RowsOf
  <2>3. CASE UNCHANGED <<batches, refunds, operations>>
    BY <1>6, <2>1, <2>3 DEF RecordAutoPayout, TypeOK
  <2> QED BY <1>6, <2>2, <2>3 DEF RecordAutoPayout
<1> QED BY <1>1, <1>2, <1>3, <1>4, <1>5, <1>6 DEF WorkflowNext

LEMMA TypeStep == TypeOK /\ [Next]_vars => TypeOK'
<1> SUFFICES ASSUME TypeOK, [Next]_vars PROVE TypeOK'
  OBVIOUS
<1>1. CASE PlanNext
  BY <1>1, TypePlan
<1>2. CASE ExecuteNext
  BY <1>2, TypeExecute
<1>3. CASE ConfirmNext
  BY <1>3, TypeConfirm
<1>4. CASE WorkflowNext
  BY <1>4, TypeWorkflow
<1>5. CASE UNCHANGED vars
  BY <1>5 DEF vars, TypeOK
<1> QED BY <1>1, <1>2, <1>3, <1>4, <1>5 DEF Next

(* Rows, plans, operations and tasks keep the shape their tables give, for *)
(* any captures, reasons, amounts, workers and bounds.                     *)
THEOREM TypeCorrect == Spec => []TypeOK
<1>1. Init => TypeOK
  BY TypeInit
<1>2. TypeOK /\ [Next]_vars => TypeOK'
  BY TypeStep
<1> QED BY <1>1, <1>2, PTL DEF Spec

-----------------------------------------------------------------------------
(* Every step plans, commits a plan, advances the refunds of one existing  *)
(* batch, or touches neither batches nor refunds nor plans.                *)
Advance(r, rows) ==
    /\ batches[r] # NoBatch
    /\ \A p \in Payments : Advances(refunds[r][p], rows[p])
    /\ Update(r, rows)

LEMMA Touching ==
    ASSUME TypeOK, RowsAddUp, People, [Next]_vars
    PROVE  \/ \E r \in Reasons, amount \in Amounts : ExecuteRefund(r, amount)
           \/ \E r \in Reasons : CommitRefund(r)
           \/ (\E r \in Reasons, rows \in RowsOf : Advance(r, rows)) /\ UNCHANGED planning
           \/ UNCHANGED <<batches, refunds, planning>>
<1>1. CASE PlanNext
  BY <1>1 DEF PlanNext
<1>2. ASSUME NEW w \in Workers, RecordAnswer(w)
      PROVE  \/ (\E r \in Reasons, rows \in RowsOf : Advance(r, rows)) /\ UNCHANGED planning
             \/ UNCHANGED <<batches, refunds, planning>>
  <2>1. UNCHANGED planning
    BY <1>2 DEF RecordAnswer
  <2>2. CASE UNCHANGED <<refunds, batches>>
    BY <2>1, <2>2
  <2> DEFINE r == tasks[w].reason
             p == tasks[w].payment
  <2>3. CASE \E rows \in RowsOf :
               /\ Update(r, rows) /\ r \in Reasons /\ CanExecute(refunds[r][p]) /\ p \in Payments
               /\ \A q \in Payments : Advances(refunds[r][q], rows[q])
    <3>1. refunds[r][p] # NoRefund
      BY <2>3 DEF CanExecute, NoRefund
    <3>2. batches[r] # NoBatch
      BY <2>3, <3>1 DEF RowsAddUp
    <3> QED BY <2>1, <2>3, <3>2 DEF Advance
  <2> QED BY <1>2, <2>2, <2>3, RecordedRows
<1>3. ASSUME NEW r \in Reasons, NEW p \in Payments, ConfirmManualRefund(r, p)
      PROVE  \/ (\E s \in Reasons, rows \in RowsOf : Advance(s, rows)) /\ UNCHANGED planning
             \/ UNCHANGED <<batches, refunds, planning>>
  <2>1. UNCHANGED planning
    BY <1>3 DEF ConfirmManualRefund
  <2>2. CASE UNCHANGED <<refunds, batches>>
    BY <2>1, <2>2
  <2>3. CASE \E rows \in RowsOf :
               Update(r, rows) /\ \A q \in Payments : Advances(refunds[r][q], rows[q])
    <3>1. refunds[r][p] # NoRefund
      BY <1>3 DEF ConfirmManualRefund, People, ConfirmationsMeetRefunds
    <3>2. batches[r] # NoBatch
      BY <3>1 DEF RowsAddUp
    <3> QED BY <2>1, <2>3, <3>2 DEF Advance
  <2> QED BY <1>3, <2>2, <2>3, ConfirmedRows
<1>4. ASSUME NEW r \in Reasons, CloseOperation(r), operations[r].status # "none"
      PROVE  \E rows \in RowsOf : Advance(r, rows)
  <2>1. operations[r] # NoOperation
    BY <1>4 DEF NoOperation
  <2>2. batches[r] # NoBatch
    BY <2>1 DEF People, OperationsHaveBatches
  <2> QED BY <1>4, <2>2, ManualRowsAdvance DEF CloseOperation, Advance
<1>5. CASE ExecuteNext
  <2>1. CASE \E w \in Workers : RecordAnswer(w)
    BY <1>2, <2>1
  <2>2. CASE ~\E w \in Workers : RecordAnswer(w)
    BY <1>5, <2>2 DEF ExecuteNext, CallGateway, LoseAnswer, ProviderSettles, PrepareExecution
  <2> QED BY <2>1, <2>2
<1>6. CASE ConfirmNext
  <2>1. ASSUME NEW r \in Reasons, NEW p \in Payments, BeginConfirm(r, p)
        PROVE  UNCHANGED <<batches, refunds, planning>>
    BY <2>1 DEF BeginConfirm
  <2> QED BY <1>3, <1>6, <2>1 DEF ConfirmNext
<1>7. CASE WorkflowNext
  <2>1. CASE \E r \in Reasons : Approve(r) \/ CompleteDirectTransfer(r) \/ RecordAutoPayout(r)
    <3>1. PICK r \in Reasons : Approve(r) \/ CompleteDirectTransfer(r) \/ RecordAutoPayout(r)
      BY <2>1
    <3>2. UNCHANGED planning
      BY <3>1 DEF Approve, CompleteDirectTransfer, RecordAutoPayout
    <3>3. CASE UNCHANGED <<batches, refunds, operations>>
      BY <3>2, <3>3
    <3>4. CASE CloseOperation(r) /\ operations[r].status # "none"
      BY <1>4, <3>2, <3>4
    <3> QED BY <3>1, <3>3, <3>4 DEF Approve, CompleteDirectTransfer, RecordAutoPayout
  <2>2. CASE \E r \in Reasons : \/ SubmitDestination(r) \/ VerifyDestination(r) \/ Claim(r)
                                \/ SubmitTransfer(r) \/ Reject(r) \/ Reopen(r) \/ SendAutoPayout(r)
    BY <2>2 DEF SubmitDestination, VerifyDestination, Claim, SubmitTransfer, Reject, Reopen,
                SendAutoPayout, Move
  <2>3. CASE EnableWorkflow \/ \E paused \in BOOLEAN : SetWorkflowPaused(paused)
    BY <2>3 DEF EnableWorkflow, SetWorkflowPaused
  <2> QED BY <1>7, <2>1, <2>2, <2>3 DEF WorkflowNext
<1>8. CASE UNCHANGED vars
  BY <1>8 DEF vars
<1> QED BY <1>1, <1>5, <1>6, <1>7, <1>8 DEF Next

LEMMA AdvancedTotals ==
    ASSUME NEW old \in RowsOf, NEW new \in RowsOf,
           \A p \in Payments : Advances(old[p], new[p])
    PROVE  /\ Total(new) = Total(old)
           /\ Succeeded(old) <= Succeeded(new) /\ Succeeded(new) <= Total(old)
<1> DEFINE f == [p \in Payments |-> AmountIf(old[p], {"succeeded"})]
           g == [p \in Payments |-> AmountIf(new[p], {"succeeded"})]
<1>1. \A p \in Payments : new[p].amount = old[p].amount
  BY DEF Advances
<1>2. Total(new) = Total(old)
  <2>1. [p \in Payments |-> new[p].amount] = [p \in Payments |-> old[p].amount]
    BY <1>1
  <2> QED BY <2>1 DEF Total
<1>3. \A p \in Payments : f[p] <= g[p]
  <2> SUFFICES ASSUME NEW p \in Payments PROVE f[p] <= g[p]
    OBVIOUS
  <2>1. old[p].amount \in Nat
    BY DEF RowsOf, RefundRow
  <2> QED BY <2>1, <1>1 DEF Advances, AmountIf, Waiting
<1>4. f \in [Payments -> Nat] /\ g \in [Payments -> Nat]
  BY RowTypes
<1>5. Succeeded(old) = SumFunction(f) /\ Succeeded(new) = SumFunction(g)
  BY DEF Succeeded
<1> HIDE DEF f, g
<1>6. SumFunction(f) <= SumFunction(g)
  BY <1>3, <1>4, SumMonotone, PaymentAssumption
<1>7. Succeeded(new) <= Total(new)
  BY SucceededType
<1> QED BY <1>2, <1>5, <1>6, <1>7

LEMMA AdvancedReserved ==
    ASSUME TypeOK, TypeOK', NEW r \in Reasons, NEW rows \in RowsOf, Advance(r, rows),
           NEW p \in Payments
    PROVE  Reserved(p)' <= Reserved(p)
<1> DEFINE f == [s \in Reasons |-> AmountIf(refunds[s][p], Holding)]
           g == [s \in Reasons |-> AmountIf(refunds'[s][p], Holding)]
<1>1. refunds' = [refunds EXCEPT ![r] = rows]
  BY DEF Advance, Update
<1>2. \A s \in Reasons : refunds[s][p].amount \in Nat /\ refunds'[s][p].amount \in Nat
  BY DEF TypeOK, RefundRow
<1>3. f \in [Reasons -> Nat] /\ g \in [Reasons -> Nat]
  BY <1>2 DEF AmountIf
<1>4. \A s \in Reasons : g[s] <= f[s]
  <2> SUFFICES ASSUME NEW s \in Reasons PROVE g[s] <= f[s]
    OBVIOUS
  <2>1. CASE s = r
    <3>1. refunds'[r][p] = rows[p] /\ Advances(refunds[r][p], rows[p])
      BY <1>1 DEF TypeOK, Advance
    <3> QED BY <1>2, <2>1, <3>1 DEF Advances, AmountIf, Waiting, Holding
  <2>2. CASE s # r
    <3>1. refunds'[s] = refunds[s]
      BY <1>1, <2>2 DEF TypeOK
    <3> QED BY <1>2, <3>1 DEF AmountIf
  <2> QED BY <2>1, <2>2
<1>5. Reserved(p) = SumFunction(f) /\ Reserved(p)' = SumFunction(g)
  BY DEF Reserved
<1> HIDE DEF f, g
<1> QED BY <1>3, <1>4, <1>5, SumMonotone, ReasonAssumption

-----------------------------------------------------------------------------
(* The money: capacity, plans, sums and announcements.                     *)
LEMMA Completed ==
    ASSUME NEW requested, NEW rows
    PROVE  Classify(requested, rows) = "completed" <=> Succeeded(rows) = requested
<1> DEFINE full == Succeeded(rows) = requested
           manual == Some(rows, "manual_required")
<1>1. manual \in BOOLEAN
  BY DEF Some
<1>2. CASE full
  BY <1>2 DEF Classify
<1>3. CASE ~full /\ manual
  BY <1>3 DEF Classify
<1>4. CASE ~full /\ ~manual
  BY <1>4 DEF Classify
<1> QED BY <1>1, <1>2, <1>3, <1>4

LEMMA Refreshed ==
    ASSUME NEW batch \in BatchRow, NEW rows
    PROVE  LET next == Classify(batch.requested, rows)
               new == RefreshStatus(batch, rows)
           IN  /\ batch.status = "completed" => new = batch
               /\ batch.status # "completed" =>
                    /\ new.status = next
                    /\ new.announced = IF next = "completed" THEN batch.announced + 1
                                       ELSE batch.announced
BY DEF RefreshStatus, BatchRow

LEMMA RequestedBatch ==
    ASSUME NEW batch, batch.requested > 0
    PROVE  batch # NoBatch
BY DEF NoBatch

LEMMA MoneyAdvance ==
    ASSUME TypeOK, TypeOK', Money, NEW r \in Reasons, NEW rows \in RowsOf,
           Advance(r, rows), UNCHANGED planning
    PROVE  Money'
<1> DEFINE batch == RefreshStatus(batches[r], rows)
<1>1. /\ batches' = [batches EXCEPT ![r] = batch]
      /\ refunds' = [refunds EXCEPT ![r] = rows]
      /\ batches[r] # NoBatch
      /\ \A p \in Payments : Advances(refunds[r][p], rows[p])
  BY DEF Advance, Update
<1>2. /\ batches'[r] = batch /\ refunds'[r] = rows
      /\ \A s \in Reasons \ {r} : batches'[s] = batches[s] /\ refunds'[s] = refunds[s]
  BY <1>1 DEF TypeOK
<1>3. batches[r] \in BatchRow /\ refunds[r] \in RowsOf
  BY DEF TypeOK, RowsOf
<1>4. batch.requested = batches[r].requested /\ batches[r].requested > 0 /\ batch \in BatchRow
  BY <1>1, <1>3, RefreshedType DEF Money, RowsAddUp
<1>5. batch # NoBatch
  BY <1>4, RequestedBatch
<1>6. /\ Total(rows) = Total(refunds[r]) /\ Total(refunds[r]) = batches[r].requested
      /\ Succeeded(refunds[r]) <= Succeeded(rows) /\ Succeeded(rows) <= batches[r].requested
  BY <1>1, <1>3, AdvancedTotals DEF Money, RowsAddUp
<1>7. \A p \in Payments : /\ Reserved(p)' <= Reserved(p)
                          /\ Reserved(p) \in Nat /\ Reserved(p)' \in Nat
  <2> SUFFICES ASSUME NEW p \in Payments
               PROVE  /\ Reserved(p)' <= Reserved(p)
                      /\ Reserved(p) \in Nat /\ Reserved(p)' \in Nat
    OBVIOUS
  <2>1. Reserved(p)' <= Reserved(p)
    BY AdvancedReserved
  <2>2. Reserved(p) \in Nat
    BY ReservedType
  <2>3. Reserved(p)' \in Nat
    <3> DEFINE f == [s \in Reasons |-> AmountIf(refunds'[s][p], Holding)]
    <3>1. \A s \in Reasons : refunds'[s][p].amount \in Nat
      BY DEF TypeOK, RefundRow
    <3>2. f \in [Reasons -> Nat]
      BY <3>1 DEF AmountIf
    <3>3. Reserved(p)' = SumFunction(f)
      BY DEF Reserved
    <3> HIDE DEF f
    <3> QED BY <3>2, <3>3, SumNatural, ReasonAssumption
  <2> QED BY <2>1, <2>2, <2>3
<1>8. OnePlan'
  BY DEF Money, OnePlan
<1>9. PlansFit'
  <2> SUFFICES ASSUME NEW s \in Reasons, planning[s] # NoPlan
               PROVE  /\ batches'[s] = NoBatch /\ planning[s].requested > 0
                      /\ Total(planning[s].rows) = planning[s].requested
                      /\ \A p \in Payments :
                           /\ PlannedRow(planning[s].rows[p])
                           /\ Reserved(p)' + planning[s].rows[p].amount <= Captured[p]
    BY DEF PlansFit, Total, PlannedRow
  <2>1. batches[s] = NoBatch /\ s # r
    BY <1>1 DEF Money, PlansFit
  <2>2. \A p \in Payments : Reserved(p)' + planning[s].rows[p].amount <= Captured[p]
    <3> SUFFICES ASSUME NEW p \in Payments
                 PROVE  Reserved(p)' + planning[s].rows[p].amount <= Captured[p]
      OBVIOUS
    <3> DEFINE more == planning[s].rows[p].amount
               old == Reserved(p)
               new == Reserved(p)'
               all == Captured[p]
    <3>1. more \in Nat /\ all \in Nat
      BY PaymentAssumption DEF TypeOK, RefundRow
    <3>2. old + more <= all
      BY DEF Money, PlansFit
    <3>3. new <= old /\ old \in Nat /\ new \in Nat
      BY <1>7
    <3> HIDE DEF more, old, new, all
    <3>4. new + more <= all
      BY <3>1, <3>2, <3>3
    <3> QED BY <3>4 DEF more, new, all
  <2> QED BY <1>2, <2>1, <2>2 DEF Money, PlansFit
<1>10. RowsAddUp'
  <2> SUFFICES ASSUME NEW s \in Reasons
               PROVE  /\ batches'[s] = NoBatch => \A p \in Payments : refunds'[s][p] = NoRefund
                      /\ batches'[s] # NoBatch => batches'[s].requested > 0
                      /\ Total(refunds'[s]) = batches'[s].requested
                      /\ \A p \in Payments : refunds'[s][p].status = "none" =>
                                                refunds'[s][p] = NoRefund
    BY DEF RowsAddUp, Total
  <2>1. CASE s = r
    <3>1. \A p \in Payments : rows[p].status = "none" => rows[p] = NoRefund
      BY <1>1 DEF Advances, Waiting, Money, RowsAddUp
    <3> QED BY <1>2, <1>4, <1>5, <1>6, <2>1, <3>1
  <2>2. CASE s # r
    BY <1>2, <2>2 DEF Money, RowsAddUp
  <2> QED BY <2>1, <2>2
<1>11. CapacityKept'
  <2> SUFFICES ASSUME NEW p \in Payments PROVE Reserved(p)' <= Captured[p]
    BY DEF CapacityKept
  <2>1. Reserved(p) <= Captured[p] /\ Captured[p] \in Nat
    BY PaymentAssumption DEF Money, CapacityKept
  <2> QED BY <1>7, <2>1
<1>12. AnnouncedOnceInFull'
  <2> SUFFICES ASSUME NEW s \in Reasons, batches'[s] # NoBatch
               PROVE  /\ batches'[s].status = Classify(batches'[s].requested, refunds'[s])
                      /\ batches'[s].announced = IF batches'[s].status = "completed" THEN 1 ELSE 0
    BY DEF AnnouncedOnceInFull, Classify, Succeeded, Some, AmountIf
  <2>1. CASE s = r
    <3> DEFINE next == Classify(batches[r].requested, rows)
    <3>1. /\ batches[r].status = Classify(batches[r].requested, refunds[r])
          /\ batches[r].announced = IF batches[r].status = "completed" THEN 1 ELSE 0
      BY <1>1 DEF Money, AnnouncedOnceInFull
    <3>2. batches[r].status = "completed" => next = "completed"
      <4> SUFFICES ASSUME batches[r].status = "completed" PROVE next = "completed"
        OBVIOUS
      <4>1. Succeeded(refunds[r]) = batches[r].requested
        BY <3>1, Completed
      <4>2. Succeeded(rows) = batches[r].requested
        BY <1>3, <1>6, <4>1, SucceededType
      <4> QED BY <4>2, Completed
    <3>3. /\ batches[r].status = "completed" => batch = batches[r]
          /\ batches[r].status # "completed" =>
               /\ batch.status = next
               /\ batch.announced = IF next = "completed" THEN batches[r].announced + 1
                                    ELSE batches[r].announced
      BY <1>3, Refreshed
    <3> QED BY <1>2, <1>4, <2>1, <3>1, <3>2, <3>3
  <2>2. CASE s # r
    BY <1>2, <2>2 DEF Money, AnnouncedOnceInFull
  <2> QED BY <2>1, <2>2
<1> QED BY <1>8, <1>9, <1>10, <1>11, <1>12 DEF Money

LEMMA MoneySame ==
    ASSUME Money, UNCHANGED <<batches, refunds, planning>>
    PROVE  Money'
<1>1. OnePlan'
  BY DEF Money, OnePlan, NoPlan
<1>2. \A p \in Payments : Reserved(p)' = Reserved(p)
  BY DEF Reserved
<1>3. PlansFit'
  BY <1>2 DEF Money, PlansFit, NoPlan, NoBatch, Total, PlannedRow
<1>4. RowsAddUp'
  BY DEF Money, RowsAddUp, NoBatch, NoRefund, Total
<1>5. CapacityKept'
  BY <1>2 DEF Money, CapacityKept
<1>6. AnnouncedOnceInFull'
  BY DEF Money, AnnouncedOnceInFull, Classify, Succeeded, Some, AmountIf
<1> QED BY <1>1, <1>3, <1>4, <1>5, <1>6 DEF Money

LEMMA MoneyExecute ==
    ASSUME TypeOK, Money, NEW r \in Reasons, NEW amount \in Amounts, ExecuteRefund(r, amount)
    PROVE  Money'
<1>1. PICK plan \in PlanRow :
        /\ planning' = [planning EXCEPT ![r] = plan]
        /\ plan.requested = amount /\ amount > 0 /\ Total(plan.rows) = amount
        /\ \A p \in Payments :
             /\ PlannedRow(plan.rows[p])
             /\ CapacityKept => Reserved(p) + plan.rows[p].amount <= Captured[p]
  BY ExecutePlans
<1>2. /\ \A s \in Reasons : planning[s] = NoPlan
      /\ batches[r] = NoBatch
      /\ UNCHANGED <<batches, refunds>>
  BY DEF ExecuteRefund, BookingUnlocked
<1>3. planning'[r] = plan /\ \A s \in Reasons \ {r} : planning'[s] = NoPlan
  BY <1>1, <1>2 DEF TypeOK
<1>4. \A p \in Payments : Reserved(p)' = Reserved(p)
  BY <1>2 DEF Reserved
<1>5. OnePlan'
  BY <1>3 DEF OnePlan, NoPlan
<1>6. PlansFit'
  <2> SUFFICES ASSUME NEW s \in Reasons, planning'[s] # NoPlan
               PROVE  /\ batches'[s] = NoBatch /\ planning'[s].requested > 0
                      /\ Total(planning'[s].rows) = planning'[s].requested
                      /\ \A p \in Payments :
                           /\ PlannedRow(planning'[s].rows[p])
                           /\ Reserved(p)' + planning'[s].rows[p].amount <= Captured[p]
    BY DEF PlansFit, Total, PlannedRow, NoPlan, NoBatch
  <2>1. s = r
    BY <1>3
  <2> QED BY <1>1, <1>2, <1>3, <1>4, <2>1 DEF Money
<1>7. RowsAddUp' /\ CapacityKept' /\ AnnouncedOnceInFull'
  BY <1>2 DEF Money, RowsAddUp, CapacityKept, AnnouncedOnceInFull, Reserved, Total,
              Classify, Succeeded, Some, AmountIf
<1> QED BY <1>5, <1>6, <1>7 DEF Money

(* What a commit writes: the planned rows, whose batch nobody announces.   *)
LEMMA CommitWrites ==
    ASSUME TypeOK, Money, NEW r \in Reasons, CommitRefund(r)
    PROVE  LET rows == planning[r].rows
           IN  /\ planning[r] # NoPlan /\ batches[r] = NoBatch /\ rows \in RowsOf
               /\ refunds' = [refunds EXCEPT ![r] = rows]
               /\ planning' = [planning EXCEPT ![r] = NoPlan]
               /\ Total(rows) = planning[r].requested /\ planning[r].requested > 0
               /\ Succeeded(rows) = 0
               /\ \A p \in Payments : PlannedRow(rows[p])
               /\ \E batch \in BatchRow :
                    /\ batches' = [batches EXCEPT ![r] = batch]
                    /\ batch.requested = planning[r].requested
                    /\ batch.status = Classify(batch.requested, rows)
                    /\ batch.status # "completed" /\ batch.announced = 0
<1> DEFINE rows == planning[r].rows
           old == [NoBatch EXCEPT !.requested = planning[r].requested]
           batch == RefreshStatus(old, rows)
<1>1. /\ planning[r] # NoPlan
      /\ refunds' = [refunds EXCEPT ![r] = rows]
      /\ planning' = [planning EXCEPT ![r] = NoPlan]
      /\ batches' = [batches EXCEPT ![r] = batch]
  BY DEF CommitRefund
<1>2. rows \in RowsOf /\ planning[r].requested \in Nat
  BY DEF TypeOK, RowsOf
<1>3. /\ Total(rows) = planning[r].requested /\ planning[r].requested > 0 /\ batches[r] = NoBatch
      /\ \A p \in Payments : PlannedRow(rows[p])
  BY <1>1 DEF Money, PlansFit
<1>4. Succeeded(rows) = 0
  <2> DEFINE f == [p \in Payments |-> AmountIf(rows[p], {"succeeded"})]
  <2>1. \A p \in Payments : f[p] = 0
    BY <1>3 DEF PlannedRow, AmountIf, Waiting, NoRefund
  <2>2. f \in [Payments -> Nat]
    BY <1>2, RowTypes
  <2>3. Succeeded(rows) = SumFunction(f)
    BY DEF Succeeded
  <2> HIDE DEF f
  <2> QED BY <2>1, <2>2, <2>3, SumZero, PaymentAssumption
<1>5. /\ old \in BatchRow /\ old.requested = planning[r].requested
      /\ old.status = "none" /\ old.announced = 0
  BY <1>2 DEF NoBatch, BatchRow
<1> HIDE DEF old
<1>6. batch \in BatchRow /\ batch.requested = planning[r].requested
  BY <1>5, RefreshedType
<1>7. Classify(planning[r].requested, rows) # "completed"
  BY <1>3, <1>4, Completed
<1>8. batch.status = Classify(planning[r].requested, rows) /\ batch.announced = 0
  BY <1>5, <1>7, Refreshed
<1> HIDE DEF batch
<1> QED BY <1>1, <1>2, <1>3, <1>4, <1>6, <1>7, <1>8

LEMMA MoneyCommit ==
    ASSUME TypeOK, TypeOK', Money, NEW r \in Reasons, CommitRefund(r)
    PROVE  Money'
<1> DEFINE rows == planning[r].rows
<1>1. PICK batch \in BatchRow :
        /\ batches' = [batches EXCEPT ![r] = batch]
        /\ batch.requested = planning[r].requested
        /\ batch.status = Classify(batch.requested, rows)
        /\ batch.status # "completed" /\ batch.announced = 0
  BY CommitWrites
<1>2. /\ planning[r] # NoPlan /\ batches[r] = NoBatch /\ rows \in RowsOf
      /\ refunds' = [refunds EXCEPT ![r] = rows]
      /\ planning' = [planning EXCEPT ![r] = NoPlan]
      /\ Total(rows) = planning[r].requested /\ planning[r].requested > 0
      /\ \A p \in Payments : PlannedRow(rows[p])
  BY CommitWrites
<1>3. /\ batches'[r] = batch /\ refunds'[r] = rows
      /\ \A s \in Reasons \ {r} : batches'[s] = batches[s] /\ refunds'[s] = refunds[s]
  BY <1>1, <1>2 DEF TypeOK
<1>4. \A s \in Reasons : planning'[s] = NoPlan
  BY <1>2 DEF TypeOK, Money, OnePlan
<1>5. \A p \in Payments : Reserved(p)' <= Captured[p]
  <2> SUFFICES ASSUME NEW p \in Payments PROVE Reserved(p)' <= Captured[p]
    OBVIOUS
  <2> DEFINE f == [s \in Reasons |-> AmountIf(refunds[s][p], Holding)]
             g == [s \in Reasons |-> AmountIf(refunds'[s][p], Holding)]
  <2>1. \A s \in Reasons : refunds[s][p].amount \in Nat /\ refunds'[s][p].amount \in Nat
    BY DEF TypeOK, RefundRow
  <2>2. f \in [Reasons -> Nat] /\ g \in [Reasons -> Nat]
    BY <2>1 DEF AmountIf
  <2>3. \A s \in Reasons \ {r} : f[s] = g[s]
    BY <1>3
  <2>4. f[r] = 0 /\ g[r] <= rows[p].amount /\ rows[p].amount \in Nat
    <3>1. refunds[r][p] = NoRefund
      BY <1>2 DEF Money, RowsAddUp
    <3>2. f[r] = 0
      BY <3>1 DEF AmountIf, NoRefund
    <3>3. g[r] = AmountIf(rows[p], Holding) /\ rows[p].amount \in Nat
      BY <1>3, <2>1
    <3> QED BY <3>2, <3>3 DEF AmountIf
  <2>5. Reserved(p) = SumFunction(f) /\ Reserved(p)' = SumFunction(g)
    BY DEF Reserved
  <2>6. f[r] \in Nat /\ g[r] \in Nat /\ Reserved(p) \in Nat
    BY <2>2, ReservedType
  <2> HIDE DEF f, g
  <2>7. SumFunction(g) = SumFunction(f) - f[r] + g[r]
    BY <2>2, <2>3, SumOneChanged, ReasonAssumption
  <2>8. Reserved(p) + rows[p].amount <= Captured[p] /\ Captured[p] \in Nat
    BY <1>2, PaymentAssumption DEF Money, PlansFit
  <2> QED BY <2>4, <2>5, <2>6, <2>7, <2>8
<1>6. OnePlan' /\ PlansFit'
  BY <1>4 DEF OnePlan, PlansFit, NoPlan
<1>7. batch # NoBatch
  BY <1>1, <1>2, RequestedBatch
<1>8. RowsAddUp'
  <2> SUFFICES ASSUME NEW s \in Reasons
               PROVE  /\ batches'[s] = NoBatch => \A p \in Payments : refunds'[s][p] = NoRefund
                      /\ batches'[s] # NoBatch => batches'[s].requested > 0
                      /\ Total(refunds'[s]) = batches'[s].requested
                      /\ \A p \in Payments : refunds'[s][p].status = "none" =>
                                                refunds'[s][p] = NoRefund
    BY DEF RowsAddUp, Total
  <2>1. CASE s = r
    <3>1. \A p \in Payments : rows[p].status = "none" => rows[p] = NoRefund
      BY <1>2 DEF PlannedRow, Waiting
    <3> QED BY <1>1, <1>2, <1>3, <1>7, <2>1, <3>1
  <2>2. CASE s # r
    BY <1>3, <2>2 DEF Money, RowsAddUp
  <2> QED BY <2>1, <2>2
<1>9. CapacityKept'
  BY <1>5 DEF CapacityKept
<1>10. AnnouncedOnceInFull'
  <2> SUFFICES ASSUME NEW s \in Reasons, batches'[s] # NoBatch
               PROVE  /\ batches'[s].status = Classify(batches'[s].requested, refunds'[s])
                      /\ batches'[s].announced = IF batches'[s].status = "completed" THEN 1 ELSE 0
    BY DEF AnnouncedOnceInFull, Classify, Succeeded, Some, AmountIf
  <2>1. CASE s = r
    BY <1>1, <1>3, <2>1
  <2>2. CASE s # r
    BY <1>3, <2>2 DEF Money, AnnouncedOnceInFull
  <2> QED BY <2>1, <2>2
<1> QED BY <1>6, <1>8, <1>9, <1>10 DEF Money

LEMMA MoneyInit == Init => Money
<1> SUFFICES ASSUME Init PROVE Money
  OBVIOUS
<1>1. \A r \in Reasons : /\ batches[r] = NoBatch /\ planning[r] = NoPlan
                         /\ \A p \in Payments : refunds[r][p] = NoRefund
  BY DEF Init
<1>2. \A p \in Payments : Reserved(p) = 0
  <2> SUFFICES ASSUME NEW p \in Payments PROVE Reserved(p) = 0
    OBVIOUS
  <2> DEFINE f == [r \in Reasons |-> AmountIf(refunds[r][p], Holding)]
  <2>1. f \in [Reasons -> Nat] /\ \A r \in Reasons : f[r] = 0
    BY <1>1 DEF AmountIf, NoRefund
  <2>2. Reserved(p) = SumFunction(f)
    BY DEF Reserved
  <2> HIDE DEF f
  <2> QED BY <2>1, <2>2, SumZero, ReasonAssumption
<1>3. \A r \in Reasons : Total(refunds[r]) = 0
  <2> SUFFICES ASSUME NEW r \in Reasons PROVE Total(refunds[r]) = 0
    OBVIOUS
  <2> DEFINE f == [p \in Payments |-> refunds[r][p].amount]
  <2>1. f \in [Payments -> Nat] /\ \A p \in Payments : f[p] = 0
    BY <1>1 DEF NoRefund
  <2>2. Total(refunds[r]) = SumFunction(f)
    BY DEF Total
  <2> HIDE DEF f
  <2> QED BY <2>1, <2>2, SumZero, PaymentAssumption
<1>4. CapacityKept
  BY <1>2, PaymentAssumption DEF CapacityKept
<1>5. RowsAddUp
  BY <1>1, <1>3 DEF RowsAddUp, NoBatch
<1> QED BY <1>1, <1>4, <1>5 DEF Money, OnePlan, PlansFit, AnnouncedOnceInFull

-----------------------------------------------------------------------------
(* People: what is once there stays, so confirmations and operations meet  *)
(* what they were opened for.                                              *)
LEMMA Stays ==
    ASSUME TypeOK, TypeOK', Money, Money', People, [Next]_vars, NEW r \in Reasons
    PROVE  /\ batches[r] # NoBatch => batches'[r] # NoBatch
           /\ batches[r].status = "completed" => batches'[r].status = "completed"
           /\ \A p \in Payments : refunds[r][p] # NoRefund => refunds'[r][p] # NoRefund
<1>1. CASE UNCHANGED <<batches, refunds>>
  BY <1>1
<1>2. ASSUME NEW s \in Reasons, NEW amount \in Amounts, ExecuteRefund(s, amount)
      PROVE  UNCHANGED <<batches, refunds>>
  BY <1>2 DEF ExecuteRefund
<1>3. ASSUME NEW s \in Reasons, CommitRefund(s), s = r
      PROVE  batches[r] = NoBatch /\ \A p \in Payments : refunds[r][p] = NoRefund
  <2>1. batches[r] = NoBatch
    BY <1>3, CommitWrites
  <2> QED BY <2>1 DEF Money, RowsAddUp
<1>4. ASSUME NEW s \in Reasons, CommitRefund(s), s # r
      PROVE  batches'[r] = batches[r] /\ refunds'[r] = refunds[r]
  BY <1>4 DEF CommitRefund, TypeOK
<1>5. ASSUME NEW s \in Reasons, NEW rows \in RowsOf, Advance(s, rows), s = r
      PROVE  /\ batches'[r] # NoBatch
             /\ batches[r].status = "completed" => batches'[r].status = "completed"
             /\ \A p \in Payments : refunds[r][p] # NoRefund => refunds'[r][p] # NoRefund
  <2>1. batches[r] \in BatchRow
    BY DEF TypeOK
  <2>2. batches'[r] = RefreshStatus(batches[r], rows) /\ refunds'[r] = rows
    BY <1>5 DEF Advance, Update, TypeOK
  <2>3. batches[r].requested > 0
    BY <1>5 DEF Advance, Money, RowsAddUp
  <2>4. batches'[r].requested > 0
    BY <2>1, <2>2, <2>3, RefreshedType
  <2>5. batches'[r] # NoBatch
    BY <2>4, RequestedBatch
  <2>6. batches[r].status = "completed" => batches'[r].status = "completed"
    BY <2>1, <2>2, Refreshed
  <2>7. \A p \in Payments : refunds[r][p] # NoRefund => rows[p] # NoRefund
    BY <1>5 DEF Advance, Advances, NoRefund, Waiting
  <2> QED BY <2>2, <2>5, <2>6, <2>7
<1>6. ASSUME NEW s \in Reasons, NEW rows \in RowsOf, Advance(s, rows), s # r
      PROVE  batches'[r] = batches[r] /\ refunds'[r] = refunds[r]
  BY <1>6 DEF Advance, Update, TypeOK
<1>7. NoBatch.status # "completed"
  BY DEF NoBatch
<1> QED BY <1>1, <1>2, <1>3, <1>4, <1>5, <1>6, <1>7, Touching DEF Money

LEMMA ConfirmationsStep ==
    ASSUME TypeOK, TypeOK', Money, Money', People, [Next]_vars
    PROVE  ConfirmationsMeetRefunds'
<1> SUFFICES ASSUME NEW r \in Reasons, NEW p \in Payments, <<r, p>> \in confirming'
             PROVE  refunds[r][p] # NoRefund
  BY Stays DEF ConfirmationsMeetRefunds, NoRefund
<1>1. CASE <<r, p>> \in confirming
  BY <1>1 DEF People, ConfirmationsMeetRefunds
<1>2. CASE PlanNext
  BY <1>1, <1>2 DEF PlanNext, ExecuteRefund, CommitRefund
<1>3. CASE ExecuteNext
  BY <1>1, <1>3 DEF ExecuteNext, CallGateway, LoseAnswer, RecordAnswer, ProviderSettles,
                    PrepareExecution
<1>4. CASE ConfirmNext
  <2>1. ASSUME NEW s \in Reasons, NEW q \in Payments, BeginConfirm(s, q)
        PROVE  refunds[r][p] # NoRefund
    BY <1>1, <2>1 DEF BeginConfirm
  <2>2. ASSUME NEW s \in Reasons, NEW q \in Payments, ConfirmManualRefund(s, q)
        PROVE  refunds[r][p] # NoRefund
    BY <1>1, <2>2 DEF ConfirmManualRefund
  <2> QED BY <1>4, <2>1, <2>2 DEF ConfirmNext
<1>5. CASE WorkflowNext
  BY <1>1, <1>5
     DEF WorkflowNext, EnableWorkflow, SetWorkflowPaused, SubmitDestination, VerifyDestination,
         Claim, SubmitTransfer, Reject, Reopen, Move, Approve, CompleteDirectTransfer,
         SendAutoPayout, RecordAutoPayout
<1>6. CASE UNCHANGED vars
  BY <1>1, <1>6 DEF vars
<1> QED BY <1>2, <1>3, <1>4, <1>5, <1>6 DEF Next

(* Who may write an operation.                                             *)
LEMMA OperationSteps ==
    ASSUME TypeOK, [Next]_vars, NEW r \in Reasons
    PROVE  \/ operations'[r] = operations[r]
           \/ operations[r] # NoOperation /\ operations'[r].status # "completed"
           \/ operations'[r] = NewOperation /\ batches[r].status = "manual_required"
           \/ operations'[r] = NewOperation /\ CommitRefund(r)
           \/ operations[r] # NoOperation /\ CloseOperation(r)
<1>1. CASE PlanNext
  <2>1. ASSUME NEW s \in Reasons, CommitRefund(s)
        PROVE  \/ operations'[r] = operations[r]
               \/ operations'[r] = NewOperation /\ CommitRefund(r)
    <3>1. CASE s = r
      BY <2>1, <3>1 DEF CommitRefund, TypeOK
    <3>2. CASE s # r
      BY <2>1, <3>2 DEF CommitRefund, TypeOK
    <3> QED BY <3>1, <3>2
  <2>2. ASSUME NEW s \in Reasons, NEW amount \in Amounts, ExecuteRefund(s, amount)
        PROVE  operations'[r] = operations[r]
    BY <2>2 DEF ExecuteRefund
  <2> QED BY <1>1, <2>1, <2>2 DEF PlanNext
<1>2. CASE ExecuteNext
  BY <1>2 DEF ExecuteNext, CallGateway, LoseAnswer, RecordAnswer, ProviderSettles, PrepareExecution
<1>3. CASE ConfirmNext
  BY <1>3 DEF ConfirmNext, BeginConfirm, ConfirmManualRefund
<1>4. ASSUME NEW s \in Reasons, NEW operation \in OperationRow, operation.status # "completed",
             operations[s] # NoOperation, Move(s, operation)
      PROVE  \/ operations'[r] = operations[r]
             \/ operations[r] # NoOperation /\ operations'[r].status # "completed"
  <2>1. operations' = [operations EXCEPT ![s] = operation]
    BY <1>4 DEF Move
  <2>2. CASE s = r
    BY <1>4, <2>1, <2>2 DEF TypeOK
  <2>3. CASE s # r
    BY <2>1, <2>3 DEF TypeOK
  <2> QED BY <2>2, <2>3
<1>5. ASSUME NEW s \in Reasons, CloseOperation(s), operations[s].status # "none"
      PROVE  \/ operations'[r] = operations[r]
             \/ operations[r] # NoOperation /\ CloseOperation(r)
  <2>1. CASE s = r
    BY <1>5, <2>1 DEF NoOperation
  <2>2. CASE s # r
    BY <1>5, <2>2 DEF CloseOperation, TypeOK
  <2> QED BY <2>1, <2>2
<1>6. CASE WorkflowNext
  <2>1. CASE EnableWorkflow
    BY <2>1 DEF EnableWorkflow
  <2>2. CASE \E s \in Reasons : \/ SubmitDestination(s) \/ VerifyDestination(s) \/ Claim(s)
                                \/ SubmitTransfer(s) \/ Reject(s) \/ Reopen(s)
    <3>1. PICK s \in Reasons : \/ SubmitDestination(s) \/ VerifyDestination(s) \/ Claim(s)
                               \/ SubmitTransfer(s) \/ Reject(s) \/ Reopen(s)
      BY <2>2
    <3>2. operations[s] \in OperationRow
      BY DEF TypeOK
    <3>3. operations[s] # NoOperation
      BY <3>1 DEF SubmitDestination, VerifyDestination, Claim, SubmitTransfer, Reject, Reopen,
                  NoOperation
    <3>4. \E operation \in OperationRow : operation.status # "completed" /\ Move(s, operation)
      <4>1. ASSUME NEW status \in {"awaiting_details", "verification_required",
                        "correction_required", "ready_for_transfer", "transfer_submitted",
                        "transfer_rejected"},
                   Move(s, [operations[s] EXCEPT !.status = status])
            PROVE  \E operation \in OperationRow :
                      operation.status # "completed" /\ Move(s, operation)
        <5> DEFINE operation == [operations[s] EXCEPT !.status = status]
        <5>1. operation \in OperationRow
          BY OperationTypes
        <5>2. operation.status = status
          BY <3>2 DEF OperationRow
        <5>3. Move(s, operation)
          BY <4>1
        <5> HIDE DEF operation
        <5> QED BY <4>1, <5>1, <5>2, <5>3
      <4>2. CASE Claim(s)
        <5> DEFINE operation == [operations[s] EXCEPT !.claimed = TRUE]
        <5>1. operation \in OperationRow
          BY OperationTypes
        <5>2. operation.status = "ready_for_transfer"
          BY <3>2, <4>2 DEF OperationRow, Claim
        <5>3. Move(s, operation)
          BY <4>2 DEF Claim
        <5> HIDE DEF operation
        <5> QED BY <5>1, <5>2, <5>3
      <4>3. CASE SubmitDestination(s)
        BY <4>1, <4>3 DEF SubmitDestination
      <4>4. CASE Reopen(s)
        BY <4>4, OperationTypes DEF Reopen, NewOperation
      <4>5. CASE VerifyDestination(s)
        BY <4>1, <4>5 DEF VerifyDestination
      <4>6. CASE SubmitTransfer(s)
        BY <4>1, <4>6 DEF SubmitTransfer
      <4>7. CASE Reject(s)
        BY <4>1, <4>7 DEF Reject
      <4> QED BY <3>1, <4>2, <4>3, <4>4, <4>5, <4>6, <4>7
    <3> QED BY <1>4, <3>3, <3>4
  <2>3. CASE \E s \in Reasons : Approve(s) \/ CompleteDirectTransfer(s) \/ RecordAutoPayout(s)
    <3>1. PICK s \in Reasons : Approve(s) \/ CompleteDirectTransfer(s) \/ RecordAutoPayout(s)
      BY <2>3
    <3>2. \/ CloseOperation(s) /\ operations[s].status # "none"
          \/ UNCHANGED operations
      BY <3>1 DEF Approve, CompleteDirectTransfer, RecordAutoPayout
    <3> QED BY <1>5, <3>2
  <2>4. CASE \/ \E s \in Reasons : SendAutoPayout(s)
             \/ \E paused \in BOOLEAN : SetWorkflowPaused(paused)
    BY <2>4 DEF SendAutoPayout, SetWorkflowPaused
  <2> QED BY <1>6, <2>1, <2>2, <2>3, <2>4 DEF WorkflowNext
<1>7. CASE UNCHANGED vars
  BY <1>7 DEF vars
<1> QED BY <1>1, <1>2, <1>3, <1>6, <1>7 DEF Next

LEMMA PeopleStep ==
    ASSUME TypeOK, TypeOK', Money, Money', People, [Next]_vars
    PROVE  People'
<1>1. ConfirmationsMeetRefunds'
  BY ConfirmationsStep
<1>2. OperationsHaveBatches'
  <2> SUFFICES ASSUME NEW r \in Reasons, operations'[r] # NoOperation
               PROVE  batches'[r] # NoBatch
    BY DEF OperationsHaveBatches, NoOperation, NoBatch
  <2>1. CASE operations[r] # NoOperation
    BY <2>1, Stays DEF People, OperationsHaveBatches
  <2>2. CASE batches[r].status = "manual_required"
    <3>1. batches[r] # NoBatch
      BY <2>2 DEF NoBatch
    <3> QED BY <3>1, Stays
  <2>3. CASE CommitRefund(r)
    <3>1. PICK batch \in BatchRow : /\ batches' = [batches EXCEPT ![r] = batch]
                                    /\ batch.requested = planning[r].requested
      BY <2>3, CommitWrites
    <3>2. planning[r].requested > 0 /\ batches'[r] = batch
      BY <2>3, <3>1, CommitWrites DEF TypeOK
    <3> QED BY <3>1, <3>2, RequestedBatch
  <2> QED BY <2>1, <2>2, <2>3, OperationSteps
<1>3. OperationClosesBatch'
  <2> SUFFICES ASSUME NEW r \in Reasons, operations'[r].status = "completed"
               PROVE  batches'[r].status = "completed"
    BY DEF OperationClosesBatch
  <2>1. CASE operations[r].status = "completed"
    BY <2>1, Stays DEF People, OperationClosesBatch
  <2>2. CASE CloseOperation(r)
    <3> DEFINE rows == ManualRowsPaid(r)
    <3>1. batches'[r] = RefreshStatus(batches[r], rows) /\ batches[r] \in BatchRow
      BY <2>2 DEF CloseOperation, Update, TypeOK
    <3>2. Classify(batches[r].requested, rows) = "completed"
      BY <2>2 DEF CloseOperation
    <3> HIDE DEF rows
    <3> QED BY <3>1, <3>2, Refreshed
  <2>3. NewOperation.status # "completed"
    BY DEF NewOperation
  <2> QED BY <2>1, <2>2, <2>3, OperationSteps
<1> QED BY <1>1, <1>2, <1>3 DEF People

-----------------------------------------------------------------------------
(* The gateways' side.                                                     *)

(* What people settle by hand takes nothing from what gateways did.        *)
LEMMA GatewayByHand ==
    ASSUME TypeOK, TypeOK', Gateway, UNCHANGED <<tasks, provider>>,
           \A r \in Reasons, p \in Payments :
             \/ refunds'[r][p] = refunds[r][p]
             \/ Confirmable(refunds[r][p]) /\ refunds'[r][p] = ByHand(refunds[r][p])
    PROVE  Gateway'
<1>1. \A r \in Reasons, p \in Payments :
        \/ refunds'[r][p] = refunds[r][p]
        \/ /\ refunds'[r][p].mode = refunds[r][p].mode
           /\ refunds'[r][p].status = "succeeded" /\ refunds'[r][p].evidence
           /\ refunds'[r][p] # NoRefund /\ refunds[r][p] # NoRefund
           /\ refunds[r][p].status # "failed"
  <2> SUFFICES ASSUME NEW r \in Reasons, NEW p \in Payments,
                      Confirmable(refunds[r][p]), refunds'[r][p] = ByHand(refunds[r][p])
               PROVE  /\ refunds'[r][p].mode = refunds[r][p].mode
                      /\ refunds'[r][p].status = "succeeded" /\ refunds'[r][p].evidence
                      /\ refunds'[r][p] # NoRefund /\ refunds[r][p] # NoRefund
                      /\ refunds[r][p].status # "failed"
    OBVIOUS
  <2>1. refunds[r][p] \in RefundRow
    BY DEF TypeOK
  <2>2. /\ refunds'[r][p].mode = refunds[r][p].mode
        /\ refunds'[r][p].status = "succeeded" /\ refunds'[r][p].evidence
    BY <2>1 DEF ByHand, RefundRow
  <2>3. refunds[r][p].status \in {"pending", "manual_required"}
    BY DEF Confirmable
  <2> QED BY <2>2, <2>3 DEF NoRefund
<1>2. AskedOnlyOfRefunds'
  BY <1>1 DEF Gateway, AskedOnlyOfRefunds
<1>3. TasksAgree'
  <2> SUFFICES ASSUME NEW w \in Workers, tasks'[w].step # "idle"
               PROVE  LET row == refunds'[tasks'[w].reason][tasks'[w].payment]
                          state == provider'[tasks'[w].reason][tasks'[w].payment]
                      IN  /\ row # NoRefund
                          /\ (row.mode = "automatic" /\ row.status # "failed") \/ state = "refused"
                          /\ tasks'[w].step = "answered" =>
                               /\ tasks'[w].answer = "succeeded" => state = "paid"
                               /\ tasks'[w].answer \in {"failed", "unsupported"} => state = "refused"
    BY DEF TasksAgree
  <2>1. tasks[w].reason \in Reasons /\ tasks[w].payment \in Payments
    BY DEF TypeOK
  <2>2. LET row == refunds[tasks[w].reason][tasks[w].payment]
            state == provider[tasks[w].reason][tasks[w].payment]
        IN  /\ row # NoRefund
            /\ (row.mode = "automatic" /\ row.status # "failed") \/ state = "refused"
            /\ tasks[w].step = "answered" =>
                 /\ tasks[w].answer = "succeeded" => state = "paid"
                 /\ tasks[w].answer \in {"failed", "unsupported"} => state = "refused"
    BY DEF Gateway, TasksAgree
  <2>3. /\ tasks'[w] = tasks[w]
        /\ provider'[tasks[w].reason][tasks[w].payment] = provider[tasks[w].reason][tasks[w].payment]
    OBVIOUS
  <2>4. LET old == refunds[tasks[w].reason][tasks[w].payment]
            new == refunds'[tasks[w].reason][tasks[w].payment]
        IN  new = old \/ (new # NoRefund /\ new.mode = old.mode /\ new.status = "succeeded")
    BY <1>1, <2>1
  <2> QED BY <2>2, <2>3, <2>4
<1>4. ProviderAgrees'
  <2> SUFFICES ASSUME NEW r \in Reasons, NEW p \in Payments
               PROVE  /\ refunds'[r][p].status = "failed" \/ refunds'[r][p].mode = "manual" =>
                           provider'[r][p] \in {"unseen", "refused"}
                      /\ refunds'[r][p].status = "succeeded" /\ ~refunds'[r][p].evidence =>
                           provider'[r][p] = "paid"
    BY DEF ProviderAgrees
  <2>1. /\ refunds[r][p].status = "failed" \/ refunds[r][p].mode = "manual" =>
             provider[r][p] \in {"unseen", "refused"}
        /\ refunds[r][p].status = "succeeded" /\ ~refunds[r][p].evidence =>
             provider[r][p] = "paid"
    BY DEF Gateway, ProviderAgrees
  <2>2. provider'[r][p] = provider[r][p]
    OBVIOUS
  <2>3. CASE refunds'[r][p] = refunds[r][p]
    BY <2>1, <2>2, <2>3
  <2>4. CASE /\ refunds'[r][p].mode = refunds[r][p].mode
             /\ refunds'[r][p].status = "succeeded" /\ refunds'[r][p].evidence
    BY <2>1, <2>2, <2>4
  <2> QED BY <1>1, <2>3, <2>4
<1> QED BY <1>2, <1>3, <1>4 DEF Gateway

(* New refunds are unknown to every gateway.                               *)
LEMMA GatewayCommit ==
    ASSUME TypeOK, TypeOK', Money, Gateway, NEW r \in Reasons, CommitRefund(r)
    PROVE  Gateway'
<1> DEFINE rows == planning[r].rows
<1>1. /\ refunds' = [refunds EXCEPT ![r] = rows] /\ batches[r] = NoBatch
      /\ \A p \in Payments : PlannedRow(rows[p])
  BY CommitWrites
<1>2. UNCHANGED <<tasks, provider>>
  BY DEF CommitRefund
<1>3. /\ refunds'[r] = rows
      /\ \A s \in Reasons \ {r} : refunds'[s] = refunds[s]
  BY <1>1 DEF TypeOK
<1>4. \A p \in Payments : refunds[r][p] = NoRefund /\ provider[r][p] = "unseen"
  BY <1>1 DEF Money, RowsAddUp, Gateway, AskedOnlyOfRefunds
<1>5. AskedOnlyOfRefunds'
  BY <1>2, <1>3, <1>4 DEF Gateway, AskedOnlyOfRefunds
<1>6. TasksAgree'
  <2> SUFFICES ASSUME NEW w \in Workers, tasks[w].step # "idle"
               PROVE  tasks[w].reason # r /\ tasks[w].reason \in Reasons
    BY <1>2, <1>3 DEF Gateway, TasksAgree
  <2>1. tasks[w].reason \in Reasons /\ tasks[w].payment \in Payments
    BY DEF TypeOK
  <2>2. refunds[tasks[w].reason][tasks[w].payment] # NoRefund
    BY DEF Gateway, TasksAgree
  <2> QED BY <1>4, <2>1, <2>2
<1>7. ProviderAgrees'
  <2> SUFFICES ASSUME NEW s \in Reasons, NEW p \in Payments
               PROVE  /\ refunds'[s][p].status = "failed" \/ refunds'[s][p].mode = "manual" =>
                           provider'[s][p] \in {"unseen", "refused"}
                      /\ refunds'[s][p].status = "succeeded" /\ ~refunds'[s][p].evidence =>
                           provider'[s][p] = "paid"
    BY DEF ProviderAgrees
  <2>1. CASE s = r
    <3>1. rows[p].status # "succeeded"
      BY <1>1 DEF PlannedRow, Waiting, NoRefund
    <3> QED BY <1>2, <1>3, <1>4, <2>1, <3>1
  <2>2. CASE s # r
    BY <1>2, <1>3, <2>2 DEF Gateway, ProviderAgrees
  <2> QED BY <2>1, <2>2
<1> QED BY <1>5, <1>6, <1>7 DEF Gateway

(* A worker picks up a refund that is still the gateway's.                 *)
LEMMA GatewayPrepare ==
    ASSUME TypeOK, Gateway, NEW w \in Workers, NEW r \in Reasons, NEW p \in Payments,
           PrepareExecution(w, r, p)
    PROVE  Gateway'
<1> DEFINE task == [tasks[w] EXCEPT !.step = "prepared", !.reason = r, !.payment = p]
<1>1. tasks[w] \in TaskRow
  BY DEF TypeOK, TaskRow
<1>2. task.step = "prepared" /\ task.reason = r /\ task.payment = p
  BY <1>1 DEF TaskRow
<1>3. tasks' = [tasks EXCEPT ![w] = task] /\ UNCHANGED <<refunds, provider>>
  BY DEF PrepareExecution
<1>4. CanExecute(refunds[r][p])
  BY DEF PrepareExecution
<1> HIDE DEF task
<1>5. tasks'[w] = task /\ \A v \in Workers \ {w} : tasks'[v] = tasks[v]
  BY <1>3 DEF TypeOK
<1>6. TasksAgree'
  <2> SUFFICES ASSUME NEW v \in Workers, tasks'[v].step # "idle"
               PROVE  LET row == refunds[tasks'[v].reason][tasks'[v].payment]
                          state == provider[tasks'[v].reason][tasks'[v].payment]
                      IN  /\ row # NoRefund
                          /\ (row.mode = "automatic" /\ row.status # "failed") \/ state = "refused"
                          /\ tasks'[v].step = "answered" =>
                               /\ tasks'[v].answer = "succeeded" => state = "paid"
                               /\ tasks'[v].answer \in {"failed", "unsupported"} => state = "refused"
    BY <1>3 DEF TasksAgree
  <2>1. CASE v = w
    BY <1>2, <1>4, <1>5, <2>1 DEF CanExecute, NoRefund
  <2>2. CASE v # w
    BY <1>5, <2>2 DEF Gateway, TasksAgree
  <2> QED BY <2>1, <2>2
<1>7. AskedOnlyOfRefunds' /\ ProviderAgrees'
  BY <1>3 DEF Gateway, AskedOnlyOfRefunds, ProviderAgrees
<1> QED BY <1>6, <1>7 DEF Gateway

(* A decision that a gateway has made stays, and only refunds that are its *)
(* own are decided.                                                        *)
LEMMA GatewayDecides ==
    ASSUME TypeOK, TypeOK', Gateway, UNCHANGED refunds, NEW r \in Reasons, NEW p \in Payments,
           refunds[r][p] # NoRefund, NEW state, provider' = [provider EXCEPT ![r][p] = state],
           provider[r][p] \in {"paid", "refused"} => state = provider[r][p],
           \/ refunds[r][p].mode = "automatic" /\ refunds[r][p].status # "failed"
           \/ provider[r][p] = "refused"
    PROVE  /\ AskedOnlyOfRefunds' /\ ProviderAgrees'
           /\ \A s \in Reasons, q \in Payments :
                provider[s][q] \in {"paid", "refused"} => provider'[s][q] = provider[s][q]
<1>1. provider'[r][p] = state
  BY DEF TypeOK
<1>2. \A s \in Reasons, q \in Payments : s # r \/ q # p => provider'[s][q] = provider[s][q]
  BY DEF TypeOK
<1>3. AskedOnlyOfRefunds'
  BY <1>2 DEF Gateway, AskedOnlyOfRefunds
<1>4. ProviderAgrees'
  <2> SUFFICES ASSUME NEW s \in Reasons, NEW q \in Payments
               PROVE  /\ refunds[s][q].status = "failed" \/ refunds[s][q].mode = "manual" =>
                           provider'[s][q] \in {"unseen", "refused"}
                      /\ refunds[s][q].status = "succeeded" /\ ~refunds[s][q].evidence =>
                           provider'[s][q] = "paid"
    BY DEF ProviderAgrees
  <2>1. /\ refunds[s][q].status = "failed" \/ refunds[s][q].mode = "manual" =>
             provider[s][q] \in {"unseen", "refused"}
        /\ refunds[s][q].status = "succeeded" /\ ~refunds[s][q].evidence =>
             provider[s][q] = "paid"
    BY DEF Gateway, ProviderAgrees
  <2>2. CASE s = r /\ q = p
    BY <1>1, <2>1, <2>2
  <2>3. CASE s # r \/ q # p
    BY <1>2, <2>1, <2>3
  <2> QED BY <2>2, <2>3
<1> QED BY <1>1, <1>2, <1>3, <1>4

LEMMA GatewayCall ==
    ASSUME TypeOK, TypeOK', Gateway, NEW w \in Workers, CallGateway(w)
    PROVE  Gateway'
<1> DEFINE r == tasks[w].reason
           p == tasks[w].payment
<1>1. r \in Reasons /\ p \in Payments
  BY DEF TypeOK
<1>2. tasks[w].step = "prepared" /\ UNCHANGED refunds
  BY DEF CallGateway
<1>3. PICK state \in Outcomes(provider[r][p]) : \E answer \in Answers(state) :
        /\ provider' = [provider EXCEPT ![r][p] = state]
        /\ tasks' = [tasks EXCEPT ![w].step = "answered", ![w].answer = answer]
  BY DEF CallGateway
<1>4. PICK answer \in Answers(state) :
        /\ provider' = [provider EXCEPT ![r][p] = state]
        /\ tasks' = [tasks EXCEPT ![w].step = "answered", ![w].answer = answer]
  BY <1>3
<1>5. /\ refunds[r][p] # NoRefund
      /\ \/ refunds[r][p].mode = "automatic" /\ refunds[r][p].status # "failed"
         \/ provider[r][p] = "refused"
  BY <1>2 DEF Gateway, TasksAgree
<1>6. provider[r][p] \in {"unseen", "processing", "paid", "refused"}
  BY <1>1 DEF TypeOK
<1>7. /\ provider[r][p] \in {"paid", "refused"} => state = provider[r][p]
      /\ state \in {"processing", "paid", "refused"}
  BY <1>4, <1>6 DEF Outcomes
<1>8. /\ answer = "succeeded" => state = "paid"
      /\ answer \in {"failed", "unsupported"} => state = "refused"
  BY <1>4, <1>7 DEF Answers
<1>9. /\ tasks'[w].reason = r /\ tasks'[w].payment = p /\ tasks'[w].answer = answer
      /\ \A v \in Workers \ {w} : tasks'[v] = tasks[v]
  <2>1. tasks[w] \in TaskRow
    BY DEF TypeOK, TaskRow
  <2> QED BY <1>4, <2>1 DEF TypeOK, TaskRow
<1>10. provider'[r][p] = state
  BY <1>1, <1>4 DEF TypeOK
<1> HIDE DEF r, p
<1>11. /\ AskedOnlyOfRefunds' /\ ProviderAgrees'
       /\ \A s \in Reasons, q \in Payments :
            provider[s][q] \in {"paid", "refused"} => provider'[s][q] = provider[s][q]
  BY <1>1, <1>2, <1>4, <1>5, <1>7, GatewayDecides
<1>12. TasksAgree'
  <2> SUFFICES ASSUME NEW v \in Workers, tasks'[v].step # "idle"
               PROVE  LET row == refunds[tasks'[v].reason][tasks'[v].payment]
                          now == provider'[tasks'[v].reason][tasks'[v].payment]
                      IN  /\ row # NoRefund
                          /\ (row.mode = "automatic" /\ row.status # "failed") \/ now = "refused"
                          /\ tasks'[v].step = "answered" =>
                               /\ tasks'[v].answer = "succeeded" => now = "paid"
                               /\ tasks'[v].answer \in {"failed", "unsupported"} => now = "refused"
    BY <1>2 DEF TasksAgree
  <2>1. CASE v = w
    BY <1>1, <1>5, <1>8, <1>9, <1>10, <1>11, <2>1
  <2>2. CASE v # w
    <3>1. tasks'[v] = tasks[v] /\ tasks[v].reason \in Reasons /\ tasks[v].payment \in Payments
      BY <1>9, <2>2 DEF TypeOK
    <3> QED BY <1>11, <3>1 DEF Gateway, TasksAgree
  <2> QED BY <2>1, <2>2
<1> QED BY <1>11, <1>12 DEF Gateway

LEMMA GatewaySettles ==
    ASSUME TypeOK, TypeOK', Gateway, NEW r \in Reasons, NEW p \in Payments,
           ProviderSettles(r, p)
    PROVE  Gateway'
<1>1. PICK state \in {"paid", "refused"} : provider' = [provider EXCEPT ![r][p] = state]
  BY DEF ProviderSettles
<1>2. provider[r][p] = "processing" /\ UNCHANGED <<refunds, tasks>>
  BY DEF ProviderSettles
<1>3. refunds[r][p] # NoRefund
  BY <1>2 DEF Gateway, AskedOnlyOfRefunds
<1>4. refunds[r][p].mode = "automatic" /\ refunds[r][p].status # "failed"
  <2>1. refunds[r][p].mode \in {"manual", "automatic"}
    BY DEF TypeOK, RefundRow
  <2> QED BY <1>2, <2>1 DEF Gateway, ProviderAgrees
<1>5. /\ AskedOnlyOfRefunds' /\ ProviderAgrees'
      /\ \A s \in Reasons, q \in Payments :
           provider[s][q] \in {"paid", "refused"} => provider'[s][q] = provider[s][q]
  BY <1>1, <1>2, <1>3, <1>4, GatewayDecides
<1>6. TasksAgree'
  <2> SUFFICES ASSUME NEW v \in Workers, tasks[v].step # "idle"
               PROVE  LET row == refunds[tasks[v].reason][tasks[v].payment]
                          now == provider'[tasks[v].reason][tasks[v].payment]
                      IN  /\ row # NoRefund
                          /\ (row.mode = "automatic" /\ row.status # "failed") \/ now = "refused"
                          /\ tasks[v].step = "answered" =>
                               /\ tasks[v].answer = "succeeded" => now = "paid"
                               /\ tasks[v].answer \in {"failed", "unsupported"} => now = "refused"
    BY <1>2 DEF TasksAgree
  <2>1. tasks[v].reason \in Reasons /\ tasks[v].payment \in Payments
    BY DEF TypeOK
  <2> QED BY <1>5, <2>1 DEF Gateway, TasksAgree
<1> QED BY <1>5, <1>6 DEF Gateway

(* An answer turns a refund into what the gateway did of it.               *)
LEMMA AnswerRecords ==
    ASSUME NEW row \in RefundRow, CanExecute(row),
           NEW answer \in {"pending", "succeeded", "failed", "unsupported"}
    PROVE  LET new == AfterAnswer(row, answer)
           IN  /\ new # NoRefund
               /\ answer = "pending" => new = row
               /\ answer = "succeeded" => new.status = "succeeded" /\ new.mode = "automatic"
               /\ answer = "failed" => new.status = "failed"
               /\ answer = "unsupported" => new.status = "manual_required"
<1>1. row.status = "pending" /\ row.mode = "automatic" /\ row # NoRefund
  BY DEF CanExecute, NoRefund
<1>2. CASE answer = "pending"
  BY <1>1, <1>2 DEF AfterAnswer
<1>3. CASE answer = "succeeded"
  BY <1>1, <1>3 DEF AfterAnswer, RefundRow, NoRefund
<1>4. CASE answer = "failed"
  BY <1>1, <1>4 DEF AfterAnswer, RefundRow, NoRefund
<1>5. CASE answer = "unsupported"
  BY <1>1, <1>5 DEF AfterAnswer, RefundRow, NoRefund
<1> QED BY <1>2, <1>3, <1>4, <1>5

LEMMA GatewayRecord ==
    ASSUME TypeOK, TypeOK', Gateway, NEW w \in Workers, RecordAnswer(w)
    PROVE  Gateway'
<1> DEFINE r == tasks[w].reason
           p == tasks[w].payment
           answer == tasks[w].answer
<1>1. /\ r \in Reasons /\ p \in Payments
      /\ answer \in {"pending", "succeeded", "failed", "unsupported"}
  BY DEF TypeOK
<1>2. /\ tasks[w].step = "answered" /\ tasks' = [tasks EXCEPT ![w] = Idle]
      /\ UNCHANGED provider
  BY DEF RecordAnswer
<1>3. /\ tasks'[w].step = "idle" /\ \A v \in Workers \ {w} : tasks'[v] = tasks[v]
  BY <1>2 DEF TypeOK, Idle
<1>4. /\ answer = "succeeded" => provider[r][p] = "paid"
      /\ answer \in {"failed", "unsupported"} => provider[r][p] = "refused"
  BY <1>2 DEF Gateway, TasksAgree
<1>5. CASE UNCHANGED refunds
  <2>1. AskedOnlyOfRefunds' /\ ProviderAgrees'
    BY <1>2, <1>5 DEF Gateway, AskedOnlyOfRefunds, ProviderAgrees
  <2>2. TasksAgree'
    BY <1>2, <1>3, <1>5 DEF Gateway, TasksAgree
  <2> QED BY <2>1, <2>2 DEF Gateway
<1>6. CASE ~UNCHANGED refunds
  <2>1. /\ CanExecute(refunds[r][p])
        /\ refunds' = [refunds EXCEPT ![r] =
                          [refunds[r] EXCEPT ![p] = AfterAnswer(@, answer)]]
    BY <1>6 DEF RecordAnswer, Update
  <2>2. /\ refunds'[r][p] = AfterAnswer(refunds[r][p], answer)
        /\ \A s \in Reasons, q \in Payments : s # r \/ q # p => refunds'[s][q] = refunds[s][q]
    BY <1>1, <2>1 DEF TypeOK
  <2>3. /\ refunds[r][p] \in RefundRow /\ refunds[r][p].mode = "automatic"
        /\ refunds[r][p].status = "pending"
    BY <1>1, <2>1 DEF TypeOK, CanExecute
  <2> DEFINE new == refunds'[r][p]
  <2>4. /\ new # NoRefund
        /\ answer = "pending" => new = refunds[r][p]
        /\ answer = "succeeded" => new.status = "succeeded" /\ new.mode = "automatic"
        /\ answer = "failed" => new.status = "failed"
        /\ answer = "unsupported" => new.status = "manual_required"
    BY <1>1, <2>1, <2>2, <2>3, AnswerRecords
  <2>5. \/ new.mode = "automatic" /\ new.status # "failed" /\ new.status \in {"pending", "succeeded"}
        \/ provider[r][p] = "refused" /\ new.status # "succeeded"
    BY <1>1, <1>4, <2>3, <2>4
  <2>6. new.status = "succeeded" => provider[r][p] = "paid"
    BY <1>1, <1>4, <2>3, <2>4
  <2>7. AskedOnlyOfRefunds'
    BY <1>2, <2>2, <2>4 DEF Gateway, AskedOnlyOfRefunds
  <2>8. TasksAgree'
    <3> SUFFICES ASSUME NEW v \in Workers, tasks'[v].step # "idle"
                 PROVE  LET row == refunds'[tasks'[v].reason][tasks'[v].payment]
                            state == provider[tasks'[v].reason][tasks'[v].payment]
                        IN  /\ row # NoRefund
                            /\ (row.mode = "automatic" /\ row.status # "failed") \/ state = "refused"
                            /\ tasks'[v].step = "answered" =>
                                 /\ tasks'[v].answer = "succeeded" => state = "paid"
                                 /\ tasks'[v].answer \in {"failed", "unsupported"} =>
                                      state = "refused"
      BY <1>2 DEF TasksAgree
    <3>1. tasks'[v] = tasks[v] /\ tasks[v].reason \in Reasons /\ tasks[v].payment \in Payments
      BY <1>3 DEF TypeOK
    <3>2. CASE tasks[v].reason = r /\ tasks[v].payment = p
      BY <2>4, <2>5, <3>1, <3>2 DEF Gateway, TasksAgree
    <3>3. CASE tasks[v].reason # r \/ tasks[v].payment # p
      BY <2>2, <3>1, <3>3 DEF Gateway, TasksAgree
    <3> QED BY <3>2, <3>3
  <2>9. ProviderAgrees'
    <3> SUFFICES ASSUME NEW s \in Reasons, NEW q \in Payments
                 PROVE  /\ refunds'[s][q].status = "failed" \/ refunds'[s][q].mode = "manual" =>
                             provider[s][q] \in {"unseen", "refused"}
                        /\ refunds'[s][q].status = "succeeded" /\ ~refunds'[s][q].evidence =>
                             provider[s][q] = "paid"
      BY <1>2 DEF ProviderAgrees
    <3>1. CASE s = r /\ q = p
      BY <2>5, <2>6, <3>1
    <3>2. CASE s # r \/ q # p
      BY <2>2, <3>2 DEF Gateway, ProviderAgrees
    <3> QED BY <3>1, <3>2
  <2> QED BY <2>7, <2>8, <2>9 DEF Gateway
<1> QED BY <1>5, <1>6

LEMMA GatewayLose ==
    ASSUME TypeOK, Gateway, NEW w \in Workers, LoseAnswer(w)
    PROVE  Gateway'
<1>1. tasks' = [tasks EXCEPT ![w] = Idle] /\ UNCHANGED <<refunds, provider>>
  BY DEF LoseAnswer
<1>2. /\ tasks'[w].step = "idle" /\ \A v \in Workers \ {w} : tasks'[v] = tasks[v]
  BY <1>1 DEF TypeOK, Idle
<1>3. AskedOnlyOfRefunds' /\ ProviderAgrees'
  BY <1>1 DEF Gateway, AskedOnlyOfRefunds, ProviderAgrees
<1>4. TasksAgree'
  BY <1>1, <1>2 DEF Gateway, TasksAgree
<1> QED BY <1>3, <1>4 DEF Gateway

(* Whoever closes an operation, or confirms a refund, does so by hand.     *)
LEMMA ClosesByHand ==
    ASSUME TypeOK, NEW s \in Reasons, CloseOperation(s), NEW r \in Reasons, NEW p \in Payments
    PROVE  \/ refunds'[r][p] = refunds[r][p]
           \/ Confirmable(refunds[r][p]) /\ refunds'[r][p] = ByHand(refunds[r][p])
<1>1. refunds' = [refunds EXCEPT ![s] = ManualRowsPaid(s)]
  BY DEF CloseOperation, Update
<1>2. CASE r = s
  BY <1>1, <1>2 DEF TypeOK, ManualRowsPaid
<1>3. CASE r # s
  BY <1>1, <1>3 DEF TypeOK
<1> QED BY <1>2, <1>3

LEMMA ConfirmsByHand ==
    ASSUME TypeOK, NEW s \in Reasons, NEW q \in Payments, ConfirmManualRefund(s, q),
           NEW r \in Reasons, NEW p \in Payments
    PROVE  \/ refunds'[r][p] = refunds[r][p]
           \/ Confirmable(refunds[r][p]) /\ refunds'[r][p] = ByHand(refunds[r][p])
<1>1. CASE UNCHANGED refunds
  BY <1>1
<1>2. CASE refunds' = [refunds EXCEPT ![s] =
                          [refunds[s] EXCEPT ![q] = IF Confirmable(@) THEN ByHand(@) ELSE @]]
  BY <1>2 DEF TypeOK
<1> QED BY <1>1, <1>2 DEF ConfirmManualRefund, Update

LEMMA GatewayStep ==
    ASSUME TypeOK, TypeOK', Money, Gateway, [Next]_vars
    PROVE  Gateway'
<1>1. ASSUME UNCHANGED <<refunds, tasks, provider>>
      PROVE  Gateway'
  <2>1. AskedOnlyOfRefunds' /\ ProviderAgrees'
    BY <1>1 DEF Gateway, AskedOnlyOfRefunds, ProviderAgrees
  <2>2. TasksAgree'
    BY <1>1 DEF Gateway, TasksAgree
  <2> QED BY <2>1, <2>2 DEF Gateway
<1>2. CASE PlanNext
  <2>1. ASSUME NEW r \in Reasons, CommitRefund(r)
        PROVE  Gateway'
    BY <2>1, GatewayCommit
  <2>2. ASSUME NEW r \in Reasons, NEW amount \in Amounts, ExecuteRefund(r, amount)
        PROVE  Gateway'
    BY <1>1, <2>2 DEF ExecuteRefund
  <2> QED BY <1>2, <2>1, <2>2 DEF PlanNext
<1>3. CASE ExecuteNext
  <2>1. ASSUME NEW w \in Workers, CallGateway(w)
        PROVE  Gateway'
    BY <2>1, GatewayCall
  <2>2. ASSUME NEW w \in Workers, LoseAnswer(w)
        PROVE  Gateway'
    BY <2>2, GatewayLose
  <2>3. ASSUME NEW w \in Workers, RecordAnswer(w)
        PROVE  Gateway'
    BY <2>3, GatewayRecord
  <2>4. ASSUME NEW r \in Reasons, NEW p \in Payments, ProviderSettles(r, p)
        PROVE  Gateway'
    BY <2>4, GatewaySettles
  <2>5. ASSUME NEW w \in Workers, NEW r \in Reasons, NEW p \in Payments,
               PrepareExecution(w, r, p)
        PROVE  Gateway'
    BY <2>5, GatewayPrepare
  <2> QED BY <1>3, <2>1, <2>2, <2>3, <2>4, <2>5 DEF ExecuteNext
<1>4. CASE ConfirmNext
  <2>1. ASSUME NEW r \in Reasons, NEW p \in Payments, BeginConfirm(r, p)
        PROVE  Gateway'
    BY <1>1, <2>1 DEF BeginConfirm
  <2>2. ASSUME NEW s \in Reasons, NEW q \in Payments, ConfirmManualRefund(s, q)
        PROVE  Gateway'
    <3>1. UNCHANGED <<tasks, provider>>
      BY <2>2 DEF ConfirmManualRefund
    <3>2. \A r \in Reasons, p \in Payments :
            \/ refunds'[r][p] = refunds[r][p]
            \/ Confirmable(refunds[r][p]) /\ refunds'[r][p] = ByHand(refunds[r][p])
      BY <2>2, ConfirmsByHand
    <3> QED BY <3>1, <3>2, GatewayByHand
  <2> QED BY <1>4, <2>1, <2>2 DEF ConfirmNext
<1>5. CASE WorkflowNext
  <2>1. CASE EnableWorkflow
    BY <1>1, <2>1 DEF EnableWorkflow
  <2>2. ASSUME NEW paused \in BOOLEAN, SetWorkflowPaused(paused)
        PROVE  Gateway'
    BY <1>1, <2>2 DEF SetWorkflowPaused
  <2>3. ASSUME NEW r \in Reasons,
               \/ SubmitDestination(r) \/ VerifyDestination(r) \/ Claim(r)
               \/ SubmitTransfer(r) \/ Reject(r) \/ Reopen(r)
        PROVE  Gateway'
    <3>1. UNCHANGED <<refunds, tasks, provider>>
      BY <2>3 DEF SubmitDestination, VerifyDestination, Claim, SubmitTransfer, Reject, Reopen, Move
    <3> QED BY <1>1, <3>1
  <2>4. ASSUME NEW s \in Reasons, CloseOperation(s), UNCHANGED <<tasks, provider>>
        PROVE  Gateway'
    <3>1. \A r \in Reasons, p \in Payments :
            \/ refunds'[r][p] = refunds[r][p]
            \/ Confirmable(refunds[r][p]) /\ refunds'[r][p] = ByHand(refunds[r][p])
      BY <2>4, ClosesByHand
    <3> QED BY <2>4, <3>1, GatewayByHand
  <2>5. ASSUME NEW r \in Reasons, Approve(r) \/ CompleteDirectTransfer(r)
        PROVE  Gateway'
    BY <2>4, <2>5 DEF Approve, CompleteDirectTransfer
  <2>6. ASSUME NEW r \in Reasons, SendAutoPayout(r)
        PROVE  Gateway'
    BY <1>1, <2>6 DEF SendAutoPayout
  <2>7. ASSUME NEW r \in Reasons, RecordAutoPayout(r)
        PROVE  Gateway'
    BY <1>1, <2>4, <2>7 DEF RecordAutoPayout
  <2> QED BY <1>5, <2>1, <2>2, <2>3, <2>5, <2>6, <2>7 DEF WorkflowNext
<1>6. CASE UNCHANGED vars
  BY <1>1, <1>6 DEF vars
<1> QED BY <1>2, <1>3, <1>4, <1>5, <1>6 DEF Next

-----------------------------------------------------------------------------
(* The inductive invariant, and what follows from it.                      *)
LEMMA MoneyStep ==
    ASSUME TypeOK, TypeOK', Money, People, [Next]_vars
    PROVE  Money'
<1>1. ASSUME NEW r \in Reasons, NEW amount \in Amounts, ExecuteRefund(r, amount)
      PROVE  Money'
  BY <1>1, MoneyExecute
<1>2. ASSUME NEW r \in Reasons, CommitRefund(r)
      PROVE  Money'
  BY <1>2, MoneyCommit
<1>3. ASSUME NEW r \in Reasons, NEW rows \in RowsOf, Advance(r, rows), UNCHANGED planning
      PROVE  Money'
  BY <1>3, MoneyAdvance
<1>4. ASSUME UNCHANGED <<batches, refunds, planning>>
      PROVE  Money'
  BY <1>4, MoneySame
<1>5. RowsAddUp
  BY DEF Money
<1> QED BY <1>1, <1>2, <1>3, <1>4, <1>5, Touching

LEMMA PeopleInit == Init => People
BY DEF Init, People, ConfirmationsMeetRefunds, OperationsHaveBatches, OperationClosesBatch,
       NoOperation

LEMMA GatewayInit == Init => Gateway
<1> SUFFICES ASSUME Init PROVE Gateway
  OBVIOUS
<1>1. AskedOnlyOfRefunds
  BY DEF Init, AskedOnlyOfRefunds
<1>2. TasksAgree
  BY DEF Init, TasksAgree, Idle
<1>3. ProviderAgrees
  BY DEF Init, ProviderAgrees, NoRefund
<1> QED BY <1>1, <1>2, <1>3 DEF Gateway

LEMMA IInvInit == Init => IInv
BY TypeInit, MoneyInit, PeopleInit, GatewayInit DEF IInv

LEMMA IInvStep == IInv /\ [Next]_vars => IInv'
<1> SUFFICES ASSUME IInv, [Next]_vars PROVE IInv'
  OBVIOUS
<1>1. TypeOK /\ Money /\ People /\ Gateway
  BY DEF IInv
<1>2. TypeOK'
  BY <1>1, TypeStep
<1>3. Money'
  BY <1>1, <1>2, MoneyStep
<1>4. People'
  BY <1>1, <1>2, <1>3, PeopleStep
<1>5. Gateway'
  BY <1>1, <1>2, GatewayStep
<1> QED BY <1>2, <1>3, <1>4, <1>5 DEF IInv

(* Plans, refunds, batches, operations, gateways and the workers between   *)
(* them stay in step, in every behaviour of the refunds of a booking.      *)
THEOREM Inductive == Spec => []IInv
BY IInvInit, IInvStep, PTL DEF Spec

(* Whatever cancellations, returned deposits and failures interleave, the  *)
(* refunds of a booking never hold more of a capture than it took.         *)
THEOREM NeverMoreThanCaptured == Spec => []CapacityKept
<1>1. IInv => CapacityKept
  BY DEF IInv, Money
<1> QED BY <1>1, Inductive, PTL

(* refund.completed is announced once for a batch, when its refunds have   *)
(* succeeded in full, whoever makes the last step.                         *)
THEOREM AnnouncedOnce == Spec => []AnnouncedOnceInFull
<1>1. IInv => AnnouncedOnceInFull
  BY DEF IInv, Money
<1> QED BY <1>1, Inductive, PTL

(* Workers race and lose answers, and yet no refund that failed or was     *)
(* handed to people is paid by its gateway, nor one recorded as paid that  *)
(* the gateway or a person did not pay.                                    *)
THEOREM RecordsMatchProvider == Spec => []ProviderAgrees
<1>1. IInv => ProviderAgrees
  BY DEF IInv, Gateway
<1> QED BY <1>1, Inductive, PTL

(* An operation is closed only when it leaves nothing of its batch to pay. *)
THEOREM ClosedMeansPaid == Spec => []OperationClosesBatch
<1>1. IInv => OperationClosesBatch
  BY DEF IInv, People
<1> QED BY <1>1, Inductive, PTL

-----------------------------------------------------------------------------
(* The refinement of Reimbursement.                                        *)
LEMMA SameSum == \A f : Promises!SumFunction(f) = SumFunction(f)
<1>1. \A f, S : Promises!SumFunctionOnSet(f, S) = SumFunctionOnSet(f, S)
  BY DEF Promises!SumFunctionOnSet, SumFunctionOnSet, Promises!FoldFunctionOnSet,
         FoldFunctionOnSet, Promises!MapThenFoldSet, MapThenFoldSet
<1> QED BY <1>1 DEF Promises!SumFunction, SumFunction

Given(rows) == [p \in Payments |-> AmountIf(rows[p], {"succeeded"})]

LEMMA GivenType ==
    ASSUME NEW rows \in RowsOf
    PROVE  /\ Given(rows) \in [Payments -> Nat] /\ SumFunction(Given(rows)) = Succeeded(rows)
           /\ \A p \in Payments : Given(rows)[p] <= Succeeded(rows)
<1>1. Given(rows) \in [Payments -> Nat]
  BY RowTypes DEF Given
<1>2. SumFunction(Given(rows)) = Succeeded(rows)
  BY DEF Given, Succeeded
<1> HIDE DEF Given
<1>3. \A p \in Payments : Given(rows)[p] <= SumFunction(Given(rows))
  BY <1>1, SumBoundsMember, PaymentAssumption
<1> QED BY <1>1, <1>2, <1>3

(* What has been given is kept, and nothing is given of a plan.            *)
LEMMA GivenKept ==
    ASSUME NEW old \in RowsOf, NEW new \in RowsOf, NEW p \in Payments, Advances(old[p], new[p])
    PROVE  Given(old)[p] <= Given(new)[p]
<1>1. old[p].amount \in Nat /\ new[p].amount \in Nat
  BY DEF RowsOf, RefundRow
<1>2. CASE new[p] = old[p]
  BY <1>1, <1>2 DEF Given, AmountIf
<1>3. CASE old[p].status \in Waiting
  <2>1. AmountIf(old[p], {"succeeded"}) = 0 /\ AmountIf(new[p], {"succeeded"}) \in Nat
    BY <1>1, <1>3 DEF AmountIf, Waiting
  <2> QED BY <2>1 DEF Given
<1> QED BY <1>2, <1>3 DEF Advances

LEMMA NothingGiven ==
    ASSUME NEW rows, \A p \in Payments : PlannedRow(rows[p])
    PROVE  Given(rows) = [p \in Payments |-> 0]
<1>1. \A p \in Payments : rows[p].status # "succeeded"
  BY DEF PlannedRow, NoRefund, Waiting
<1> QED BY <1>1 DEF Given, AmountIf

LEMMA GivenBounded ==
    ASSUME NEW all \in [Reasons -> RowsOf], NEW p \in Payments,
           SumFunction([r \in Reasons |-> AmountIf(all[r][p], Holding)]) <= Captured[p]
    PROVE  SumFunction([r \in Reasons |-> Given(all[r])[p]]) <= Captured[p]
<1> DEFINE f == [r \in Reasons |-> Given(all[r])[p]]
           g == [r \in Reasons |-> AmountIf(all[r][p], Holding)]
<1>1. \A r \in Reasons : all[r][p].amount \in Nat
  BY DEF RowsOf, RefundRow
<1>2. f \in [Reasons -> Nat] /\ g \in [Reasons -> Nat] /\ \A r \in Reasons : f[r] <= g[r]
  BY <1>1 DEF Given, AmountIf, Holding
<1>3. SumFunction(g) <= Captured[p] /\ Captured[p] \in Nat
  BY PaymentAssumption
<1> HIDE DEF f, g
<1>4. /\ SumFunction(f) <= SumFunction(g)
      /\ SumFunction(f) \in Nat /\ SumFunction(g) \in Nat
  BY <1>2, SumMonotone, SumNatural, ReasonAssumption
<1>5. SumFunction(f) <= Captured[p]
  BY <1>3, <1>4
<1> QED BY <1>5 DEF f

LEMMA CommitPromises ==
    ASSUME TypeOK, Money, NEW r \in Reasons, CommitRefund(r)
    PROVE  Promises!Promise(r)
<1> DEFINE rows == planning[r].rows
           asked == planning[r].requested
<1>1. PICK batch \in BatchRow :
        /\ batches' = [batches EXCEPT ![r] = batch]
        /\ batch.requested = asked /\ batch.announced = 0
  BY CommitWrites
<1>2. /\ planning[r] # NoPlan /\ batches[r] = NoBatch /\ rows \in RowsOf
      /\ refunds' = [refunds EXCEPT ![r] = rows]
      /\ Total(rows) = asked /\ asked > 0 /\ asked \in Nat
      /\ \A p \in Payments : PlannedRow(rows[p])
  BY CommitWrites DEF TypeOK
<1>3. asked \in 1..SumFunction(Captured)
  <2> DEFINE f == [p \in Payments |-> rows[p].amount]
  <2>1. f \in [Payments -> Nat] /\ Captured \in [Payments -> Nat]
    BY <1>2, RowTypes, PaymentAssumption
  <2>2. \A p \in Payments : f[p] <= Captured[p]
    <3> SUFFICES ASSUME NEW p \in Payments PROVE f[p] <= Captured[p]
      OBVIOUS
    <3>1. Reserved(p) \in Nat /\ f[p] \in Nat /\ Captured[p] \in Nat
      BY <2>1, ReservedType
    <3>2. Reserved(p) + rows[p].amount <= Captured[p] /\ f[p] = rows[p].amount
      BY <1>2 DEF Money, PlansFit
    <3> HIDE DEF f
    <3> QED BY <3>1, <3>2
  <2>3. SumFunction(f) = asked
    BY <1>2 DEF Total
  <2> HIDE DEF f, asked
  <2>4. SumFunction(f) <= SumFunction(Captured) /\ SumFunction(Captured) \in Nat
    BY <2>1, <2>2, SumMonotone, SumNatural, PaymentAssumption
  <2> QED BY <1>2, <2>3, <2>4
<1>4. [s \in Reasons |-> batches'[s].requested]
        = [[s \in Reasons |-> batches[s].requested] EXCEPT ![r] = asked]
  BY <1>1 DEF TypeOK
<1>5. [s \in Reasons |-> batches'[s].announced] = [s \in Reasons |-> batches[s].announced]
  BY <1>1, <1>2 DEF TypeOK, NoBatch
<1>6. [s \in Reasons |-> [p \in Payments |-> AmountIf(refunds'[s][p], {"succeeded"})]]
        = [s \in Reasons |-> [p \in Payments |-> AmountIf(refunds[s][p], {"succeeded"})]]
  <2>1. \A p \in Payments : refunds[r][p] = NoRefund
    BY <1>2 DEF Money, RowsAddUp
  <2>2. Given(refunds[r]) = [p \in Payments |-> 0]
    BY <2>1, NothingGiven DEF PlannedRow
  <2>3. Given(rows) = [p \in Payments |-> 0]
    BY <1>2, NothingGiven
  <2>4. \A s \in Reasons : Given(refunds'[s]) = Given(refunds[s])
    BY <1>2, <2>2, <2>3 DEF TypeOK
  <2> QED BY <2>4 DEF Given
<1>7. batches[r].requested = 0
  BY <1>2 DEF NoBatch
<1> HIDE DEF asked
<1> QED BY <1>3, <1>4, <1>5, <1>6, <1>7, SameSum DEF Promises!Promise

LEMMA AdvanceReturns ==
    ASSUME TypeOK, TypeOK', Money, Money', NEW r \in Reasons, NEW rows \in RowsOf,
           Advance(r, rows)
    PROVE  Promises!Return(r) \/ UNCHANGED Promises!vars
<1>1. /\ batches' = [batches EXCEPT ![r] = RefreshStatus(@, rows)]
      /\ refunds' = [refunds EXCEPT ![r] = rows]
      /\ batches[r] # NoBatch /\ \A p \in Payments : Advances(refunds[r][p], rows[p])
  BY DEF Advance, Update
<1>2. batches[r] \in BatchRow /\ refunds[r] \in RowsOf /\ batches[r].requested \in Nat
  BY DEF TypeOK, RowsOf, BatchRow
<1>3. batches'[r].requested = batches[r].requested
  BY <1>1, <1>2, RefreshedType DEF TypeOK
<1>4. /\ refunds'[r] = rows
      /\ \A s \in Reasons \ {r} : refunds'[s] = refunds[s] /\ batches'[s] = batches[s]
  BY <1>1 DEF TypeOK
<1>5. batches[r].requested > 0 /\ Total(refunds[r]) = batches[r].requested
  BY <1>1 DEF Money, RowsAddUp
<1>6. batches'[r] # NoBatch
  BY <1>3, <1>5, RequestedBatch
<1>7. /\ batches[r].announced =
            IF Succeeded(refunds[r]) = batches[r].requested THEN 1 ELSE 0
      /\ batches'[r].announced = IF Succeeded(rows) = batches[r].requested THEN 1 ELSE 0
  <2>1. /\ batches[r].status = Classify(batches[r].requested, refunds[r])
        /\ batches[r].announced = IF batches[r].status = "completed" THEN 1 ELSE 0
    BY <1>1 DEF Money, AnnouncedOnceInFull
  <2>2. /\ batches'[r].status = Classify(batches[r].requested, rows)
        /\ batches'[r].announced = IF batches'[r].status = "completed" THEN 1 ELSE 0
    <3>1. AnnouncedOnceInFull'
      BY DEF Money
    <3>2. /\ batches'[r].status = Classify(batches'[r].requested, refunds'[r])
          /\ batches'[r].announced = IF batches'[r].status = "completed" THEN 1 ELSE 0
      BY <1>6, <3>1 DEF AnnouncedOnceInFull, NoBatch, Classify, Succeeded, Some
    <3> QED BY <1>3, <1>4, <3>2
  <2> QED BY <2>1, <2>2, Completed
<1>8. Succeeded(rows) <= batches[r].requested /\ Succeeded(rows) \in Nat
  BY <1>1, <1>2, <1>5, AdvancedTotals, SucceededType
<1>9. [s \in Reasons |-> batches'[s].requested] = [s \in Reasons |-> batches[s].requested]
  BY <1>3, <1>4
<1>10. CASE Given(rows) = Given(refunds[r])
  <2>1. \A s \in Reasons : Given(refunds'[s]) = Given(refunds[s])
    BY <1>4, <1>10
  <2>2. Succeeded(rows) = Succeeded(refunds[r])
    BY <1>2, <1>10, GivenType
  <2>3. [s \in Reasons |-> batches'[s].announced] = [s \in Reasons |-> batches[s].announced]
    BY <1>4, <1>7, <2>2
  <2> QED BY <1>9, <2>1, <2>3 DEF Promises!vars, Given
<1>11. CASE Given(rows) # Given(refunds[r])
  <2> DEFINE given == Given(rows)
             returned == [s \in Reasons |-> Given(refunds[s])]
             promised == [s \in Reasons |-> batches[s].requested]
             announced == [s \in Reasons |-> batches[s].announced]
  <2>1. given \in [Payments -> 0..promised[r]]
    <3>1. given \in [Payments -> Nat] /\ \A p \in Payments : given[p] <= Succeeded(rows)
      BY GivenType
    <3>2. promised[r] = batches[r].requested
      OBVIOUS
    <3> HIDE DEF given, promised
    <3> QED BY <1>2, <1>8, <3>1, <3>2
  <2>2. /\ \A p \in Payments : given[p] >= returned[r][p]
        /\ given # returned[r]
    <3>1. \A p \in Payments : Given(refunds[r])[p] <= Given(rows)[p]
      BY <1>1, <1>2, GivenKept
    <3>2. Given(refunds[r]) \in [Payments -> Nat] /\ Given(rows) \in [Payments -> Nat]
      BY <1>2, GivenType
    <3>3. returned[r] = Given(refunds[r])
      OBVIOUS
    <3> HIDE DEF returned
    <3> QED BY <1>11, <3>1, <3>2, <3>3
  <2>3. SumFunction(given) <= promised[r] /\ SumFunction(given) = Succeeded(rows)
    BY <1>8, GivenType
  <2>4. returned' = [returned EXCEPT ![r] = given]
    BY <1>4
  <2>5. announced' = [announced EXCEPT ![r] = IF SumFunction(given) = promised[r] THEN 1 ELSE 0]
    BY <1>4, <1>7, <2>3
  <2>6. \A p \in Payments : SumFunction([s \in Reasons |-> returned'[s][p]]) <= Captured[p]
    <3>1. CapacityKept'
      BY DEF Money
    <3>2. \A p \in Payments : SumFunction([s \in Reasons |-> Given(refunds'[s])[p]]) <= Captured[p]
      <4> SUFFICES ASSUME NEW p \in Payments
                   PROVE  SumFunction([s \in Reasons |-> Given(refunds'[s])[p]]) <= Captured[p]
        OBVIOUS
      <4>1. refunds' \in [Reasons -> RowsOf]
        BY DEF TypeOK, RowsOf
      <4>2. SumFunction([s \in Reasons |-> AmountIf(refunds'[s][p], Holding)]) <= Captured[p]
        BY <3>1 DEF CapacityKept, Reserved
      <4> QED BY <4>1, <4>2, GivenBounded
    <3> QED BY <3>2
  <2>7. promised' = promised
    BY <1>9
  <2> QED BY <2>1, <2>2, <2>3, <2>4, <2>5, <2>6, <2>7, SameSum
          DEF Promises!Return, Promises!ReturnedFrom, Given
<1> QED BY <1>10, <1>11

LEMMA PromisesInit == Init => Promises!Init
BY DEF Init, Promises!Init, NoBatch, NoRefund, AmountIf

LEMMA PromisesStep == IInv /\ IInv' /\ [Next]_vars => [Promises!Next]_(Promises!vars)
<1> SUFFICES ASSUME IInv, IInv', [Next]_vars
             PROVE  Promises!Next \/ UNCHANGED Promises!vars
  OBVIOUS
<1>1. TypeOK /\ Money /\ People /\ RowsAddUp
  BY DEF IInv, Money
<1>2. TypeOK' /\ Money'
  BY DEF IInv
<1>3. ASSUME NEW r \in Reasons, CommitRefund(r)
      PROVE  Promises!Next
  BY <1>1, <1>3, CommitPromises DEF Promises!Next
<1>4. ASSUME NEW r \in Reasons, NEW rows \in RowsOf, Advance(r, rows)
      PROVE  Promises!Next \/ UNCHANGED Promises!vars
  BY <1>1, <1>2, <1>4, AdvanceReturns DEF Promises!Next
<1>5. ASSUME UNCHANGED <<batches, refunds>>
      PROVE  UNCHANGED Promises!vars
  BY <1>5 DEF Promises!vars
<1>6. ASSUME NEW r \in Reasons, NEW amount \in Amounts, ExecuteRefund(r, amount)
      PROVE  UNCHANGED Promises!vars
  BY <1>5, <1>6 DEF ExecuteRefund
<1> QED BY <1>1, <1>3, <1>4, <1>5, <1>6, Touching

(* Whoever pays, and however often anything is retried, each reason of a   *)
(* booking is promised an amount once, what is given back only grows, never*)
(* beyond what was promised or taken, and the announcement is made in the  *)
(* step that completes it.                                                 *)
THEOREM RefundsKeepPromises == Spec => PromisesKept
<1> QED
  BY PromisesInit, PromisesStep, Inductive, PTL DEF Spec, PromisesKept, Promises!Spec
=============================================================================
