---------------------------- MODULE PayoutProofs ----------------------------
(***************************************************************************)
(* Payout runs never pay a partner's earnings twice, and leave them stuck  *)
(* by no more than what balances captured after the window have added to   *)
(* the ledger, for any number of settlements, administrators and runs.     *)
(***************************************************************************)
EXTENDS Payout, SumTheorems

(* At most one creation is open: the advisory lock of the payee.           *)
Serialised == \A a, b \in Admins : a # b => txs[a] = Idle \/ txs[b] = Idle

(* released_at orders the released settlements.                            *)
Ordered ==
    /\ \A s \in Settlements : settlements[s].releasedAt <= clock
    /\ \A s, t \in Settlements :
         /\ s # t /\ settlements[s].status = "released" /\ settlements[t].status = "released"
         => settlements[s].releasedAt # settlements[t].releasedAt

(* Without late balances the ledger never shows more for a released        *)
(* settlement than its partner_payable: that is cut off at zero and        *)
(* subtracts no more tax.                                                  *)
Valued ==
    \A s \in Settlements :
        /\ settlements[s].payable <= settlements[s].worth
        /\ settlements[s].status = "held" => ~settlements[s].active
        /\ settlements[s].status = "released" =>
             /\ settlements[s].active
             /\ settlements[s].credit <= settlements[s].earning + settlements[s].late
             /\ settlements[s].earning - settlements[s].withheld <= settlements[s].payable

(* What an open creation is about to claim adds up, and still fits.        *)
ClaimsAddUp ==
    PayeeType = "partner" =>
        \A a \in Admins : txs[a].step = "allocated" => AllocatedBy(txs[a].split) = txs[a].amount
ClaimsFit ==
    \A a \in Admins : txs[a].step = "allocated" =>
        \A s \in Settlements : Live(s) + txs[a].split[s] <= settlements[s].worth
(* A pending run's claims are live; a transaction claims nothing before it  *)
(* has allocated.                                                          *)
Reserved ==
    \A i \in DOMAIN payouts : payouts[i].status = "pending" => payouts[i].allocation = "reserved"
Unallocated ==
    \A a \in Admins : txs[a].step # "allocated" => txs[a].split = Nothing

(* A partner's standing runs and its live allocations are the same money.  *)
Claimed ==
    PayeeType = "partner" =>
        SumFunctionOnSet([s \in Settlements |-> Live(s)], Settlements)
            = AmountsOf({"paid"}) + AmountsOf({"pending"})

-----------------------------------------------------------------------------
LEMMA Cutoff ==
    ASSUME NEW n \in Int, NEW m \in Int
    PROVE  /\ Less(n, m) \in Nat /\ n - m <= Less(n, m)
           /\ Less(n, m) = 0 \/ Less(n, m) = n - m
           /\ Least(n, m) \in {n, m} /\ Least(n, m) <= n /\ Least(n, m) <= m
BY DEF Less, Least

(* First in, first out: each settlement is charged what the earlier ones   *)
(* leave of the amount, and together they are charged all of it or all     *)
(* that they have.                                                         *)
LEMMA Filled ==
    ASSUME NEW S, IsFiniteSet(S), NEW rest, NEW rank, NEW before, NEW amount \in Nat, NEW take,
           \A s \in S : rest[s] \in Nat /\ rank[s] \in Int,
           \A s, t \in S : s # t => rank[s] # rank[t],
           \A s \in S : before[s] \subseteq S
                        /\ \A t \in S : t \in before[s] <=> rank[t] < rank[s],
           \A s \in S : take[s] = Least(rest[s], Less(amount, SumFunctionOnSet(rest, before[s])))
    PROVE  SumFunctionOnSet(take, S) = Least(amount, SumFunctionOnSet(rest, S))
<1> DEFINE Rest(U) == SumFunctionOnSet(rest, U)
           Take(U) == SumFunctionOnSet(take, U)
           T == {U \in SUBSET S : /\ \A s \in U, t \in S : rank[t] < rank[s] => t \in U
                                  /\ Take(U) # Least(amount, Rest(U))}
<1>a. \A U \in SUBSET S : IsFiniteSet(U) /\ Rest(U) \in Nat
  <2> SUFFICES ASSUME NEW U \in SUBSET S PROVE IsFiniteSet(U) /\ Rest(U) \in Nat
    OBVIOUS
  <2>1. IsFiniteSet(U) /\ \A s \in U : rest[s] \in Nat
    BY FS_Subset
  <2> QED BY <2>1, SumNat
<1>b. \A s \in S : take[s] \in Int
  <2> SUFFICES ASSUME NEW s \in S PROVE take[s] \in Int
    OBVIOUS
  <2>1. Rest(before[s]) \in Nat
    BY <1>a
  <2> HIDE DEF Rest
  <2>2. take[s] = Least(rest[s], Less(amount, Rest(before[s])))
    BY DEF Rest
  <2> QED BY <2>1, <2>2, Cutoff
<1> SUFFICES ASSUME T # {} PROVE FALSE
  <2>1. S \notin T
    OBVIOUS
  <2> QED BY <2>1
<1>1. PICK U \in T : \A W \in T : ~(W \subseteq U /\ W # U)
  <2>1. T \in SUBSET (SUBSET S)
    OBVIOUS
  <2> HIDE DEF T
  <2> QED BY <2>1, MinimalSubset
<1>2. /\ U \in SUBSET S /\ Take(U) # Least(amount, Rest(U))
      /\ \A s \in U, t \in S : rank[t] < rank[s] => t \in U
  BY <1>1
<1>3. U # {}
  <2> SUFFICES ASSUME U = {} PROVE FALSE
    OBVIOUS
  <2>1. Take(U) = 0 /\ Rest(U) = 0
    BY SumEmpty
  <2> HIDE DEF Take, Rest, T
  <2> QED BY <1>2, <2>1 DEF Least
<1>4. PICK last \in U : \A t \in U : rank[t] <= rank[last]
  <2>1. IsFiniteSet(U) /\ \A x \in U : rank[x] \in Int
    BY <1>2, <1>a
  <2> QED BY <1>3, <2>1, HasLast
<1> DEFINE V == U \ {last}
<1>5. V \in SUBSET S /\ V \subseteq U /\ V # U /\ IsFiniteSet(V)
  BY <1>2, <1>a
<1>6. \A s \in V, t \in S : rank[t] < rank[s] => t \in V
  BY <1>2, <1>4
<1>7. before[last] = V
  BY <1>2, <1>4
<1>8. take[last] = Least(rest[last], Less(amount, Rest(V)))
  BY <1>2, <1>7
<1>9. Take(V) = Least(amount, Rest(V))
  <2>1. V \notin T
    BY <1>1, <1>5
  <2> HIDE DEF V, Take, Rest
  <2> QED BY <2>1, <1>5, <1>6
<1>10. Take(U) = take[last] + Take(V) /\ Rest(U) = rest[last] + Rest(V)
  <2>1. /\ IsFiniteSet(U) /\ last \in U
        /\ \A s \in U : take[s] \in Int
        /\ \A s \in U : rest[s] \in Int
    BY <1>2, <1>a, <1>b
  <2> QED BY <2>1, SumRemove
<1>11. Rest(V) \in Nat /\ rest[last] \in Nat
  BY <1>2, <1>5, <1>a
<1> HIDE DEF Rest, Take, T, V
<1> QED BY <1>2, <1>8, <1>9, <1>10, <1>11 DEF Least, Less

-----------------------------------------------------------------------------
(* What a run claims of a settlement, and what it adds to the runs of some *)
(* statuses.                                                               *)
ClaimOf(row, s) == IF row.allocation # "released" THEN row.allocated[s] ELSE 0
AmountIn(row, statuses) == IF row.status \in statuses THEN row.amount ELSE 0

LEMMA Rows ==
    ASSUME TypeOK
    PROVE  /\ DOMAIN payouts = 1..Len(payouts) /\ Len(payouts) \in Nat
           /\ IsFiniteSet(DOMAIN payouts)
           /\ \A i \in DOMAIN payouts :
                /\ payouts[i] \in PayoutRow /\ payouts[i].amount \in Int
                /\ \A s \in Settlements : payouts[i].allocated[s] \in Nat
<1>1. DOMAIN payouts = 1..Len(payouts) /\ Len(payouts) \in Nat
  BY DEF TypeOK
<1>2. IsFiniteSet(DOMAIN payouts)
  BY <1>1, FS_Interval, 1 \in Int, Len(payouts) \in Int
<1>3. \A i \in DOMAIN payouts : payouts[i] \in PayoutRow
  BY <1>1 DEF TypeOK
<1>4. \A row \in PayoutRow : row.amount \in Int /\ row.allocated \in [Settlements -> Nat]
  BY DEF PayoutRow
<1> QED BY <1>1, <1>2, <1>3, <1>4

LEMMA LiveType ==
    ASSUME TypeOK, NEW s \in Settlements
    PROVE  Live(s) \in Nat
<1> DEFINE f == [i \in DOMAIN payouts |->
                    IF payouts[i].allocation # "released" THEN payouts[i].allocated[s] ELSE 0]
<1>2. IsFiniteSet(DOMAIN f)
  BY Rows
<1>3. \A i \in DOMAIN f : f[i] \in Nat
  BY Rows
<1>4. SumFunctionOnSet(f, DOMAIN f) \in Nat
  BY <1>2, <1>3, SumNat
<1> QED BY <1>4 DEF Live, SumFunction

LEMMA AmountsType ==
    ASSUME TypeOK, NEW statuses
    PROVE  AmountsOf(statuses) \in Int
<1> DEFINE f == [i \in DOMAIN payouts |->
                    IF payouts[i].status \in statuses THEN payouts[i].amount ELSE 0]
<1>2. IsFiniteSet(DOMAIN f)
  BY Rows
<1>3. \A i \in DOMAIN f : f[i] \in Int
  BY Rows
<1>4. SumFunctionOnSet(f, DOMAIN f) \in Int
  BY <1>2, <1>3, SumInt
<1> QED BY <1>4 DEF AmountsOf, SumFunction

LEMMA LiveAppended ==
    ASSUME TypeOK, NEW row \in PayoutRow, payouts' = Append(payouts, row),
           NEW s \in Settlements
    PROVE  Live(s)' = Live(s) + ClaimOf(row, s)
<1> DEFINE n == Len(payouts)
           f == [i \in DOMAIN payouts |->
                    IF payouts[i].allocation # "released" THEN payouts[i].allocated[s] ELSE 0]
           g == [i \in DOMAIN payouts' |->
                    IF payouts'[i].allocation # "released" THEN payouts'[i].allocated[s] ELSE 0]
<1>1. /\ n \in Nat /\ DOMAIN payouts = 1..n /\ DOMAIN payouts' = 1..(n + 1)
      /\ \A i \in 1..n : payouts'[i] = payouts[i]
      /\ payouts'[n + 1] = row
  BY DEF TypeOK
<1>2. \A i \in 1..n : f[i] \in Int /\ g[i] = f[i]
  BY <1>1, Rows
<1>3. g[n + 1] = ClaimOf(row, s) /\ g[n + 1] \in Int
  BY <1>1 DEF ClaimOf, PayoutRow
<1>4. DOMAIN f = 1..n /\ DOMAIN g = 1..(n + 1)
  BY <1>1
<1>5. Live(s) = SumFunction(f) /\ Live(s)' = SumFunction(g)
  BY DEF Live
<1> HIDE DEF f, g, n
<1> QED BY <1>1, <1>2, <1>3, <1>4, <1>5, SumExtended

LEMMA AmountsAppended ==
    ASSUME TypeOK, NEW row \in PayoutRow, payouts' = Append(payouts, row), NEW statuses
    PROVE  AmountsOf(statuses)' = AmountsOf(statuses) + AmountIn(row, statuses)
<1> DEFINE n == Len(payouts)
           f == [i \in DOMAIN payouts |->
                    IF payouts[i].status \in statuses THEN payouts[i].amount ELSE 0]
           g == [i \in DOMAIN payouts' |->
                    IF payouts'[i].status \in statuses THEN payouts'[i].amount ELSE 0]
<1>1. /\ n \in Nat /\ DOMAIN payouts = 1..n /\ DOMAIN payouts' = 1..(n + 1)
      /\ \A i \in 1..n : payouts'[i] = payouts[i]
      /\ payouts'[n + 1] = row
  BY DEF TypeOK
<1>2. \A i \in 1..n : f[i] \in Int /\ g[i] = f[i]
  BY <1>1, Rows
<1>3. g[n + 1] = AmountIn(row, statuses) /\ g[n + 1] \in Int
  BY <1>1 DEF AmountIn, PayoutRow
<1>4. DOMAIN f = 1..n /\ DOMAIN g = 1..(n + 1)
  BY <1>1
<1>5. AmountsOf(statuses) = SumFunction(f) /\ AmountsOf(statuses)' = SumFunction(g)
  BY DEF AmountsOf
<1> HIDE DEF f, g, n
<1> QED BY <1>1, <1>2, <1>3, <1>4, <1>5, SumExtended

LEMMA LiveReplaced ==
    ASSUME TypeOK, NEW i \in DOMAIN payouts, NEW row \in PayoutRow,
           payouts' = [payouts EXCEPT ![i] = row], NEW s \in Settlements
    PROVE  Live(s)' = Live(s) - ClaimOf(payouts[i], s) + ClaimOf(row, s)
<1> DEFINE f == [j \in DOMAIN payouts |->
                    IF payouts[j].allocation # "released" THEN payouts[j].allocated[s] ELSE 0]
           g == [j \in DOMAIN payouts' |->
                    IF payouts'[j].allocation # "released" THEN payouts'[j].allocated[s] ELSE 0]
<1>1. /\ DOMAIN f = DOMAIN payouts /\ DOMAIN g = DOMAIN payouts /\ i \in DOMAIN f
      /\ payouts'[i] = row
      /\ \A j \in DOMAIN payouts \ {i} : payouts'[j] = payouts[j]
  OBVIOUS
<1>2. IsFiniteSet(DOMAIN f)
  BY Rows
<1>3. \A j \in DOMAIN payouts : payouts[j] \in PayoutRow /\ payouts'[j] \in PayoutRow
  BY <1>1 DEF TypeOK
<1>4. \A j \in DOMAIN f : f[j] \in Int /\ g[j] \in Int
  BY <1>1, <1>3 DEF PayoutRow
<1>5. \A j \in DOMAIN f \ {i} : f[j] = g[j]
  BY <1>1
<1>6. f[i] = ClaimOf(payouts[i], s) /\ g[i] = ClaimOf(row, s)
  BY <1>1 DEF ClaimOf
<1>7. Live(s) = SumFunction(f) /\ Live(s)' = SumFunction(g)
  BY DEF Live
<1> HIDE DEF f, g
<1> QED BY <1>1, <1>2, <1>4, <1>5, <1>6, <1>7, SumUpdated

LEMMA AmountsReplaced ==
    ASSUME TypeOK, NEW i \in DOMAIN payouts, NEW row \in PayoutRow,
           payouts' = [payouts EXCEPT ![i] = row], NEW statuses
    PROVE  AmountsOf(statuses)'
             = AmountsOf(statuses) - AmountIn(payouts[i], statuses) + AmountIn(row, statuses)
<1> DEFINE f == [j \in DOMAIN payouts |->
                    IF payouts[j].status \in statuses THEN payouts[j].amount ELSE 0]
           g == [j \in DOMAIN payouts' |->
                    IF payouts'[j].status \in statuses THEN payouts'[j].amount ELSE 0]
<1>1. /\ DOMAIN f = DOMAIN payouts /\ DOMAIN g = DOMAIN payouts /\ i \in DOMAIN f
      /\ payouts'[i] = row
      /\ \A j \in DOMAIN payouts \ {i} : payouts'[j] = payouts[j]
  OBVIOUS
<1>2. IsFiniteSet(DOMAIN f)
  BY Rows
<1>3. \A j \in DOMAIN payouts : payouts[j] \in PayoutRow /\ payouts'[j] \in PayoutRow
  BY <1>1 DEF TypeOK
<1>4. \A j \in DOMAIN f : f[j] \in Int /\ g[j] \in Int
  BY <1>1, <1>3 DEF PayoutRow
<1>5. \A j \in DOMAIN f \ {i} : f[j] = g[j]
  BY <1>1
<1>6. f[i] = AmountIn(payouts[i], statuses) /\ g[i] = AmountIn(row, statuses)
  BY <1>1 DEF AmountIn
<1>7. AmountsOf(statuses) = SumFunction(f) /\ AmountsOf(statuses)' = SumFunction(g)
  BY DEF AmountsOf
<1> HIDE DEF f, g
<1> QED BY <1>1, <1>2, <1>4, <1>5, <1>6, <1>7, SumUpdated

LEMMA Unchanged ==
    ASSUME TypeOK, UNCHANGED payouts
    PROVE  /\ \A s \in Settlements : Live(s)' = Live(s)
           /\ \A statuses : AmountsOf(statuses)' = AmountsOf(statuses)
BY DEF Live, AmountsOf

(* What a creation may claim of a settlement.                              *)
LEMMA RemainingType ==
    ASSUME TypeOK, NEW s \in Settlements
    PROVE  /\ Remaining(s) \in Nat
           /\ settlements[s].status # "released" => Remaining(s) = 0
           /\ settlements[s].status = "released" =>
                Remaining(s) = Less(settlements[s].payable, Live(s))
<1>1. settlements[s].payable \in Nat /\ Live(s) \in Nat
  BY LiveType DEF TypeOK, SettlementRow
<1>2. Less(settlements[s].payable, Live(s)) \in Nat
  <2> DEFINE p == settlements[s].payable
             n == Live(s)
  <2>1. p \in Int /\ n \in Int
    BY <1>1
  <2> HIDE DEF p, n
  <2>2. Less(p, n) \in Nat
    BY <2>1, Cutoff
  <2> QED BY <2>2 DEF p, n
<1> QED BY <1>2 DEF Remaining

LEMMA FifoType ==
    ASSUME TypeOK, NEW amount \in Int
    PROVE  /\ FifoAllocation(amount) \in [Settlements -> Nat]
           /\ \A s \in Settlements : FifoAllocation(amount)[s] <= Remaining(s)
<1> DEFINE rest == [s \in Settlements |-> Remaining(s)]
           before(s) == SumFunctionOnSet(rest, ReleasedBefore(s))
<1>1. \A s \in Settlements : before(s) \in Nat
  <2> SUFFICES ASSUME NEW s \in Settlements PROVE before(s) \in Nat
    OBVIOUS
  <2>1. ReleasedBefore(s) \subseteq Settlements
    BY DEF ReleasedBefore
  <2>2. IsFiniteSet(ReleasedBefore(s)) /\ \A t \in ReleasedBefore(s) : rest[t] \in Nat
    BY <2>1, FS_Subset, SettlementAssumption, RemainingType
  <2> QED BY <2>2, SumNat
<1>2. FifoAllocation(amount) = [s \in Settlements |-> Least(Remaining(s), Less(amount, before(s)))]
  BY DEF FifoAllocation
<1> HIDE DEF before
<1>3. \A s \in Settlements : Remaining(s) \in Nat /\ Less(amount, before(s)) \in Nat
  <2> SUFFICES ASSUME NEW s \in Settlements
               PROVE  Remaining(s) \in Nat /\ Less(amount, before(s)) \in Nat
    OBVIOUS
  <2>1. before(s) \in Int
    BY <1>1
  <2>2. Less(amount, before(s)) \in Nat
    BY <2>1, Cutoff
  <2> QED BY <2>2, RemainingType
<1>4. \A n, m \in Nat : Least(n, m) \in Nat /\ Least(n, m) <= n
  BY DEF Least
<1> QED BY <1>2, <1>3, <1>4

-----------------------------------------------------------------------------
LEMMA NothingType == Nothing \in [Settlements -> Nat] /\ Idle \in Transaction
BY DEF Nothing, Idle, Transaction

LEMMA NetType == ASSUME TypeOK, NEW s \in Settlements PROVE NetOf(s) \in Int
BY DEF TypeOK, SettlementRow, NetOf

LEMMA BalanceType ==
    ASSUME TypeOK
    PROVE  MaturePayable \in Int /\ Outstanding \in Int
<1> DEFINE f == [s \in Settlements |-> NetOf(s)]
<1>1. SumFunctionOnSet(f, Settlements) \in Int
  BY NetType, SettlementAssumption, SumInt
<1>2. SumFunction(f) = SumFunctionOnSet(f, Settlements)
  BY DEF SumFunction
<1>3. AmountsOf({"paid"}) \in Int /\ AmountsOf({"pending"}) \in Int
  BY AmountsType
<1> HIDE DEF f
<1> QED BY <1>1, <1>2, <1>3 DEF MaturePayable, Outstanding, f

(* A settlement row keeps its type under each of the writes below.         *)
LEMMA CreateTypeOK == TypeOK /\ CreateNext => TypeOK'
<1> SUFFICES ASSUME TypeOK, NEW a \in Admins,
                    \/ BeginCreate(a) \/ PlanCreation(a)
                    \/ AllocateReleasedSettlements(a) \/ CommitCreate(a)
             PROVE  TypeOK'
  BY DEF CreateNext
<1>a. txs \in [Admins -> Transaction] /\ txs[a] \in Transaction
  BY DEF TypeOK
<1>b. txs[a].amount \in Int /\ txs[a].split \in [Settlements -> Nat]
  BY <1>a DEF Transaction
<1> DEFINE Kept == UNCHANGED <<settlements, clock, payouts>>
<1>c. ASSUME NEW new \in Transaction, txs' = [txs EXCEPT ![a] = new], Kept
      PROVE  TypeOK'
  BY <1>a, <1>c DEF TypeOK
<1>1. CASE BeginCreate(a)
  <2> DEFINE new == [step |-> "mature", amount |-> MaturePayable, split |-> Nothing]
  <2>1. new \in Transaction
    BY BalanceType, NothingType DEF Transaction
  <2>2. txs' = [txs EXCEPT ![a] = new] /\ Kept
    BY <1>1 DEF BeginCreate
  <2> HIDE DEF new
  <2> QED BY <2>1, <2>2, <1>c
<1>2. CASE PlanCreation(a)
  <2> DEFINE available == txs[a].amount - Outstanding
             new == IF available <= 0 \/ available < MinAmount THEN Idle
                    ELSE [txs[a] EXCEPT !.step = "planned", !.amount = available]
  <2>1. available \in Int
    BY <1>b, BalanceType
  <2> HIDE DEF available
  <2>2. [txs[a] EXCEPT !.step = "planned", !.amount = available] \in Transaction
    BY <1>a, <2>1 DEF Transaction
  <2>3. new \in Transaction
    BY <2>2, NothingType
  <2>4. txs' = [txs EXCEPT ![a] = new] /\ Kept
    BY <1>2 DEF PlanCreation, available
  <2> HIDE DEF new
  <2> QED BY <2>3, <2>4, <1>c
<1>3. CASE AllocateReleasedSettlements(a)
  <2> DEFINE split == FifoAllocation(txs[a].amount)
             new == IF PayeeType = "affiliate" THEN [txs[a] EXCEPT !.step = "allocated"]
                    ELSE IF AllocatedBy(split) # txs[a].amount THEN Idle
                    ELSE [txs[a] EXCEPT !.step = "allocated", !.split = split]
  <2>1. split \in [Settlements -> Nat]
    BY <1>b, FifoType
  <2>2. txs' = [txs EXCEPT ![a] = new] /\ Kept
    BY <1>3 DEF AllocateReleasedSettlements
  <2> HIDE DEF split
  <2>3. /\ [txs[a] EXCEPT !.step = "allocated"] \in Transaction
        /\ [txs[a] EXCEPT !.step = "allocated", !.split = split] \in Transaction
    BY <1>a, <2>1 DEF Transaction
  <2>4. new \in Transaction
    BY <2>3, NothingType
  <2> HIDE DEF new
  <2> QED BY <2>2, <2>4, <1>c
<1>4. CASE CommitCreate(a)
  <2> DEFINE row == [status |-> "pending", amount |-> txs[a].amount,
                     allocated |-> txs[a].split, allocation |-> "reserved"]
  <2>1. row \in PayoutRow
    BY <1>b DEF PayoutRow
  <2>2. /\ payouts' = Append(payouts, row) /\ txs' = [txs EXCEPT ![a] = Idle]
        /\ UNCHANGED <<settlements, clock>>
    BY <1>4 DEF CommitCreate
  <2> HIDE DEF row
  <2>3. payouts' \in Seq(PayoutRow)
    BY <2>1, <2>2 DEF TypeOK
  <2>4. txs' \in [Admins -> Transaction]
    BY <2>2, <1>a, NothingType
  <2> QED BY <2>2, <2>3, <2>4 DEF TypeOK
<1> QED BY <1>1, <1>2, <1>3, <1>4

LEMMA Settled ==
    ASSUME TypeOK, NEW i \in DOMAIN payouts
    PROVE  /\ MarkPayoutPaid(i) =>
                payouts' = [payouts EXCEPT ![i] =
                    [payouts[i] EXCEPT !.status = "paid", !.allocation = "paid"]]
           /\ FailPayout(i) =>
                payouts' = [payouts EXCEPT ![i] =
                    [payouts[i] EXCEPT !.status = "failed", !.allocation = "released"]]
           /\ [payouts[i] EXCEPT !.status = "paid", !.allocation = "paid"] \in PayoutRow
           /\ [payouts[i] EXCEPT !.status = "failed", !.allocation = "released"] \in PayoutRow
<1>1. payouts[i] \in PayoutRow
  BY Rows
<1>2. /\ [payouts[i] EXCEPT !.status = "paid", !.allocation = "paid"] \in PayoutRow
      /\ [payouts[i] EXCEPT !.status = "failed", !.allocation = "released"] \in PayoutRow
  BY <1>1 DEF PayoutRow
<1>3. MarkPayoutPaid(i) =>
        payouts' = [payouts EXCEPT ![i] =
            [payouts[i] EXCEPT !.status = "paid", !.allocation = "paid"]]
  BY <1>1 DEF MarkPayoutPaid, PayoutRow
<1>4. FailPayout(i) =>
        payouts' = [payouts EXCEPT ![i] =
            [payouts[i] EXCEPT !.status = "failed", !.allocation = "released"]]
  BY <1>1 DEF FailPayout, PayoutRow
<1> QED BY <1>2, <1>3, <1>4

LEMMA SettleTypeOK == TypeOK /\ SettleNext => TypeOK'
<1> SUFFICES ASSUME TypeOK, NEW i \in DOMAIN payouts, MarkPayoutPaid(i) \/ FailPayout(i)
             PROVE  TypeOK'
  BY DEF SettleNext
<1>1. \E row \in PayoutRow : payouts' = [payouts EXCEPT ![i] = row]
  BY Settled
<1>2. payouts' \in Seq(PayoutRow)
  <2>1. PICK row \in PayoutRow : payouts' = [payouts EXCEPT ![i] = row]
    BY <1>1
  <2> QED BY <2>1 DEF TypeOK
<1>3. UNCHANGED <<settlements, clock, txs>>
  BY DEF MarkPayoutPaid, FailPayout
<1> QED BY <1>2, <1>3 DEF TypeOK

LEMMA SettlementTypeOK == TypeOK /\ SettlementNext => TypeOK'
<1> SUFFICES ASSUME TypeOK, NEW s \in Settlements,
                    \/ StartSettlementWindow(s) \/ FinalizeFullRefund(s) \/ RecordClawback(s)
                    \/ \E balance \in Balances : RecordHeldSettlement(s, balance)
                    \/ \E tax \in ReleaseTax(s) : ReleaseSettlement(s, tax)
                    \/ \E rest \in Earnings, withheld \in 0..settlements[s].withheld :
                         FinalizePartialRefund(s, rest, withheld)
             PROVE  TypeOK'
  BY DEF SettlementNext
<1>a. /\ settlements \in [Settlements -> SettlementRow] /\ settlements[s] \in SettlementRow
      /\ clock \in Nat
  BY DEF TypeOK
<1>b. /\ settlements[s].refunds + 1 \in Nat /\ settlements[s].earning \in Int
      /\ settlements[s].withheld \in Nat /\ settlements[s].worth \in Nat /\ clock + 1 \in Nat
  BY <1>a DEF SettlementRow
<1>c. ASSUME NEW new \in SettlementRow, settlements' = [settlements EXCEPT ![s] = new],
             clock' \in Nat, UNCHANGED <<payouts, txs>>
      PROVE  TypeOK'
  BY <1>a, <1>c DEF TypeOK
<1>1. CASE StartSettlementWindow(s)
  <2> DEFINE new == [settlements[s] EXCEPT !.status = "window", !.withheld = Tax]
  <2>1. new \in SettlementRow
    BY ONLY <1>a, AmountAssumption DEF SettlementRow
  <2>2. settlements' = [settlements EXCEPT ![s] = new]
    BY <1>1, <1>a DEF StartSettlementWindow, SettlementRow
  <2> HIDE DEF new
  <2> QED BY <1>1, <1>a, <1>c, <2>1, <2>2 DEF StartSettlementWindow
<1>2. CASE FinalizeFullRefund(s)
  <2>w. PICK withheld \in 0..settlements[s].withheld :
          settlements' = [settlements EXCEPT ![s].status = "refunded", ![s].withheld = withheld,
                                             ![s].refunds = @ + 1]
    BY <1>2 DEF FinalizeFullRefund
  <2> DEFINE new == [settlements[s] EXCEPT !.status = "refunded", !.withheld = withheld,
                                           !.refunds = settlements[s].refunds + 1]
  <2>0. withheld \in Nat
    BY <1>b
  <2>1. new \in SettlementRow
    BY ONLY <1>a, <1>b, <2>0 DEF SettlementRow
  <2>2. settlements' = [settlements EXCEPT ![s] = new]
    BY <2>w, <1>a DEF SettlementRow
  <2> HIDE DEF new
  <2> QED BY <1>2, <1>a, <1>c, <2>1, <2>2 DEF FinalizeFullRefund
<1>3. CASE RecordClawback(s)
  <2> DEFINE new == [settlements[s] EXCEPT !.active = FALSE]
  <2>1. new \in SettlementRow
    BY ONLY <1>a DEF SettlementRow
  <2>2. settlements' = [settlements EXCEPT ![s] = new]
    BY <1>3, <1>a DEF RecordClawback, SettlementRow
  <2> HIDE DEF new
  <2> QED BY <1>3, <1>a, <1>c, <2>1, <2>2 DEF RecordClawback
<1>4. ASSUME NEW tax \in ReleaseTax(s), ReleaseSettlement(s, tax) PROVE TypeOK'
  <2> DEFINE payable == Less(settlements[s].earning, tax)
             worth == IF payable > settlements[s].worth THEN payable ELSE settlements[s].worth
             credit == settlements[s].earning + settlements[s].late
             new == [settlements[s] EXCEPT !.status = "released", !.active = TRUE,
                        !.payable = payable, !.credit = credit,
                        !.worth = worth, !.releasedAt = clock + 1]
  <2>0. credit \in Int
    BY <1>a DEF SettlementRow
  <2>1. tax \in Int
    BY <1>b DEF ReleaseTax
  <2>2. payable \in Nat
    BY <1>b, <2>1 DEF Less
  <2>3. settlements' = [settlements EXCEPT ![s] = new] /\ clock' = clock + 1 /\ UNCHANGED <<payouts, txs>>
    BY <1>4, <1>a DEF ReleaseSettlement, SettlementRow
  <2> HIDE DEF payable
  <2>4. worth \in Nat
    BY <1>b, <2>2
  <2> HIDE DEF worth, credit
  <2>5. new \in SettlementRow
    BY ONLY <1>a, <1>b, <2>0, <2>2, <2>4 DEF SettlementRow
  <2> HIDE DEF new
  <2> QED BY <1>b, <1>c, <2>3, <2>5
<1>5. ASSUME NEW rest \in Earnings, NEW withheld \in 0..settlements[s].withheld,
             FinalizePartialRefund(s, rest, withheld)
      PROVE  TypeOK'
  <2> DEFINE new == [settlements[s] EXCEPT !.status = "window", !.earning = rest,
                        !.withheld = withheld, !.refunds = settlements[s].refunds + 1]
  <2>1. rest \in Int /\ withheld \in Nat
    BY <1>b, AmountAssumption
  <2>2. new \in SettlementRow
    BY ONLY <1>a, <1>b, <2>1 DEF SettlementRow
  <2>3. settlements' = [settlements EXCEPT ![s] = new]
    BY <1>5, <1>a DEF FinalizePartialRefund, SettlementRow
  <2> HIDE DEF new
  <2> QED BY <1>5, <1>a, <1>c, <2>2, <2>3 DEF FinalizePartialRefund
<1>6. ASSUME NEW balance \in Balances, RecordHeldSettlement(s, balance) PROVE TypeOK'
  <2> DEFINE new == [settlements[s] EXCEPT !.late = balance]
  <2>1. new \in SettlementRow
    BY ONLY <1>a, AmountAssumption DEF SettlementRow
  <2>2. settlements' = [settlements EXCEPT ![s] = new]
    BY <1>6, <1>a DEF RecordHeldSettlement, SettlementRow
  <2> HIDE DEF new
  <2> QED BY <1>6, <1>a, <1>c, <2>1, <2>2 DEF RecordHeldSettlement
<1> QED BY <1>1, <1>2, <1>3, <1>4, <1>5, <1>6

LEMMA InitTypeOK == Init => TypeOK
<1> SUFFICES ASSUME Init PROVE TypeOK
  OBVIOUS
<1>1. settlements \in [Settlements -> SettlementRow]
  <2>1. PICK earning \in [Settlements -> Earnings] :
          settlements = [s \in Settlements |->
            [status |-> "held", earning |-> earning[s], late |-> 0, credit |-> 0,
             active |-> FALSE, withheld |-> 0, payable |-> 0, worth |-> 0, refunds |-> 0,
             releasedAt |-> 0]]
    BY DEF Init
  <2>2. \A s \in Settlements : earning[s] \in Int
    BY AmountAssumption
  <2> QED BY <2>1, <2>2 DEF SettlementRow
<1>2. txs \in [Admins -> Transaction] /\ payouts \in Seq(PayoutRow) /\ clock \in Nat
  BY NothingType DEF Init
<1> QED BY <1>1, <1>2 DEF TypeOK

LEMMA NextTypeOK == TypeOK /\ [Next]_vars => TypeOK'
<1> SUFFICES ASSUME TypeOK, [Next]_vars PROVE TypeOK'
  OBVIOUS
<1>1. CASE UNCHANGED vars
  BY <1>1 DEF vars, TypeOK
<1> QED BY <1>1, CreateTypeOK, SettleTypeOK, SettlementTypeOK DEF Next

(* Every row, allocation and open creation has the shape its table gives.  *)
THEOREM TypeCorrect == Spec => []TypeOK
BY InitTypeOK, NextTypeOK, PTL DEF Spec

-----------------------------------------------------------------------------
(* Behind the lock a creation is alone: every step of it finds the other   *)
(* administrators idle, and leaves them so.                                *)
LEMMA Alone ==
    ASSUME TypeOK, Serialised, NEW a \in Admins,
           \/ BeginCreate(a) \/ PlanCreation(a)
           \/ AllocateReleasedSettlements(a) \/ CommitCreate(a)
    PROVE  \A b \in Admins \ {a} : txs[b] = Idle /\ txs'[b] = Idle
<1>1. txs \in [Admins -> Transaction]
  BY DEF TypeOK
<1>2. Idle.step = "idle"
  BY DEF Idle
<1>3. \A b \in Admins \ {a} : txs[b] = Idle
  BY <1>2 DEF Serialised, BeginCreate, PayeeUnlocked, PlanCreation,
              AllocateReleasedSettlements, CommitCreate
<1>4. \A b \in Admins \ {a} : txs'[b] = txs[b]
  BY <1>1 DEF BeginCreate, PlanCreation, AllocateReleasedSettlements, CommitCreate
<1> QED BY <1>3, <1>4

(* What each statement of a creation leaves of the transaction.            *)
LEMMA Created ==
    ASSUME TypeOK, Unallocated, NEW a \in Admins,
           \/ BeginCreate(a) \/ PlanCreation(a)
           \/ AllocateReleasedSettlements(a) \/ CommitCreate(a)
    PROVE  \/ /\ txs'[a].step # "allocated" /\ txs'[a].split = Nothing
           \/ /\ txs'[a].step = "allocated" /\ UNCHANGED <<settlements, payouts>>
              /\ \/ PayeeType = "affiliate" /\ txs'[a].split = Nothing
                 \/ /\ txs'[a].split = FifoAllocation(txs[a].amount)
                    /\ AllocatedBy(txs'[a].split) = txs'[a].amount
<1>1. txs \in [Admins -> Transaction] /\ txs[a] \in Transaction
  BY DEF TypeOK
<1>2. Idle.step = "idle" /\ Idle.split = Nothing
  BY DEF Idle
<1>3. CASE BeginCreate(a)
  BY <1>1, <1>3 DEF BeginCreate
<1>4. CASE PlanCreation(a)
  <2>1. txs[a].split = Nothing
    BY <1>4 DEF PlanCreation, Unallocated
  <2> DEFINE new == [txs[a] EXCEPT !.step = "planned", !.amount = txs[a].amount - Outstanding]
  <2>2. new.step = "planned" /\ new.split = Nothing
    BY <1>1, <2>1 DEF Transaction
  <2>3. txs'[a] \in {Idle, new}
    BY <1>1, <1>4 DEF PlanCreation
  <2> HIDE DEF new
  <2> QED BY <1>2, <2>2, <2>3
<1>5. CASE AllocateReleasedSettlements(a)
  <2> DEFINE split == FifoAllocation(txs[a].amount)
             kept == [txs[a] EXCEPT !.step = "allocated"]
             new == [txs[a] EXCEPT !.step = "allocated", !.split = split]
  <2>1. txs[a].split = Nothing
    BY <1>5 DEF AllocateReleasedSettlements, Unallocated
  <2>2. /\ kept.step = "allocated" /\ kept.split = Nothing
        /\ new.step = "allocated" /\ new.split = split /\ new.amount = txs[a].amount
    BY <1>1, <2>1 DEF Transaction
  <2>3. /\ UNCHANGED <<settlements, payouts>>
        /\ txs'[a] = IF PayeeType = "affiliate" THEN kept
                     ELSE IF AllocatedBy(split) # txs[a].amount THEN Idle ELSE new
    BY <1>1, <1>5 DEF AllocateReleasedSettlements
  <2> HIDE DEF kept, new, split
  <2>4. CASE PayeeType = "affiliate"
    BY <2>2, <2>3, <2>4
  <2>5. CASE PayeeType # "affiliate" /\ AllocatedBy(split) # txs[a].amount
    BY <1>2, <2>3, <2>5
  <2>6. CASE PayeeType # "affiliate" /\ AllocatedBy(split) = txs[a].amount
    BY <2>2, <2>3, <2>6 DEF split
  <2> QED BY <2>4, <2>5, <2>6
<1>6. CASE CommitCreate(a)
  BY <1>1, <1>2, <1>6 DEF CommitCreate
<1> QED BY <1>3, <1>4, <1>5, <1>6

-----------------------------------------------------------------------------
(* The settlements: what a step may do to them.                            *)
Unreleased(s) ==
    /\ settlements'[s].payable = settlements[s].payable
    /\ settlements'[s].releasedAt = settlements[s].releasedAt
    /\ \/ settlements'[s].status \in {"window", "refunded"}
       \/ /\ settlements'[s].status = settlements[s].status
          /\ settlements[s].status # "released" /\ ~settlements'[s].active
    /\ clock' = clock
Released(s) ==
    /\ settlements'[s].payable <= settlements'[s].worth
    /\ settlements'[s].releasedAt = clock + 1 /\ clock' = clock + 1
    /\ settlements'[s].status = "released" /\ settlements'[s].active
    /\ settlements'[s].credit <= settlements'[s].earning + settlements'[s].late
    /\ settlements'[s].earning - settlements'[s].withheld <= settlements'[s].payable
Enlarged(s) ==
    /\ settlements'[s] = [settlements[s] EXCEPT !.late = settlements'[s].late]
    /\ settlements'[s].late >= settlements[s].late
    /\ clock' = clock
LEMMA Moved ==
    ASSUME TypeOK, NEW s \in Settlements,
           \/ StartSettlementWindow(s) \/ FinalizeFullRefund(s) \/ RecordClawback(s)
           \/ \E balance \in Balances : RecordHeldSettlement(s, balance)
           \/ \E tax \in ReleaseTax(s) : ReleaseSettlement(s, tax)
           \/ \E rest \in Earnings, withheld \in 0..settlements[s].withheld :
                FinalizePartialRefund(s, rest, withheld)
    PROVE  /\ UNCHANGED <<payouts, txs>>
           /\ \A t \in Settlements \ {s} : settlements'[t] = settlements[t]
           /\ settlements'[s].worth >= settlements[s].worth
           /\ Unreleased(s) \/ Released(s) \/ Enlarged(s)
<1>a. /\ settlements \in [Settlements -> SettlementRow] /\ settlements[s] \in SettlementRow
      /\ settlements[s].earning \in Int /\ settlements[s].withheld \in Nat
      /\ settlements[s].worth \in Nat /\ settlements[s].late \in Nat
  BY DEF TypeOK, SettlementRow
<1>1. CASE StartSettlementWindow(s)
  BY <1>1, <1>a DEF StartSettlementWindow, SettlementRow, Unreleased
<1>2. CASE FinalizeFullRefund(s)
  <2>1. PICK withheld \in 0..settlements[s].withheld :
          settlements' = [settlements EXCEPT ![s].status = "refunded", ![s].withheld = withheld,
                                             ![s].refunds = @ + 1]
    BY <1>2 DEF FinalizeFullRefund
  <2>2. /\ settlements'[s].worth = settlements[s].worth
        /\ settlements'[s].payable = settlements[s].payable
        /\ settlements'[s].releasedAt = settlements[s].releasedAt
        /\ settlements'[s].status = "refunded"
        /\ \A t \in Settlements \ {s} : settlements'[t] = settlements[t]
    BY <2>1, <1>a DEF SettlementRow
  <2>3. UNCHANGED <<clock, payouts, txs>>
    BY <1>2 DEF FinalizeFullRefund
  <2> QED BY ONLY <2>2, <2>3, <1>a DEF Unreleased
<1>3. CASE RecordClawback(s)
  BY <1>3, <1>a DEF RecordClawback, SettlementRow, Unreleased
<1>4. ASSUME NEW rest \in Earnings, NEW withheld \in 0..settlements[s].withheld,
             FinalizePartialRefund(s, rest, withheld)
      PROVE  /\ UNCHANGED <<payouts, txs, clock>>
             /\ \A t \in Settlements \ {s} : settlements'[t] = settlements[t]
             /\ settlements'[s].worth = settlements[s].worth
             /\ settlements'[s].payable = settlements[s].payable
             /\ settlements'[s].releasedAt = settlements[s].releasedAt
             /\ settlements'[s].status = "window"
  BY <1>4, <1>a DEF FinalizePartialRefund, SettlementRow
<1>5. ASSUME NEW tax \in ReleaseTax(s), ReleaseSettlement(s, tax)
      PROVE  /\ UNCHANGED <<payouts, txs>>
             /\ \A t \in Settlements \ {s} : settlements'[t] = settlements[t]
             /\ settlements'[s].worth >= settlements[s].worth /\ Released(s)
  <2> DEFINE payable == Less(settlements[s].earning, tax)
             worth == IF payable > settlements[s].worth THEN payable ELSE settlements[s].worth
             credit == settlements[s].earning + settlements[s].late
  <2>0. credit \in Int /\ credit <= settlements[s].earning + settlements[s].late
    BY <1>a
  <2>1. tax \in Int /\ tax <= settlements[s].withheld
    BY <1>a DEF ReleaseTax
  <2>2. payable \in Nat /\ settlements[s].earning - settlements[s].withheld <= payable
    BY <1>a, <2>1 DEF Less
  <2>3. settlements' = [settlements EXCEPT ![s] =
            [settlements[s] EXCEPT !.status = "released", !.active = TRUE, !.payable = payable,
                !.credit = credit, !.worth = worth, !.releasedAt = clock + 1]]
    BY <1>5, <1>a DEF ReleaseSettlement, SettlementRow
  <2> HIDE DEF payable
  <2>4. worth \in Nat /\ worth >= settlements[s].worth /\ payable <= worth
    BY <1>a, <2>2
  <2> HIDE DEF worth, credit
  <2>5. /\ settlements'[s].status = "released" /\ settlements'[s].active
        /\ settlements'[s].payable = payable /\ settlements'[s].credit = credit
        /\ settlements'[s].earning = settlements[s].earning
        /\ settlements'[s].late = settlements[s].late
        /\ settlements'[s].worth = worth /\ settlements'[s].releasedAt = clock + 1
        /\ settlements'[s].withheld = settlements[s].withheld
        /\ \A t \in Settlements \ {s} : settlements'[t] = settlements[t]
    BY ONLY <1>a, <2>3 DEF SettlementRow
  <2> QED BY <1>5, <2>0, <2>2, <2>4, <2>5 DEF ReleaseSettlement, Released
<1>6. ASSUME \E rest \in Earnings, withheld \in 0..settlements[s].withheld :
               FinalizePartialRefund(s, rest, withheld)
      PROVE  /\ UNCHANGED <<payouts, txs, clock>>
             /\ \A t \in Settlements \ {s} : settlements'[t] = settlements[t]
             /\ settlements'[s].worth = settlements[s].worth
             /\ settlements'[s].payable = settlements[s].payable
             /\ settlements'[s].releasedAt = settlements[s].releasedAt
             /\ settlements'[s].status = "window"
  BY <1>4, <1>6
<1>7. ASSUME NEW balance \in Balances, RecordHeldSettlement(s, balance)
      PROVE  /\ UNCHANGED <<payouts, txs>>
             /\ \A t \in Settlements \ {s} : settlements'[t] = settlements[t]
             /\ settlements'[s].worth >= settlements[s].worth /\ Enlarged(s)
  <2>1. /\ settlements' = [settlements EXCEPT ![s] = [settlements[s] EXCEPT !.late = balance]]
        /\ UNCHANGED <<clock, payouts, txs>>
        /\ balance >= settlements[s].late
    BY <1>7, <1>a, AmountAssumption DEF RecordHeldSettlement, SettlementRow
  <2> QED BY ONLY <1>a, <2>1 DEF SettlementRow, Enlarged
<1>8. (/\ UNCHANGED clock
       /\ settlements'[s].worth = settlements[s].worth
       /\ settlements'[s].payable = settlements[s].payable
       /\ settlements'[s].releasedAt = settlements[s].releasedAt
       /\ settlements'[s].status = "window")
      => Unreleased(s) /\ settlements'[s].worth >= settlements[s].worth
  BY <1>a DEF Unreleased
<1> QED BY <1>1, <1>2, <1>3, <1>5, <1>6, <1>7, <1>8, <1>a

LEMMA SerialisedStep == TypeOK /\ Serialised /\ Unallocated /\ [Next]_vars
                          => Serialised' /\ Unallocated'
<1> SUFFICES ASSUME TypeOK, Serialised, Unallocated, [Next]_vars
             PROVE  Serialised' /\ Unallocated'
  OBVIOUS
<1>1. CASE CreateNext
  <2>1. PICK a \in Admins : \/ BeginCreate(a) \/ PlanCreation(a)
                            \/ AllocateReleasedSettlements(a) \/ CommitCreate(a)
    BY <1>1 DEF CreateNext
  <2>2. \A b \in Admins \ {a} : txs'[b] = Idle
    BY <2>1, Alone
  <2>3. Idle.split = Nothing
    BY DEF Idle
  <2>4. txs'[a].step # "allocated" => txs'[a].split = Nothing
    BY <2>1, Created
  <2> QED BY <2>2, <2>3, <2>4 DEF Serialised, Unallocated
<1>2. CASE UNCHANGED txs
  BY <1>2 DEF Serialised, Unallocated
<1>3. SettleNext \/ SettlementNext \/ UNCHANGED vars => UNCHANGED txs
  <2>1. SettleNext => UNCHANGED txs
    BY DEF SettleNext, MarkPayoutPaid, FailPayout
  <2>2. SettlementNext => UNCHANGED txs
    BY Moved DEF SettlementNext
  <2> QED BY <2>1, <2>2 DEF vars
<1> QED BY <1>1, <1>2, <1>3 DEF Next

LEMMA ValuedStep == TypeOK /\ TypeOK' /\ Ordered /\ Valued /\ [Next]_vars => Ordered' /\ Valued'
<1> SUFFICES ASSUME TypeOK, TypeOK', Ordered, Valued, [Next]_vars PROVE Ordered' /\ Valued'
  OBVIOUS
<1>1. CASE SettlementNext
  <2>1. PICK s \in Settlements :
           \/ StartSettlementWindow(s) \/ FinalizeFullRefund(s) \/ RecordClawback(s)
           \/ \E balance \in Balances : RecordHeldSettlement(s, balance)
           \/ \E tax \in ReleaseTax(s) : ReleaseSettlement(s, tax)
           \/ \E rest \in Earnings, withheld \in 0..settlements[s].withheld :
                FinalizePartialRefund(s, rest, withheld)
    BY <1>1 DEF SettlementNext
  <2>2. /\ \A t \in Settlements \ {s} : settlements'[t] = settlements[t]
        /\ settlements'[s].worth >= settlements[s].worth
        /\ Unreleased(s) \/ Released(s) \/ Enlarged(s)
    BY <2>1, Moved
  <2>3. /\ clock \in Nat
        /\ \A t \in Settlements :
             /\ settlements[t].worth \in Nat /\ settlements[t].payable \in Nat
             /\ settlements[t].releasedAt \in Nat
             /\ settlements'[t].worth \in Nat
    BY DEF TypeOK, SettlementRow
  <2>a. settlements[s] \in SettlementRow
    BY DEF TypeOK
  <2>b. CASE Enlarged(s)
    <3>1. /\ settlements'[s].status = settlements[s].status
          /\ settlements'[s].active = settlements[s].active
          /\ settlements'[s].earning = settlements[s].earning
          /\ settlements'[s].credit = settlements[s].credit
          /\ settlements'[s].late >= settlements[s].late
          /\ settlements'[s].withheld = settlements[s].withheld
          /\ settlements'[s].payable = settlements[s].payable
          /\ settlements'[s].worth = settlements[s].worth
          /\ settlements'[s].releasedAt = settlements[s].releasedAt
          /\ clock' = clock
      BY ONLY <2>a, <2>b DEF Enlarged, SettlementRow
    <3>2. \A t \in Settlements :
             /\ settlements'[t].status = settlements[t].status
             /\ settlements'[t].active = settlements[t].active
             /\ settlements'[t].earning = settlements[t].earning
             /\ settlements'[t].credit = settlements[t].credit
             /\ settlements'[t].withheld = settlements[t].withheld
             /\ settlements'[t].payable = settlements[t].payable
             /\ settlements'[t].worth = settlements[t].worth
             /\ settlements'[t].releasedAt = settlements[t].releasedAt
      BY <2>2, <3>1
    <3>3. \A t \in Settlements : /\ settlements[t].credit \in Int
                                 /\ settlements[t].earning \in Int
                                 /\ settlements[t].late \in Int
      <4>1. \A t \in Settlements : settlements[t] \in SettlementRow
        BY ONLY TypeOK DEF TypeOK
      <4> QED BY ONLY <4>1 DEF SettlementRow
    <3>4. \A t \in Settlements : settlements'[t].late \in Int
      <4>1. \A t \in Settlements : settlements'[t] \in SettlementRow
        BY ONLY TypeOK' DEF TypeOK
      <4> QED BY ONLY <4>1 DEF SettlementRow
    <3>5. \A t \in Settlements : settlements'[t].late >= settlements[t].late
      BY ONLY <2>2, <3>1, <3>3, <3>4
    <3>6. Valued'
      BY ONLY Valued, <3>2, <3>3, <3>4, <3>5 DEF Valued
    <3>7. Ordered'
      BY <3>1, <3>2 DEF Ordered
    <3> QED BY <3>6, <3>7
  <2>4. CASE Unreleased(s) \/ Released(s)
    <3>1. Ordered'
      BY <2>2, <2>3, <2>4 DEF Ordered, Unreleased, Released
    <3>2. Valued'
      BY <2>2, <2>3, <2>4 DEF Valued, Unreleased, Released
    <3> QED BY <3>1, <3>2
  <2> QED BY <2>2, <2>4, <2>b
<1>2. CASE UNCHANGED <<settlements, clock>>
  BY <1>2 DEF Ordered, Valued
<1>3. SettleNext \/ CreateNext \/ UNCHANGED vars => UNCHANGED <<settlements, clock>>
  BY DEF SettleNext, MarkPayoutPaid, FailPayout, CreateNext, BeginCreate, PlanCreation,
         AllocateReleasedSettlements, CommitCreate, vars
<1> QED BY <1>1, <1>2, <1>3 DEF Next

-----------------------------------------------------------------------------
(* The runs: what is claimed adds up, fits, and is the ledger's money.     *)
LEMMA SettledRow ==
    ASSUME TypeOK, NEW i \in DOMAIN payouts, MarkPayoutPaid(i) \/ FailPayout(i)
    PROVE  /\ payouts[i].status = "pending" /\ UNCHANGED <<settlements, clock, txs>>
           /\ \E row \in PayoutRow :
                /\ payouts' = [payouts EXCEPT ![i] = row]
                /\ row.amount = payouts[i].amount /\ row.allocated = payouts[i].allocated
                /\ \/ row.status = "paid" /\ row.allocation = "paid"
                   \/ row.status = "failed" /\ row.allocation = "released"
<1> DEFINE paid == [payouts[i] EXCEPT !.status = "paid", !.allocation = "paid"]
           failed == [payouts[i] EXCEPT !.status = "failed", !.allocation = "released"]
<1>1. payouts[i] \in PayoutRow
  BY Rows
<1>2. /\ paid.status = "paid" /\ paid.allocation = "paid"
      /\ failed.status = "failed" /\ failed.allocation = "released"
      /\ paid.amount = payouts[i].amount /\ failed.amount = payouts[i].amount
      /\ paid.allocated = payouts[i].allocated /\ failed.allocated = payouts[i].allocated
  BY ONLY <1>1 DEF PayoutRow
<1>3. /\ paid \in PayoutRow /\ failed \in PayoutRow
      /\ payouts' = [payouts EXCEPT ![i] = paid] \/ payouts' = [payouts EXCEPT ![i] = failed]
  BY Settled
<1>4. payouts[i].status = "pending" /\ UNCHANGED <<settlements, clock, txs>>
  BY DEF MarkPayoutPaid, FailPayout
<1> HIDE DEF paid, failed
<1> QED BY <1>2, <1>3, <1>4

LEMMA Committed ==
    ASSUME TypeOK, NEW a \in Admins, CommitCreate(a)
    PROVE  \E row \in PayoutRow :
               /\ payouts' = Append(payouts, row) /\ UNCHANGED <<settlements, clock>>
               /\ row.status = "pending" /\ row.allocation = "reserved"
               /\ row.amount = txs[a].amount /\ row.allocated = txs[a].split
               /\ txs[a].step = "allocated" /\ txs'[a] = Idle
<1> DEFINE row == [status |-> "pending", amount |-> txs[a].amount,
                   allocated |-> txs[a].split, allocation |-> "reserved"]
<1>1. txs \in [Admins -> Transaction] /\ txs[a] \in Transaction
  BY DEF TypeOK
<1>2. row \in PayoutRow
  BY <1>1 DEF PayoutRow, Transaction
<1>3. /\ payouts' = Append(payouts, row) /\ UNCHANGED <<settlements, clock>>
      /\ txs[a].step = "allocated" /\ txs'[a] = Idle
  BY <1>1 DEF CommitCreate
<1> QED BY <1>2, <1>3

LEMMA ReservedStep == TypeOK /\ Reserved /\ [Next]_vars => Reserved'
<1> SUFFICES ASSUME TypeOK, Reserved, [Next]_vars PROVE Reserved'
  OBVIOUS
<1>1. CASE CreateNext
  <2>1. PICK a \in Admins : \/ BeginCreate(a) \/ PlanCreation(a)
                            \/ AllocateReleasedSettlements(a) \/ CommitCreate(a)
    BY <1>1 DEF CreateNext
  <2>2. CASE CommitCreate(a)
    <3>1. PICK row \in PayoutRow : /\ payouts' = Append(payouts, row)
                                   /\ row.allocation = "reserved"
      BY <2>2, Committed
    <3>2. \A i \in DOMAIN payouts' : \/ payouts'[i] = row
                                     \/ i \in DOMAIN payouts /\ payouts'[i] = payouts[i]
      BY <3>1 DEF TypeOK
    <3> QED BY <3>1, <3>2 DEF Reserved
  <2>3. BeginCreate(a) \/ PlanCreation(a) \/ AllocateReleasedSettlements(a) => UNCHANGED payouts
    BY DEF BeginCreate, PlanCreation, AllocateReleasedSettlements
  <2> QED BY <2>1, <2>2, <2>3 DEF Reserved
<1>2. CASE SettleNext
  <2>1. PICK i \in DOMAIN payouts : MarkPayoutPaid(i) \/ FailPayout(i)
    BY <1>2 DEF SettleNext
  <2>2. PICK row \in PayoutRow : /\ payouts' = [payouts EXCEPT ![i] = row]
                                 /\ row.status # "pending"
    BY <2>1, SettledRow
  <2>3. \A j \in DOMAIN payouts' : j \in DOMAIN payouts /\ (payouts'[j] = row
                                                            \/ payouts'[j] = payouts[j])
    BY <2>2
  <2> QED BY <2>2, <2>3 DEF Reserved
<1>3. SettlementNext \/ UNCHANGED vars => UNCHANGED payouts
  BY Moved DEF SettlementNext, vars
<1> QED BY <1>1, <1>2, <1>3 DEF Next, Reserved

LEMMA MatchStep ==
    /\ TypeOK /\ Serialised /\ Unallocated
    /\ AllocationsMatchPayouts /\ ClaimsAddUp /\ [Next]_vars
    => AllocationsMatchPayouts' /\ ClaimsAddUp'
<1> SUFFICES ASSUME TypeOK, Serialised, Unallocated, AllocationsMatchPayouts, ClaimsAddUp,
                    [Next]_vars, PayeeType = "partner"
             PROVE  /\ \A i \in DOMAIN payouts' :
                         /\ AllocatedBy(payouts'[i].allocated) = payouts'[i].amount
                         /\ payouts'[i].allocation
                              = CASE payouts'[i].status = "pending" -> "reserved"
                                  [] payouts'[i].status = "paid" -> "paid"
                                  [] payouts'[i].status = "failed" -> "released"
                    /\ \A a \in Admins : txs'[a].step = "allocated" =>
                         AllocatedBy(txs'[a].split) = txs'[a].amount
  BY DEF AllocationsMatchPayouts, ClaimsAddUp, AllocatedBy
<1>a. \A i \in DOMAIN payouts :
         /\ AllocatedBy(payouts[i].allocated) = payouts[i].amount
         /\ payouts[i].allocation = CASE payouts[i].status = "pending" -> "reserved"
                                      [] payouts[i].status = "paid" -> "paid"
                                      [] payouts[i].status = "failed" -> "released"
  BY DEF AllocationsMatchPayouts
<1>b. \A a \in Admins : txs[a].step = "allocated" => AllocatedBy(txs[a].split) = txs[a].amount
  BY DEF ClaimsAddUp
<1>1. CASE CreateNext
  <2>1. PICK a \in Admins : \/ BeginCreate(a) \/ PlanCreation(a)
                            \/ AllocateReleasedSettlements(a) \/ CommitCreate(a)
    BY <1>1 DEF CreateNext
  <2>2. \A b \in Admins \ {a} : txs'[b].step = "idle"
    BY <2>1, Alone DEF Idle
  <2>3. txs'[a].step = "allocated" => AllocatedBy(txs'[a].split) = txs'[a].amount
    BY <2>1, Created
  <2>4. CASE UNCHANGED payouts
    BY <1>a, <2>2, <2>3, <2>4
  <2>5. CASE CommitCreate(a)
    <3>1. PICK row \in PayoutRow :
              /\ payouts' = Append(payouts, row)
              /\ row.status = "pending" /\ row.allocation = "reserved"
              /\ row.amount = txs[a].amount /\ row.allocated = txs[a].split
              /\ txs[a].step = "allocated"
      BY <2>5, Committed
    <3>2. \A i \in DOMAIN payouts' : \/ payouts'[i] = row
                                     \/ i \in DOMAIN payouts /\ payouts'[i] = payouts[i]
      BY <3>1 DEF TypeOK
    <3>3. AllocatedBy(row.allocated) = row.amount
      BY <1>b, <3>1
    <3> QED BY <1>a, <2>2, <2>3, <3>1, <3>2, <3>3
  <2>6. BeginCreate(a) \/ PlanCreation(a) \/ AllocateReleasedSettlements(a) => UNCHANGED payouts
    BY DEF BeginCreate, PlanCreation, AllocateReleasedSettlements
  <2> QED BY <2>1, <2>4, <2>5, <2>6
<1>2. CASE SettleNext
  <2>1. PICK i \in DOMAIN payouts : MarkPayoutPaid(i) \/ FailPayout(i)
    BY <1>2 DEF SettleNext
  <2>2. PICK row \in PayoutRow :
           /\ payouts' = [payouts EXCEPT ![i] = row] /\ UNCHANGED txs
           /\ row.amount = payouts[i].amount /\ row.allocated = payouts[i].allocated
           /\ \/ row.status = "paid" /\ row.allocation = "paid"
              \/ row.status = "failed" /\ row.allocation = "released"
    BY <2>1, SettledRow
  <2>3. \A j \in DOMAIN payouts' : j \in DOMAIN payouts /\ ((payouts'[j] = row /\ j = i)
                                                            \/ payouts'[j] = payouts[j])
    BY <2>2
  <2> QED BY <1>a, <1>b, <2>2, <2>3
<1>3. CASE UNCHANGED <<payouts, txs>>
  BY <1>a, <1>b, <1>3
<1>4. SettlementNext \/ UNCHANGED vars => UNCHANGED <<payouts, txs>>
  BY Moved DEF SettlementNext, vars
<1> QED BY <1>1, <1>2, <1>3, <1>4 DEF Next

LEMMA FitStep ==
    /\ TypeOK /\ TypeOK' /\ Serialised /\ Unallocated /\ Reserved /\ Valued
    /\ NeverClaimedBeyondWorth /\ ClaimsFit /\ [Next]_vars
    => NeverClaimedBeyondWorth' /\ ClaimsFit'
<1> SUFFICES ASSUME TypeOK, TypeOK', Serialised, Unallocated, Reserved, Valued,
                    NeverClaimedBeyondWorth, ClaimsFit, [Next]_vars,
                    NEW s \in Settlements
             PROVE  /\ Live(s)' <= settlements'[s].worth
                    /\ \A a \in Admins : txs'[a].step = "allocated" =>
                         Live(s)' + txs'[a].split[s] <= settlements'[s].worth
  BY DEF NeverClaimedBeyondWorth, ClaimsFit
<1>a. /\ Live(s) \in Nat /\ Live(s) <= settlements[s].worth
      /\ settlements[s].worth \in Nat /\ settlements'[s].worth \in Nat
      /\ settlements[s].payable \in Nat /\ settlements[s].payable <= settlements[s].worth
  BY LiveType DEF TypeOK, SettlementRow, NeverClaimedBeyondWorth, Valued
<1>b. \A a \in Admins : /\ txs[a].split[s] \in Nat /\ txs'[a].split[s] \in Nat
                        /\ txs[a].step = "allocated" =>
                             Live(s) + txs[a].split[s] <= settlements[s].worth
  BY DEF TypeOK, Transaction, ClaimsFit
<1>1. CASE CreateNext
  <2>1. PICK a \in Admins : \/ BeginCreate(a) \/ PlanCreation(a)
                            \/ AllocateReleasedSettlements(a) \/ CommitCreate(a)
    BY <1>1 DEF CreateNext
  <2>2. \A b \in Admins \ {a} : txs'[b].step = "idle"
    BY <2>1, Alone DEF Idle
  <2>3. CASE CommitCreate(a)
    <3>1. PICK row \in PayoutRow :
              /\ payouts' = Append(payouts, row) /\ UNCHANGED settlements
              /\ row.allocation = "reserved" /\ row.allocated = txs[a].split
              /\ txs[a].step = "allocated" /\ txs'[a] = Idle
      BY <2>3, Committed
    <3>2. Live(s)' = Live(s) + txs[a].split[s]
      BY <3>1, LiveAppended DEF ClaimOf
    <3>3. txs'[a].step = "idle"
      BY <3>1 DEF Idle
    <3>4. Live(s)' <= settlements'[s].worth
      BY <1>b, <3>1, <3>2
    <3> QED BY <2>2, <3>3, <3>4
  <2>4. CASE BeginCreate(a) \/ PlanCreation(a) \/ AllocateReleasedSettlements(a)
    <3>1. UNCHANGED <<settlements, payouts>>
      BY <2>4 DEF BeginCreate, PlanCreation, AllocateReleasedSettlements
    <3>2. Live(s)' = Live(s)
      BY <3>1, Unchanged
    <3>3. CASE txs'[a].split = FifoAllocation(txs[a].amount)
      <4>1. txs[a].amount \in Int
        BY DEF TypeOK, Transaction
      <4>2. txs'[a].split[s] <= Remaining(s)
        BY <3>3, <4>1, FifoType
      <4>3. Remaining(s) \in Nat /\ (Remaining(s) = 0
                                     \/ Remaining(s) = Less(settlements[s].payable, Live(s)))
        BY RemainingType
      <4>4. Live(s) + Remaining(s) <= settlements[s].worth
        BY <1>a, <4>3 DEF Less
      <4>5. Live(s) + txs'[a].split[s] <= settlements[s].worth
        BY <1>a, <1>b, <4>2, <4>3, <4>4
      <4> QED BY <1>a, <2>2, <3>1, <3>2, <4>5
    <3>4. CASE txs'[a].split = Nothing
      <4>1. txs'[a].split[s] = 0
        BY <3>4 DEF Nothing
      <4> QED BY <1>a, <2>2, <3>1, <3>2, <4>1
    <3> QED BY <2>1, <3>3, <3>4, Created
  <2> QED BY <2>1, <2>3, <2>4
<1>2. CASE SettleNext
  <2>1. PICK i \in DOMAIN payouts : MarkPayoutPaid(i) \/ FailPayout(i)
    BY <1>2 DEF SettleNext
  <2>2. PICK row \in PayoutRow :
           /\ payouts' = [payouts EXCEPT ![i] = row] /\ UNCHANGED <<settlements, txs>>
           /\ row.allocated = payouts[i].allocated
           /\ row.allocation \in {"paid", "released"}
    BY <2>1, SettledRow
  <2>3. payouts[i].status = "pending" /\ payouts[i].allocated[s] \in Nat
    BY <2>1, SettledRow, Rows
  <2>4. Live(s)' = Live(s) - ClaimOf(payouts[i], s) + ClaimOf(row, s)
    BY <2>2, LiveReplaced
  <2>5. /\ ClaimOf(payouts[i], s) \in Nat /\ ClaimOf(row, s) \in Nat
        /\ ClaimOf(row, s) <= ClaimOf(payouts[i], s)
    BY <2>2, <2>3 DEF ClaimOf, Reserved
  <2>6. Live(s)' <= Live(s)
    BY <1>a, <2>4, <2>5
  <2>7. Live(s)' \in Int
    BY <1>a, <2>4, <2>5
  <2>8. Live(s)' <= settlements'[s].worth
    BY <1>a, <2>2, <2>6, <2>7
  <2>9. ASSUME NEW a \in Admins, txs'[a].step = "allocated"
        PROVE  Live(s)' + txs'[a].split[s] <= settlements'[s].worth
    <3>1. txs[a].split[s] \in Nat /\ Live(s) + txs[a].split[s] <= settlements[s].worth
      BY <1>b, <2>2, <2>9
    <3> QED BY <1>a, <2>2, <2>6, <2>7, <3>1
  <2> QED BY <2>8, <2>9
<1>3. CASE SettlementNext \/ UNCHANGED vars
  <2>1. UNCHANGED <<payouts, txs>> /\ settlements'[s].worth >= settlements[s].worth
    BY <1>3, <1>a, Moved DEF SettlementNext, vars
  <2>2. Live(s)' = Live(s)
    BY <2>1, Unchanged
  <2> QED BY <1>a, <1>b, <2>1, <2>2
<1> QED BY <1>1, <1>2, <1>3 DEF Next

-----------------------------------------------------------------------------
(* The live claims on all settlements together.                            *)
Claims == SumFunctionOnSet([s \in Settlements |-> Live(s)], Settlements)

LEMMA ClaimsMove ==
    ASSUME TypeOK, NEW split \in [Settlements -> Int],
           \A s \in Settlements : Live(s)' = Live(s) + split[s]
    PROVE  Claims \in Int /\ Claims' = Claims + AllocatedBy(split) /\ AllocatedBy(split) \in Int
<1> DEFINE f == [s \in Settlements |-> Live(s)]
           h == [s \in Settlements |-> Live(s)']
<1>1. \A s \in Settlements : f[s] \in Int /\ split[s] \in Int /\ h[s] = f[s] + split[s]
  BY LiveType
<1>2. Claims = SumFunctionOnSet(f, Settlements) /\ Claims' = SumFunctionOnSet(h, Settlements)
  BY DEF Claims
<1> HIDE DEF f, h
<1>3. SumFunctionOnSet(f, Settlements) \in Int /\ SumFunctionOnSet(split, Settlements) \in Int
  BY <1>1, SettlementAssumption, SumInt
<1>4. SumFunctionOnSet(h, Settlements)
        = SumFunctionOnSet(f, Settlements) + SumFunctionOnSet(split, Settlements)
  BY <1>1, SettlementAssumption, SumPlus
<1> QED BY <1>2, <1>3, <1>4 DEF AllocatedBy

LEMMA ClaimsFall ==
    ASSUME TypeOK, NEW split \in [Settlements -> Int],
           \A s \in Settlements : Live(s)' = Live(s) - split[s]
    PROVE  Claims \in Int /\ Claims' = Claims - AllocatedBy(split) /\ AllocatedBy(split) \in Int
<1> DEFINE f == [s \in Settlements |-> Live(s)]
           h == [s \in Settlements |-> Live(s)']
<1>1. \A s \in Settlements : h[s] \in Int /\ split[s] \in Int /\ f[s] = h[s] + split[s]
  BY LiveType
<1>2. Claims = SumFunctionOnSet(f, Settlements) /\ Claims' = SumFunctionOnSet(h, Settlements)
  BY DEF Claims
<1> HIDE DEF f, h
<1>3. SumFunctionOnSet(h, Settlements) \in Int /\ SumFunctionOnSet(split, Settlements) \in Int
  BY <1>1, SettlementAssumption, SumInt
<1>4. SumFunctionOnSet(f, Settlements)
        = SumFunctionOnSet(h, Settlements) + SumFunctionOnSet(split, Settlements)
  BY <1>1, SettlementAssumption, SumPlus
<1> QED BY <1>2, <1>3, <1>4 DEF AllocatedBy

LEMMA ClaimedStep ==
    /\ TypeOK /\ AllocationsMatchPayouts /\ ClaimsAddUp /\ Claimed /\ [Next]_vars
    => Claimed'
<1> SUFFICES ASSUME TypeOK, AllocationsMatchPayouts, ClaimsAddUp, Claimed, [Next]_vars,
                    PayeeType = "partner"
             PROVE  Claims' = AmountsOf({"paid"})' + AmountsOf({"pending"})'
  BY DEF Claimed, Claims
<1>a. Claims = AmountsOf({"paid"}) + AmountsOf({"pending"})
  BY DEF Claimed, Claims
<1>b. AmountsOf({"paid"}) \in Int /\ AmountsOf({"pending"}) \in Int
  BY AmountsType
<1>1. CASE UNCHANGED payouts
  <2>1. /\ \A s \in Settlements : Live(s)' = Live(s)
        /\ AmountsOf({"paid"})' = AmountsOf({"paid"})
        /\ AmountsOf({"pending"})' = AmountsOf({"pending"})
    BY <1>1, Unchanged
  <2>2. Claims' = Claims
    BY <2>1 DEF Claims
  <2> QED BY <1>a, <2>1, <2>2
<1>2. ASSUME NEW a \in Admins, CommitCreate(a)
      PROVE  Claims' = AmountsOf({"paid"})' + AmountsOf({"pending"})'
  <2>1. PICK row \in PayoutRow :
            /\ payouts' = Append(payouts, row)
            /\ row.status = "pending" /\ row.allocation = "reserved"
            /\ row.amount = txs[a].amount /\ row.allocated = txs[a].split
            /\ txs[a].step = "allocated"
    BY <1>2, Committed
  <2>2. AllocatedBy(row.allocated) = row.amount
    BY <2>1 DEF ClaimsAddUp
  <2>3. row.allocated \in [Settlements -> Int] /\ row.amount \in Int
    BY DEF PayoutRow
  <2>4. \A s \in Settlements : Live(s)' = Live(s) + row.allocated[s]
    BY <2>1, LiveAppended DEF ClaimOf
  <2>5. Claims' = Claims + row.amount
    BY <2>2, <2>3, <2>4, ClaimsMove
  <2>6. AmountsOf({"paid"})' = AmountsOf({"paid"}) + AmountIn(row, {"paid"})
    BY <2>1, AmountsAppended
  <2>7. AmountsOf({"pending"})' = AmountsOf({"pending"}) + AmountIn(row, {"pending"})
    BY <2>1, AmountsAppended
  <2>8. AmountIn(row, {"paid"}) = 0 /\ AmountIn(row, {"pending"}) = row.amount
    BY <2>1 DEF AmountIn
  <2> QED BY <1>a, <1>b, <2>3, <2>5, <2>6, <2>7, <2>8
<1>3. ASSUME NEW i \in DOMAIN payouts, MarkPayoutPaid(i) \/ FailPayout(i)
      PROVE  Claims' = AmountsOf({"paid"})' + AmountsOf({"pending"})'
  <2>1. PICK row \in PayoutRow :
           /\ payouts' = [payouts EXCEPT ![i] = row]
           /\ row.amount = payouts[i].amount /\ row.allocated = payouts[i].allocated
           /\ \/ row.status = "paid" /\ row.allocation = "paid"
              \/ row.status = "failed" /\ row.allocation = "released"
    BY <1>3, SettledRow
  <2>2. payouts[i].status = "pending" /\ payouts[i].allocation = "reserved"
    BY <1>3, SettledRow DEF AllocationsMatchPayouts
  <2>3. AllocatedBy(row.allocated) = row.amount
    BY <2>1 DEF AllocationsMatchPayouts
  <2>4. row.allocated \in [Settlements -> Int] /\ row.amount \in Int
    BY DEF PayoutRow
  <2>5. \A s \in Settlements :
           /\ Live(s) \in Int
           /\ Live(s)' = Live(s) - ClaimOf(payouts[i], s) + ClaimOf(row, s)
    <3>1. \A s \in Settlements : Live(s) \in Int
      BY LiveType
    <3>2. \A s \in Settlements : Live(s)' = Live(s) - ClaimOf(payouts[i], s) + ClaimOf(row, s)
      BY <2>1, LiveReplaced
    <3> QED BY <3>1, <3>2
  <2>6. /\ AmountsOf({"paid"})'
             = AmountsOf({"paid"}) - AmountIn(payouts[i], {"paid"}) + AmountIn(row, {"paid"})
        /\ AmountsOf({"pending"})' = AmountsOf({"pending"})
             - AmountIn(payouts[i], {"pending"}) + AmountIn(row, {"pending"})
    BY <2>1, AmountsReplaced
  <2>7. /\ AmountIn(payouts[i], {"paid"}) = 0
        /\ AmountIn(payouts[i], {"pending"}) = row.amount /\ AmountIn(row, {"pending"}) = 0
    BY <2>1, <2>2 DEF AmountIn
  <2>8. CASE row.status = "paid" /\ row.allocation = "paid"
    <3>1. \A s \in Settlements : Live(s)' = Live(s)
      BY <2>1, <2>2, <2>4, <2>5, <2>8 DEF ClaimOf
    <3>2. Claims' = Claims
      BY <3>1 DEF Claims
    <3>3. AmountIn(row, {"paid"}) = row.amount
      BY <2>8 DEF AmountIn
    <3> QED BY <1>a, <1>b, <2>4, <2>6, <2>7, <3>2, <3>3
  <2>9. CASE row.status = "failed" /\ row.allocation = "released"
    <3>1. \A s \in Settlements : Live(s)' = Live(s) - row.allocated[s]
      BY <2>1, <2>2, <2>4, <2>5, <2>9 DEF ClaimOf
    <3>2. Claims' = Claims - row.amount
      BY <2>3, <2>4, <3>1, ClaimsFall
    <3>3. AmountIn(row, {"paid"}) = 0
      BY <2>9 DEF AmountIn
    <3> QED BY <1>a, <1>b, <2>4, <2>6, <2>7, <3>2, <3>3
  <2> QED BY <2>1, <2>8, <2>9
<1>4. CASE CreateNext
  <2>1. PICK a \in Admins : \/ BeginCreate(a) \/ PlanCreation(a)
                            \/ AllocateReleasedSettlements(a) \/ CommitCreate(a)
    BY <1>4 DEF CreateNext
  <2>2. BeginCreate(a) \/ PlanCreation(a) \/ AllocateReleasedSettlements(a) => UNCHANGED payouts
    BY DEF BeginCreate, PlanCreation, AllocateReleasedSettlements
  <2> QED BY <1>1, <1>2, <2>1, <2>2
<1>5. CASE SettleNext
  BY <1>3, <1>5 DEF SettleNext
<1>6. SettlementNext \/ UNCHANGED vars => UNCHANGED payouts
  BY Moved DEF SettlementNext, vars
<1> QED BY <1>1, <1>4, <1>5, <1>6 DEF Next

-----------------------------------------------------------------------------
(* What is claimed of settlements and written in the ledger agree, so the  *)
(* account is ahead of what the settlements have left only by what late    *)
(* balances have added to it.                                              *)
LEMMA AllocatableInv ==
    TypeOK /\ Ordered /\ Valued /\ Claimed => PayableIsAllocatable
<1> DEFINE released == {s \in Settlements : settlements[s].status = "released"}
           net == [s \in Settlements |-> NetOf(s)]
           live == [s \in Settlements |-> Live(s)]
           less == [s \in Settlements |-> NetOf(s) - Live(s)]
           rest == [s \in Settlements |-> Remaining(s)]
           late == [s \in Settlements |-> LateCredit(s)]
           both == [s \in Settlements |-> Remaining(s) + LateCredit(s)]
           rank == [s \in Settlements |-> settlements[s].releasedAt]
           before == [s \in Settlements |-> ReleasedBefore(s)]
           take == FifoAllocation(Available)
<1> SUFFICES ASSUME TypeOK, Ordered, Valued, Claimed, PayeeType = "partner", Available > 0,
                    \A s \in Settlements :
                        settlements[s].active => settlements[s].status = "released"
             PROVE  Available - AllocatedBy(take) \in 0..SumFunctionOnSet(late, Settlements)
  BY DEF PayableIsAllocatable
<1>1. /\ IsFiniteSet(Settlements) /\ released \in SUBSET Settlements /\ IsFiniteSet(released)
  BY SettlementAssumption, FS_Subset
<1>2. \A s \in Settlements :
         /\ net[s] \in Int /\ live[s] \in Int /\ less[s] \in Int /\ rest[s] \in Int
         /\ net[s] = less[s] + live[s]
  <2>1. \A s \in Settlements : NetOf(s) \in Int /\ Live(s) \in Int /\ Remaining(s) \in Int
    BY NetType, LiveType, RemainingType
  <2> QED BY <2>1
<1>3. Available = SumFunctionOnSet(less, Settlements)
  <2>1. SumFunctionOnSet(net, Settlements)
          = SumFunctionOnSet(less, Settlements) + SumFunctionOnSet(live, Settlements)
    <3> HIDE DEF net, live, less
    <3> QED BY <1>1, <1>2, SumPlus
  <2>2. SumFunctionOnSet(less, Settlements) \in Int /\ SumFunctionOnSet(live, Settlements) \in Int
    <3> HIDE DEF live, less
    <3> QED BY <1>1, <1>2, SumInt
  <2>3. SumFunctionOnSet(live, Settlements) = AmountsOf({"paid"}) + AmountsOf({"pending"})
    BY DEF Claimed
  <2>4. AmountsOf({"paid"}) \in Int /\ AmountsOf({"pending"}) \in Int
    BY AmountsType
  <2>5. Available = SumFunctionOnSet(net, Settlements) - AmountsOf({"paid"})
                      - AmountsOf({"pending"})
    BY DEF Available, MaturePayable, Outstanding, SumFunction
  <2> HIDE DEF net, live, less
  <2> QED BY <2>1, <2>2, <2>3, <2>4, <2>5
<1>a. \A s \in Settlements :
         /\ rest[s] \in Nat /\ late[s] \in Nat /\ both[s] \in Int /\ both[s] = rest[s] + late[s]
  <2> SUFFICES ASSUME NEW s \in Settlements PROVE Remaining(s) \in Nat /\ LateCredit(s) \in Nat
    OBVIOUS
  <2>1. settlements[s].late \in Nat
    BY DEF TypeOK, SettlementRow
  <2>2. LateCredit(s) \in Nat
    BY <2>1 DEF LateCredit
  <2> QED BY <2>2, RemainingType
<1>4. \A s \in Settlements : less[s] <= both[s]
  <2> SUFFICES ASSUME NEW s \in Settlements
               PROVE  NetOf(s) - Live(s) <= Remaining(s) + LateCredit(s)
    OBVIOUS
  <2>a. Live(s) \in Nat
    BY LiveType
  <2>b. /\ settlements[s].withheld \in Nat /\ settlements[s].payable \in Nat
        /\ settlements[s].credit \in Int /\ settlements[s].earning \in Int
        /\ settlements[s].late \in Nat
    BY DEF TypeOK, SettlementRow
  <2>1. /\ Live(s) \in Nat /\ settlements[s].withheld \in Nat /\ settlements[s].payable \in Nat
        /\ settlements[s].credit \in Int /\ settlements[s].earning \in Int
        /\ settlements[s].late \in Int
    BY <2>a, <2>b
  <2>2. CASE settlements[s].status = "released"
    <3>1. /\ NetOf(s) = settlements[s].credit - settlements[s].withheld
          /\ settlements[s].earning - settlements[s].withheld <= settlements[s].payable
          /\ settlements[s].credit <= settlements[s].earning + LateCredit(s)
          /\ LateCredit(s) = settlements[s].late
      BY <2>2 DEF Valued, NetOf, LateCredit
    <3>2. Remaining(s) = Less(settlements[s].payable, Live(s))
      BY <2>2, RemainingType
    <3>3. Remaining(s) >= settlements[s].payable - Live(s) /\ Remaining(s) \in Nat
      BY <2>1, <3>2 DEF Less
    <3> QED BY <2>1, <3>1, <3>3
  <2>3. CASE settlements[s].status # "released"
    <3>1. NetOf(s) <= 0 /\ NetOf(s) \in Int
      BY <2>1, <2>3 DEF NetOf
    <3>2. Remaining(s) = 0 /\ LateCredit(s) = 0
      BY <2>3, RemainingType DEF LateCredit
    <3> QED BY <2>1, <3>1, <3>2
  <2> QED BY <2>2, <2>3
<1> DEFINE rests == SumFunctionOnSet(rest, released)
           lates == SumFunctionOnSet(late, Settlements)
<1>5. /\ Available <= rests + lates
      /\ Available \in Nat /\ rests \in Nat /\ lates \in Nat
  <2>1. \A s \in Settlements \ released : rest[s] = 0
    BY RemainingType
  <2> HIDE DEF less, rest, late, both, released
  <2>2. SumFunctionOnSet(less, Settlements) <= SumFunctionOnSet(both, Settlements)
    BY <1>1, <1>2, <1>a, <1>4, SumLeq
  <2>3. SumFunctionOnSet(both, Settlements)
          = SumFunctionOnSet(rest, Settlements) + SumFunctionOnSet(late, Settlements)
    BY <1>1, <1>a, SumPlus
  <2>4. SumFunctionOnSet(rest, Settlements) = SumFunctionOnSet(rest, released)
    BY <1>1, <1>2, <2>1, SumSupport
  <2>5. SumFunctionOnSet(less, Settlements) \in Int
    BY <1>1, <1>2, SumInt
  <2>6. rests \in Nat
    BY <1>1, <1>a, SumNat
  <2>7. lates \in Nat
    BY <1>1, <1>a, SumNat
  <2> QED BY <1>3, <2>2, <2>3, <2>4, <2>5, <2>6, <2>7
<1>6. \A s \in Settlements :
         take[s] = Least(rest[s], Less(Available, SumFunctionOnSet(rest, before[s])))
  BY DEF FifoAllocation
<1>7. /\ \A s \in released : rest[s] \in Nat /\ rank[s] \in Int
      /\ \A s, t \in released : s # t => rank[s] # rank[t]
      /\ \A s \in released : before[s] \subseteq released
           /\ \A t \in released : t \in before[s] <=> rank[t] < rank[s]
  <2>1. \A s \in Settlements : Remaining(s) \in Nat /\ settlements[s].releasedAt \in Int
    BY RemainingType DEF TypeOK, SettlementRow
  <2> QED BY <2>1 DEF Ordered, ReleasedBefore
<1>8. take \in [Settlements -> Nat]
  BY <1>5, FifoType
<1>9. SumFunctionOnSet(take, released) = Least(Available, rests)
  <2>1. \A s \in released :
           take[s] = Least(rest[s], Less(Available, SumFunctionOnSet(rest, before[s])))
    BY <1>6
  <2>a. IsFiniteSet(released) /\ Available \in Nat
    BY <1>1, <1>5
  <2> HIDE DEF take, rest, rank, before, released
  <2> QED BY ONLY <2>a, <1>7, <2>1, Filled
<1>10. \A s \in Settlements \ released : take[s] = 0
  <2> SUFFICES ASSUME NEW s \in Settlements, s \notin released PROVE take[s] = 0
    OBVIOUS
  <2>1. Remaining(s) = 0 /\ take[s] <= Remaining(s) /\ take[s] \in Nat
    BY <1>5, <1>8, RemainingType, FifoType
  <2> QED BY <2>1
<1>11. SumFunctionOnSet(take, Settlements) = SumFunctionOnSet(take, released)
  <2>1. \A s \in Settlements : take[s] \in Int
    BY <1>8
  <2> HIDE DEF take, released
  <2> QED BY <1>1, <1>10, <2>1, SumSupport
<1>12. AllocatedBy(take) = Least(Available, rests)
  BY <1>9, <1>11 DEF AllocatedBy
<1> HIDE DEF take, rests, lates, late
<1>13. Available - AllocatedBy(take) \in 0..lates
  BY <1>5, <1>12 DEF Least
<1> QED BY <1>13 DEF lates

-----------------------------------------------------------------------------
(* Types and the lock make the claims of at most one open creation fit what *)
(* the settlements are worth, and the runs equal those claims.             *)
IInv ==
    /\ TypeOK /\ Serialised /\ Unallocated /\ Reserved
    /\ Ordered /\ Valued
    /\ AllocationsMatchPayouts /\ ClaimsAddUp
    /\ NeverClaimedBeyondWorth /\ ClaimsFit /\ Claimed

LEMMA InitIInv == Init => IInv
<1> SUFFICES ASSUME Init PROVE IInv
  OBVIOUS
<1>1. TypeOK
  BY InitTypeOK
<1>2. /\ payouts = <<>> /\ DOMAIN payouts = {} /\ txs = [a \in Admins |-> Idle]
      /\ Idle.step = "idle" /\ Idle.split = Nothing
  BY DEF Init, Idle
<1>3. \A s \in Settlements :
         /\ settlements[s].status = "held" /\ ~settlements[s].active
         /\ settlements[s].payable = 0 /\ settlements[s].worth = 0
         /\ settlements[s].releasedAt = 0
  BY DEF Init
<1>4. Serialised /\ Unallocated /\ Reserved /\ ClaimsAddUp
  BY <1>2 DEF Serialised, Unallocated, Reserved, ClaimsAddUp
<1>5. Ordered /\ Valued
  BY <1>3 DEF Ordered, Valued, Init
<1>6. AllocationsMatchPayouts
  BY <1>2 DEF AllocationsMatchPayouts
<1>7. /\ \A s \in Settlements : Live(s) = 0
      /\ AmountsOf({"paid"}) = 0 /\ AmountsOf({"pending"}) = 0
  BY <1>2, SumEmpty DEF Live, AmountsOf, SumFunction
<1>8. NeverClaimedBeyondWorth /\ ClaimsFit
  BY <1>2, <1>3, <1>7 DEF NeverClaimedBeyondWorth, ClaimsFit
<1>9. Claimed
  <2> DEFINE live == [s \in Settlements |-> Live(s)]
  <2>1. \A s \in Settlements : live[s] = 0
    BY <1>7
  <2>2. \A s \in Settlements : live[s] \in Int
    BY <2>1
  <2>3. \A s \in Settlements \ {} : live[s] = 0
    BY <2>1
  <2> HIDE DEF live
  <2>4. SumFunctionOnSet(live, Settlements) = SumFunctionOnSet(live, {})
    BY <2>2, <2>3, SettlementAssumption, SumSupport
  <2>5. SumFunctionOnSet(live, Settlements) = 0
    BY <2>4, SumEmpty
  <2> QED BY <1>7, <2>5 DEF Claimed, live
<1> QED BY <1>1, <1>4, <1>5, <1>6, <1>8, <1>9 DEF IInv

LEMMA NextIInv == IInv /\ [Next]_vars => IInv'
BY NextTypeOK, SerialisedStep, ReservedStep, ValuedStep, MatchStep, FitStep, ClaimedStep
   DEF IInv

(* The strengthened invariant holds in every reachable state.              *)
THEOREM Inductive == Spec => []IInv
BY InitIInv, NextIInv, PTL DEF Spec

(* A partner's run is backed by settlements to the last dong as long as it *)
(* stands, and a failed run gives every settlement back.                   *)
THEOREM RunsAreBacked == Spec => []AllocationsMatchPayouts
<1>1. IInv => AllocationsMatchPayouts
  BY DEF IInv
<1> QED BY <1>1, Inductive, PTL

(* However creations, payments, failures and refunds interleave, no        *)
(* settlement is claimed for more than a release has made it worth.        *)
THEOREM NothingPaidTwice == Spec => []NeverClaimedBeyondWorth
<1>1. IInv => NeverClaimedBeyondWorth
  BY DEF IInv
<1> QED BY <1>1, Inductive, PTL

(* What the ledger says a partner can be paid is allocated to its released *)
(* settlements but for what balances captured after the window have added  *)
(* to the journals of the releases; without them a run is never refused.   *)
THEOREM StuckOnlyByLateBalances == Spec => []PayableIsAllocatable
<1>1. IInv => PayableIsAllocatable
  BY AllocatableInv DEF IInv
<1> QED BY <1>1, Inductive, PTL
=============================================================================
