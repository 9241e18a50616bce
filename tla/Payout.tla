------------------------------- MODULE Payout -------------------------------
(***************************************************************************)
(* The manual payout runs of ONE payee, a partner or an affiliate: what    *)
(* its account in the ledger is worth, the runs that claim it, and for a   *)
(* partner the allocation of every run to released settlements.  Different *)
(* payees share nothing: the lock, the account, the runs and the           *)
(* settlements are all keyed by the payee.                                 *)
(*                                                                         *)
(* Creating a run is split into its statements: they run at READ COMMITTED *)
(* behind an advisory lock that only other creations take, so everything   *)
(* else commits in between.  Custody is the detailed model of what happens *)
(* to one settlement; here only what its payee's account sees is kept.     *)
(***************************************************************************)
EXTENDS Integers, Sequences, FiniteSets, Functions

CONSTANTS
    PayeeType,    \* "partner" or "affiliate"
    Settlements,  \* the settlements that earn for this payee
    Earnings,     \* a settlement's share of revenue less the on-site cash
    Balances,     \* what a balance captured after the window may add to custody
    Tax,          \* withholding of one settlement, 0 for an affiliate
    MinAmount,    \* payout policy: no run below it
    Admins,       \* tenant administrators that may create runs at once
    MaxPayouts,   \* bound: payout runs
    MaxRefunds    \* bound: refunds finalised per settlement

ASSUME PayeeAssumption == PayeeType \in {"partner", "affiliate"}
ASSUME SettlementAssumption == IsFiniteSet(Settlements)
ASSUME AmountAssumption ==
    /\ Earnings \subseteq Int /\ Balances \subseteq Nat \ {0} /\ Tax \in Nat /\ MinAmount \in Nat
    /\ MaxPayouts \in Nat /\ MaxRefunds \in Nat

VARIABLES
    settlements,  \* booking_settlements, with their journals and tax events
    clock,        \* now(), as the number of releases so far
    payouts,      \* payouts, in order of creation, with their allocations
    txs           \* open create transactions, per administrator

vars == <<settlements, clock, payouts, txs>>

\* Mutant: a debt is not cut off at zero.
Difference(n, m) == n - m
Less(n, m) == IF n > m THEN n - m ELSE 0
Least(n, m) == IF n < m THEN n ELSE m

-----------------------------------------------------------------------------
(* The account.  A journal counts for its payee as soon as it commits.     *)

(* What the journals of one settlement add up to: the active revenue       *)
(* journal and the withholding that has not been reversed.                 *)
NetOf(s) == (IF settlements[s].active THEN settlements[s].credit ELSE 0)
            - settlements[s].withheld

AmountsOf(statuses) ==
    SumFunction([i \in DOMAIN payouts |->
                    IF payouts[i].status \in statuses THEN payouts[i].amount ELSE 0])

MaturePayable == SumFunction([s \in Settlements |-> NetOf(s)]) - AmountsOf({"paid"})
Outstanding == AmountsOf({"pending"})
Available == MaturePayable - Outstanding

(* Allocations that still count against a settlement.                      *)
Live(s) ==
    SumFunction([i \in DOMAIN payouts |->
                    IF payouts[i].allocation # "released" THEN payouts[i].allocated[s] ELSE 0])

Remaining(s) ==
    IF settlements[s].status = "released" THEN Less(settlements[s].payable, Live(s)) ELSE 0

(* Oldest release first: a settlement is charged what the ones released    *)
(* before it leave of the amount, up to what remains of itself.            *)
ReleasedBefore(s) ==
    {t \in Settlements : /\ settlements[t].status = "released"
                         /\ settlements[t].releasedAt < settlements[s].releasedAt}
FifoAllocation(amount) ==
    LET rest == [s \in Settlements |-> Remaining(s)]
    IN  [s \in Settlements |->
            Least(rest[s], Less(amount, SumFunctionOnSet(rest, ReleasedBefore(s))))]

AllocatedBy(split) == SumFunctionOnSet(split, Settlements)

-----------------------------------------------------------------------------
(* Creating a run.                                                         *)

Nothing == [s \in Settlements |-> 0]
Idle == [step |-> "idle", amount |-> 0, split |-> Nothing]

\* Mutant: preview and claim are not serialised.
PayeeNeverLocked == TRUE
(* lockPayee: held until the creation that took it commits or rolls back.  *)
PayeeUnlocked == \A a \in Admins : txs[a] = Idle

(* The lock, and the first statement that matters: the mature balance.     *)
BeginCreate(a) ==
    /\ txs[a] = Idle /\ PayeeUnlocked
    /\ txs' = [txs EXCEPT ![a] = [step |-> "mature", amount |-> MaturePayable,
                                  split |-> Nothing]]
    /\ UNCHANGED <<settlements, clock, payouts>>

(* What other runs claim is read next; nothing to pay, or less than the    *)
(* minimum, throws and rolls back.                                         *)
PlanCreation(a) ==
    LET available == txs[a].amount - Outstanding
    IN  /\ txs[a].step = "mature"
        /\ txs' = [txs EXCEPT ![a] = IF available <= 0 \/ available < MinAmount
                                     THEN Idle
                                     ELSE [@ EXCEPT !.step = "planned", !.amount = available]]
        /\ UNCHANGED <<settlements, clock, payouts>>

(* A partner's run is allocated in full or rolled back.                    *)
AllocateReleasedSettlements(a) ==
    LET split == FifoAllocation(txs[a].amount)
    IN  /\ txs[a].step = "planned"
        /\ txs' = [txs EXCEPT ![a] =
                IF PayeeType = "affiliate" THEN [@ EXCEPT !.step = "allocated"]
                ELSE IF AllocatedBy(split) # @.amount THEN Idle
                ELSE [@ EXCEPT !.step = "allocated", !.split = split]]
        /\ UNCHANGED <<settlements, clock, payouts>>

CommitCreate(a) ==
    /\ txs[a].step = "allocated" /\ Len(payouts) < MaxPayouts
    /\ payouts' = Append(payouts, [status |-> "pending", amount |-> txs[a].amount,
                                   allocated |-> txs[a].split, allocation |-> "reserved"])
    /\ txs' = [txs EXCEPT ![a] = Idle]
    /\ UNCHANGED <<settlements, clock>>

-----------------------------------------------------------------------------
(* Settling a run.  Each is one transaction whose first write locks the    *)
(* payout row, so `processing` is never seen by anybody else.              *)

(* The journal that debits the payee is written in the same transaction.   *)
MarkPayoutPaid(i) ==
    /\ payouts[i].status = "pending"
    /\ payouts' = [payouts EXCEPT ![i].status = "paid", ![i].allocation = "paid"]
    /\ UNCHANGED <<settlements, clock, txs>>

\* Mutant: the settlements stay charged with a transfer that never happened.
FailPayoutKeeping(i) ==
    /\ payouts[i].status = "pending"
    /\ payouts' = [payouts EXCEPT ![i].status = "failed"]
    /\ UNCHANGED <<settlements, clock, txs>>

FailPayout(i) ==
    /\ payouts[i].status = "pending"
    /\ payouts' = [payouts EXCEPT ![i].status = "failed", ![i].allocation = "released"]
    /\ UNCHANGED <<settlements, clock, txs>>

-----------------------------------------------------------------------------
(* What happens to the settlements meanwhile, as their payee's account     *)
(* sees it.                                                                *)

(* The transaction is accepted: the withholding is debited at once.        *)
StartSettlementWindow(s) ==
    /\ settlements[s].status = "held"
    /\ settlements' = [settlements EXCEPT ![s].status = "window", ![s].withheld = Tax]
    /\ UNCHANGED <<clock, payouts, txs>>

(* The tax that a release subtracts again, of what was not refunded: after *)
(* a refund it may be below what the ledger has left, by the rounding of   *)
(* two taxes, or altogether when the reduced share cannot bear it          *)
(* (Earnings!PayableIsBacked).                                             *)
ReleaseTax(s) == IF settlements[s].refunds = 0 THEN {settlements[s].withheld}
                 ELSE 0..settlements[s].withheld

\* Mutant: a settlement is released although its old journal still stands.
ReleaseOverRevenue(s, tax) ==
    LET payable == Less(settlements[s].earning, tax)
    IN  /\ settlements[s].status = "window"
        /\ settlements' = [settlements EXCEPT
                ![s].status = "released", ![s].active = TRUE, ![s].payable = payable,
                ![s].credit = (IF settlements[s].active THEN @ ELSE 0)
                              + settlements[s].earning + settlements[s].late,
                ![s].worth = IF payable > @ THEN payable ELSE @, ![s].releasedAt = clock + 1]
        /\ clock' = clock + 1
        /\ UNCHANGED <<payouts, txs>>

(* Released only when no revenue journal of the booking stands.  The       *)
(* payable subtracts the cash that the window says was taken on site, the  *)
(* journal only what was not captured online by now.                       *)
ReleaseSettlement(s, tax) ==
    LET payable == Less(settlements[s].earning, tax)
    IN  /\ settlements[s].status = "window" /\ ~settlements[s].active
        /\ settlements' = [settlements EXCEPT
                ![s].status = "released", ![s].active = TRUE, ![s].payable = payable,
                ![s].credit = settlements[s].earning + settlements[s].late,
                ![s].worth = IF payable > @ THEN payable ELSE @, ![s].releasedAt = clock + 1]
        /\ clock' = clock + 1
        /\ UNCHANGED <<payouts, txs>>

(* The second payment of a booking of a partner, captured when the window  *)
(* has frozen the cash taken on site: custody grows whatever the status.   *)
RecordHeldSettlement(s, balance) ==
    /\ PayeeType = "partner"
    /\ settlements[s].status # "held" /\ settlements[s].late = 0
    /\ settlements' = [settlements EXCEPT ![s].late = balance]
    /\ UNCHANGED <<clock, payouts, txs>>

Refundable(s) ==
    /\ settlements[s].status \in {"window", "released"}
    /\ settlements[s].refunds < MaxRefunds

(* A completed refund takes the settlement back, even a released one; part *)
(* of the tax is reversed, and what is left will earn less.                *)
FinalizePartialRefund(s, rest, withheld) ==
    /\ Refundable(s) /\ rest < settlements[s].earning
    /\ settlements' = [settlements EXCEPT
            ![s].status = "window", ![s].earning = rest,
            ![s].withheld = withheld, ![s].refunds = @ + 1]
    /\ UNCHANGED <<clock, payouts, txs>>

(* All that was paid online: tax on what was paid on site, and on the      *)
(* discount of a tenant, stays.                                            *)
FinalizeFullRefund(s) ==
    /\ Refundable(s)
    /\ \E withheld \in 0..settlements[s].withheld :
         settlements' = [settlements EXCEPT ![s].status = "refunded",
                                            ![s].withheld = withheld, ![s].refunds = @ + 1]
    /\ UNCHANGED <<clock, payouts, txs>>

(* The legs of the standing revenue journal, swapped, in a later event.    *)
RecordClawback(s) ==
    /\ settlements[s].status # "released" /\ settlements[s].active
    /\ settlements' = [settlements EXCEPT ![s].active = FALSE]
    /\ UNCHANGED <<clock, payouts, txs>>

-----------------------------------------------------------------------------
Init ==
    /\ \E earning \in [Settlements -> Earnings] :
         settlements = [s \in Settlements |->
            [status |-> "held", earning |-> earning[s], late |-> 0, credit |-> 0,
             active |-> FALSE, withheld |-> 0, payable |-> 0, worth |-> 0, refunds |-> 0,
             releasedAt |-> 0]]
    /\ clock = 0 /\ payouts = <<>>
    /\ txs = [a \in Admins |-> Idle]

CreateNext ==
    \E a \in Admins : \/ BeginCreate(a) \/ PlanCreation(a)
                      \/ AllocateReleasedSettlements(a) \/ CommitCreate(a)
SettleNext == \E i \in DOMAIN payouts : MarkPayoutPaid(i) \/ FailPayout(i)
SettlementNext ==
    \E s \in Settlements :
        \/ StartSettlementWindow(s) \/ FinalizeFullRefund(s) \/ RecordClawback(s)
        \/ \E balance \in Balances : RecordHeldSettlement(s, balance)
        \/ \E tax \in ReleaseTax(s) : ReleaseSettlement(s, tax)
        \/ \E rest \in Earnings, withheld \in 0..settlements[s].withheld :
             FinalizePartialRefund(s, rest, withheld)

Next == CreateNext \/ SettleNext \/ SettlementNext

Spec == Init /\ [][Next]_vars

-----------------------------------------------------------------------------
SettlementRow == [status : {"held", "window", "released", "refunded"}, earning : Int,
                  late : Nat, credit : Int, active : BOOLEAN, withheld : Nat, payable : Nat,
                  worth : Nat, refunds : Nat, releasedAt : Nat]
PayoutRow == [status : {"pending", "paid", "failed"}, amount : Int,
              allocated : [Settlements -> Nat], allocation : {"reserved", "paid", "released"}]
Transaction == [step : {"idle", "mature", "planned", "allocated"}, amount : Int,
                split : [Settlements -> Nat]]

(* Every row, allocation and open creation has the shape its table gives.  *)
TypeOK ==
    /\ settlements \in [Settlements -> SettlementRow]
    /\ clock \in Nat
    /\ payouts \in Seq(PayoutRow)
    /\ txs \in [Admins -> Transaction]

(* A partner's run is backed by settlements to the last dong as long as it *)
(* stands, its claims and itself are settled together, and a failed run    *)
(* gives every settlement back.                                            *)
AllocationsMatchPayouts ==
    PayeeType = "partner" =>
        \A i \in DOMAIN payouts :
            /\ AllocatedBy(payouts[i].allocated) = payouts[i].amount
            /\ payouts[i].allocation = CASE payouts[i].status = "pending" -> "reserved"
                                         [] payouts[i].status = "paid" -> "paid"
                                         [] payouts[i].status = "failed" -> "released"

(* However creations, payments, failures and refunds interleave, no        *)
(* settlement is ever claimed for more than a release has made it worth:   *)
(* two runs never pay the same earnings of a partner twice.                *)
NeverClaimedBeyondWorth == \A s \in Settlements : Live(s) <= settlements[s].worth

(* What the journal of a release may hold that its payable knows nothing of. *)
LateCredit(s) == IF settlements[s].status = "released" THEN settlements[s].late ELSE 0

(* A partner's earnings get stuck only by late balances: what the ledger   *)
(* says is available can be allocated, whatever was clawed back,           *)
(* over-collected on site or rounded, but for what balances captured after *)
(* the window have added to the journals of releases, unless a refund's    *)
(* clawback has not been journalled yet.  Without late balances a run is   *)
(* never refused.                                                          *)
PayableIsAllocatable ==
    (/\ PayeeType = "partner" /\ Available > 0
     /\ \A s \in Settlements : settlements[s].active => settlements[s].status = "released")
        => Available - AllocatedBy(FifoAllocation(Available))
             \in 0..SumFunctionOnSet([s \in Settlements |-> LateCredit(s)], Settlements)

(* Without refunds a payee's account is never claimed beyond its balance.  *)
NoDoubleClaim == Available >= 0
=============================================================================
