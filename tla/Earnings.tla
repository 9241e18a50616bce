------------------------------ MODULE Earnings ------------------------------
(***************************************************************************)
(* What ONE booking earns for whom, to the dong: the split of its price    *)
(* between the partner, the tenant, the platform and an affiliate, the     *)
(* partner's withholding tax, the journals that book them, the amounts     *)
(* frozen onto the settlement, and the commission row that the affiliate   *)
(* is shown.                                                               *)
(*                                                                         *)
(* Custody has the interleavings, repetitions and clawbacks, with amounts  *)
(* of cash only; here every handler runs once, in one step, and the        *)
(* amounts are those of the code, rounding included.  Rates are basis      *)
(* points.                                                                 *)
(***************************************************************************)
EXTENDS Integers

CONSTANTS
    Bookings,  \* bookings to consider: prices, discount, and frozen terms
    Amounts    \* what a cancellation or a dispute may give back

RateTypes == {"percent", "fixed"}
Rates == [tenantType : RateTypes, tenant : Nat, platform : Nat,
          affiliateType : RateTypes, affiliate : Nat, house : BOOLEAN,
          method : {"deduction", "percentage"}, vat : Nat, vatHeld : Nat, pitHeld : Nat]
BookingRow == [total : Nat, final : Nat, charges : Nat, deposit : Nat,
               fundedBy : {"tenant", "partner", "nobody"}, affiliate : BOOLEAN,
               rates : Rates]

ASSUME EarningsAssumption ==
    /\ Amounts \subseteq Nat
    /\ Bookings \subseteq BookingRow
    /\ \A b \in Bookings :
         /\ b.final <= b.total /\ b.deposit \in 1..b.final
         /\ b.fundedBy = "nobody" <=> b.final = b.total

VARIABLES
    booking,     \* the booking's row, frozen when it was made
    told,        \* events of the booking
    settlement,  \* booking_settlements, with its amounts
    tax,         \* tax_withholding_events: the assessment, and what is reversed
    accounts,    \* balance of every ledger account, credit less debit
    commission,  \* affiliate_commissions
    seen         \* history: the held amount that the frozen figures, and the
                 \* journal of the release, were computed from

vars == <<booking, told, settlement, tax, accounts, commission, seen>>

Less(n, m) == IF n > m THEN n - m ELSE 0
Least(n, m) == IF n < m THEN n ELSE m

-----------------------------------------------------------------------------
(* Percentages, rounded half up.                                           *)

PercentOfBps(amount, bps) == (amount * bps + 5000) \div 10000
VatFromGross(gross, bps) == (2 * gross * bps + 10000 + bps) \div (2 * (10000 + bps))
VatOf(gross, rates) == IF rates.method = "percentage" THEN PercentOfBps(gross, rates.vat)
                       ELSE VatFromGross(gross, rates.vat)
NetOfVat(gross, rates) == gross - VatOf(gross, rates)

ApplyRate(type, rate, base) ==
    Least(base, IF type = "percent" THEN PercentOfBps(base, rate) ELSE rate)

(* The price less the discount that the partner bears.                     *)
PartnerBasis(total, final, fundedBy) == IF fundedBy = "tenant" THEN total ELSE final

(* Who gets what of a price.  Fees bite on what the customer pays, the     *)
(* tenant's commission on the partner's basis, all net of VAT; tax that    *)
(* the share cannot bear is not withheld.                                  *)
CommissionSplit(total, final, fundedBy, affiliate, rates) ==
    LET basis == PartnerBasis(total, final, fundedBy)
        platform == PercentOfBps(NetOfVat(final, rates), rates.platform)
        earned == IF affiliate
                  THEN ApplyRate(rates.affiliateType, rates.affiliate, NetOfVat(final, rates))
                  ELSE 0
        take == IF rates.house THEN final
                ELSE Least(basis, IF rates.tenantType = "percent"
                                  THEN PercentOfBps(NetOfVat(basis, rates), rates.tenant)
                                  ELSE rates.tenant)
        share == IF rates.house THEN 0 ELSE basis - take
        vat == PercentOfBps(basis, rates.vatHeld)
        pit == PercentOfBps(basis, rates.pitHeld)
        bearable == ~rates.house /\ vat + pit <= share
    IN  [share |-> share, platform |-> platform, affiliate |-> earned,
         vat |-> IF bearable THEN vat ELSE 0, pit |-> IF bearable THEN pit ELSE 0,
         tenant |-> take - platform - earned
                    - (IF rates.house THEN 0 ELSE basis - final)]

-----------------------------------------------------------------------------
(* Journals, as what each account gains.                                   *)

Owners == {"cash", "revenue", "partner", "platform", "affiliate", "authority"}
NoJournal == [o \in Owners |-> 0]
Post(journal) == accounts' = [o \in Owners |-> accounts[o] + journal[o]]

(* Cash beyond what came online was collected by the partner.  The tenant  *)
(* gets the residual, of which it returns the discount it funds.           *)
RevenueJournal(base, online, split, house) ==
    LET cash == IF house THEN base ELSE online
        collected == IF house THEN 0 ELSE Less(base, cash)
    IN  [NoJournal EXCEPT !["cash"] = -cash, !["partner"] = split.share - collected,
                          !["platform"] = split.platform, !["affiliate"] = split.affiliate,
                          !["revenue"] = cash + collected - split.share
                                         - split.platform - split.affiliate]
CancellationFeeJournal(retained) ==
    [NoJournal EXCEPT !["cash"] = -retained, !["revenue"] = retained]
WithholdingJournal(amount) ==
    [NoJournal EXCEPT !["partner"] = -amount, !["authority"] = amount]

-----------------------------------------------------------------------------
(* The booking's own events.  A refund ends a booking that was cancelled,  *)
(* or one whose dispute was granted in full.                               *)

Ends == {"completed", "no_show", "cancelled"}
EndBooking(e) ==
    /\ told \cap Ends = {}
    /\ told' = told \cup {e}
    /\ UNCHANGED <<booking, settlement, tax, accounts, commission, seen>>

FinalizeRefundedBooking ==
    /\ \/ settlement.status = "refunded"
       \/ "cancelled" \in told /\ settlement.paidBack > 0
    /\ told' = told \cup {"refunded"}
    /\ UNCHANGED <<booking, settlement, tax, accounts, commission, seen>>

(* The second payment; custody is recomputed from all captures, whatever   *)
(* has become of the booking and of its settlement by then.                *)
RecordHeldSettlement ==
    /\ settlement.held < booking.final
    /\ settlement' = [settlement EXCEPT !.held = booking.final]
    /\ UNCHANGED <<booking, told, tax, accounts, commission, seen>>

-----------------------------------------------------------------------------
(* The settlement.                                                         *)

NoSplit == [share |-> 0, platform |-> 0, affiliate |-> 0, vat |-> 0, pit |-> 0, tenant |-> 0]
SplitOfFee(retained) == [NoSplit EXCEPT !.tenant = retained]
Payable(split, onsite) == Less(split.share, onsite + split.vat + split.pit)
ServiceSplit(total, final, fundedBy) ==
    CommissionSplit(total, final, fundedBy, booking.affiliate, booking.rates)

(* The partner's tax is assessed when the service has ended, never later.  *)
RecordSettlementWithholding(split, revenue) ==
    IF revenue > 0 /\ (split.vat > 0 \/ split.pit > 0)
    THEN /\ tax' = [tax EXCEPT !.revenue = revenue, !.vat = split.vat, !.pit = split.pit]
         /\ Post(WithholdingJournal(split.vat + split.pit))
    ELSE UNCHANGED <<tax, accounts>>

(* Opening the window freezes the figures of the settlement.               *)
OpenWindow(kind, onsite, split) ==
    /\ settlement' = [settlement EXCEPT
                          !.status = "dispute_window", !.kind = kind, !.onsite = onsite,
                          !.split = split, !.payable = Payable(split, onsite),
                          !.retained = IF kind = "cancellation_fee"
                                       THEN settlement.held - settlement.refunded ELSE @]
    /\ seen' = [seen EXCEPT !.frozen = settlement.held]

StartSettlementWindow ==
    LET total == booking.total + booking.charges
        final == booking.final + booking.charges
        split == ServiceSplit(total, final, booking.fundedBy)
    IN  /\ "completed" \in told /\ settlement.status = "held"
        /\ OpenWindow("service_completed", Less(final, settlement.held), split)
        /\ RecordSettlementWithholding(split, PartnerBasis(total, final, booking.fundedBy))
        /\ UNCHANGED <<booking, told, commission>>

StartNoShowWindow ==
    LET split == ServiceSplit(settlement.held, settlement.held, "nobody")
    IN  /\ "no_show" \in told /\ settlement.status = "held"
        /\ OpenWindow("customer_no_show", 0, split)
        /\ RecordSettlementWithholding(split, settlement.held)
        /\ UNCHANGED <<booking, told, commission>>

RefundPrepared(kind, refunded) ==
    [settlement EXCEPT !.status = "refund_pending", !.kind = kind, !.refunded = refunded,
                       !.retained = settlement.held - refunded]

(* A cancellation that gives nothing back leaves a fee to be released.     *)
PrepareSettlementRefund(amount) ==
    /\ "cancelled" \in told /\ settlement.status = "held" /\ amount <= settlement.held
    /\ IF amount > 0
       THEN settlement' = RefundPrepared("cancellation_fee", amount) /\ UNCHANGED seen
       ELSE OpenWindow("cancellation_fee", 0, SplitOfFee(settlement.held))
    /\ UNCHANGED <<booking, told, tax, accounts, commission>>

(* A dispute is granted once, in full or in part.                          *)
ResolveWithRefund(amount) ==
    /\ settlement.status = "dispute_window" /\ ~settlement.disputed
    /\ amount \in 1..(settlement.held - settlement.refunded)
    /\ settlement' = [RefundPrepared(settlement.kind, settlement.refunded + amount)
                          EXCEPT !.disputed = TRUE]
    /\ UNCHANGED <<booking, told, tax, accounts, commission, seen>>

(* What is reversed is the part of the assessment that all refunds so far  *)
(* are of the assessed revenue, less what is reversed already.             *)
\* Mutant: the part is rounded like every other percentage.
ProportionalHalfUp(amount, part, whole) ==
    IF part >= whole THEN amount ELSE (2 * amount * part + whole) \div (2 * whole)

Proportional(amount, part, whole) ==
    IF part >= whole THEN amount ELSE (amount * part) \div whole
RecordWithholdingReversal(refunded) ==
    LET target == Least(refunded, tax.revenue)
        vat == Proportional(tax.vat, target, tax.revenue) - tax.vatBack
        pit == Proportional(tax.pit, target, tax.revenue) - tax.pitBack
    IN  IF target > tax.revenueBack /\ (vat > 0 \/ pit > 0)
        THEN /\ tax' = [tax EXCEPT !.revenueBack = target,
                                   !.vatBack = @ + vat, !.pitBack = @ + pit]
             /\ Post(WithholdingJournal(-(vat + pit)))
        ELSE UNCHANGED <<tax, accounts>>

FinalizeSettlementRefund ==
    /\ settlement.status = "refund_pending"
    /\ settlement' = [settlement EXCEPT
                          !.status = IF settlement.refunded >= settlement.held
                                     THEN "refunded" ELSE "dispute_window",
                          !.paidBack = settlement.refunded,
                          !.retained = settlement.held - settlement.refunded]
    /\ seen' = IF settlement.kind = "cancellation_fee"
               THEN [seen EXCEPT !.frozen = settlement.held] ELSE seen
    /\ RecordWithholdingReversal(settlement.refunded)
    /\ UNCHANGED <<booking, told, commission>>

(* A fee is released as it was fixed, all else is computed again from what *)
(* is held then, less the refunds; only the cash collected on site is not. *)
Retained == IF settlement.retained # 0 THEN settlement.retained ELSE settlement.held
ReleasedSplit(held) ==
    LET left == held - settlement.refunded
    IN  CASE settlement.kind = "cancellation_fee" -> SplitOfFee(Retained)
          [] settlement.kind = "customer_no_show" -> ServiceSplit(left, left, "nobody")
          [] OTHER -> ServiceSplit(Less(booking.total + booking.charges, settlement.refunded),
                                   Less(booking.final + booking.charges, settlement.refunded),
                                   booking.fundedBy)
ReleasedBase(held) == IF settlement.kind = "service_completed"
                      THEN Less(booking.final + booking.charges, settlement.refunded)
                      ELSE held - settlement.refunded

ReleaseSettlement ==
    LET fee == settlement.kind = "cancellation_fee"
        split == ReleasedSplit(settlement.held)
    IN  /\ settlement.status = "dispute_window"
        /\ settlement' = [settlement EXCEPT !.status = "released", !.split = split,
                              !.payable = Payable(split, settlement.onsite)]
        /\ Post(IF fee THEN CancellationFeeJournal(Retained)
                ELSE RevenueJournal(ReleasedBase(settlement.held),
                                    settlement.held - settlement.refunded,
                                    split, booking.rates.house))
        /\ seen' = [seen EXCEPT !.booked = IF fee THEN seen.frozen ELSE settlement.held]
        /\ UNCHANGED <<booking, told, tax, commission>>

-----------------------------------------------------------------------------
(* The commission row of the affiliate, written by handlers of its own.    *)

AffiliateCommission(charges) ==
    CommissionSplit(booking.total + charges, booking.final + charges, booking.fundedBy,
                    TRUE, booking.rates).affiliate

RecordPendingCommission ==
    /\ booking.affiliate /\ commission.status \in {"none", "pending"}
    /\ commission' = [status |-> "pending", amount |-> AffiliateCommission(0)]
    /\ UNCHANGED <<booking, told, settlement, tax, accounts, seen>>

\* Mutant: a commission that is already recorded keeps its amount.
RecordConfirmedOnce ==
    /\ "completed" \in told /\ booking.affiliate
    /\ commission.status \in {"none", "pending", "confirmed"}
    /\ commission' = [status |-> "confirmed",
                      amount |-> IF commission.status = "none"
                                 THEN AffiliateCommission(booking.charges)
                                 ELSE commission.amount]
    /\ UNCHANGED <<booking, told, settlement, tax, accounts, seen>>

RecordConfirmedCommission ==
    /\ "completed" \in told /\ booking.affiliate
    /\ commission.status \in {"none", "pending", "confirmed"}
    /\ commission' = [status |-> "confirmed", amount |-> AffiliateCommission(booking.charges)]
    /\ UNCHANGED <<booking, told, settlement, tax, accounts, seen>>

SetCommission(event, from, to) ==
    /\ event \in told /\ commission.status \in from
    /\ commission' = [commission EXCEPT !.status = to]
    /\ UNCHANGED <<booking, told, settlement, tax, accounts, seen>>
ReverseCommission == SetCommission("cancelled", {"pending", "confirmed"}, "reversed")
ClawbackCommission == SetCommission("refunded", {"confirmed", "paid"}, "clawed_back")
\* The payout of an affiliate marks all its confirmed commissions.
MarkCommissionPaid == SetCommission("confirmed", {"confirmed"}, "paid")

-----------------------------------------------------------------------------
Init ==
    /\ booking \in Bookings
    /\ told = {"confirmed"}
    /\ settlement = [status |-> "held", kind |-> "none", held |-> booking.deposit,
                     onsite |-> 0, refunded |-> 0, retained |-> 0, paidBack |-> 0,
                     disputed |-> FALSE, split |-> NoSplit, payable |-> 0]
    /\ tax = [revenue |-> 0, vat |-> 0, pit |-> 0,
              revenueBack |-> 0, vatBack |-> 0, pitBack |-> 0]
    /\ accounts = NoJournal
    /\ commission = [status |-> "none", amount |-> 0]
    /\ seen = [frozen |-> 0, booked |-> 0]

Next ==
    \/ \E e \in Ends : EndBooking(e)
    \/ FinalizeRefundedBooking \/ RecordHeldSettlement
    \/ StartSettlementWindow \/ StartNoShowWindow
    \/ \E amount \in Amounts : PrepareSettlementRefund(amount) \/ ResolveWithRefund(amount)
    \/ FinalizeSettlementRefund \/ ReleaseSettlement
    \/ RecordPendingCommission \/ RecordConfirmedCommission \/ ReverseCommission
    \/ ClawbackCommission \/ MarkCommissionPaid

Spec == Init /\ [][Next]_vars

-----------------------------------------------------------------------------
Split == [share : Nat, platform : Int, affiliate : Int, vat : Nat, pit : Nat, tenant : Int]
SettlementRow ==
    [status : {"held", "refund_pending", "dispute_window", "released", "refunded"},
     kind : {"none", "service_completed", "customer_no_show", "cancellation_fee"},
     held : Nat, onsite : Nat, refunded : Nat, retained : Nat, paidBack : Nat,
     disputed : BOOLEAN, split : Split, payable : Nat]

(* Type invariant.                                                         *)
TypeOK ==
    /\ booking \in Bookings
    /\ told \subseteq Ends \cup {"confirmed", "refunded"}
    /\ settlement \in SettlementRow
    /\ tax \in [revenue : Nat, vat : Nat, pit : Nat,
                revenueBack : Nat, vatBack : Nat, pitBack : Nat]
    /\ accounts \in [Owners -> Int]
    /\ commission \in [status : {"none", "pending", "confirmed", "paid", "reversed", "clawed_back"},
                       amount : Int]
    /\ seen \in [frozen : Nat, booked : Nat]

(* Withheld by the assessment and not returned by a refund.                *)
TaxPosition == tax.vat + tax.pit - tax.vatBack - tax.pitBack

(* What came online between the window, which froze what the partner took  *)
(* on site, and the release, which books what was not taken online.        *)
LateBalance == IF settlement.kind = "service_completed" /\ ~booking.rates.house
               THEN seen.booked - seen.frozen ELSE 0

(* What the ledger says of a released booking is what the rows say to the  *)
(* partner, the tenant and the affiliate, although each is computed apart, *)
(* the settlement's before the refunds and again after them, the tenant's  *)
(* leg as what the others leave: the partner has its share less the cash   *)
(* it took and less the tax, the tenant its net, and an affiliate whose    *)
(* booking was not refunded its commission.  Only of a balance captured    *)
(* after the window does the ledger know what the row of the settlement    *)
(* does not: the partner did not take it on site.  All cash that was held  *)
(* at the release, or when a fee was fixed, and not given back is used up. *)
(* Until the release, and after a refund in full, only tax is booked, and  *)
(* none when all of the assessed revenue came back.                        *)
LedgerMatchesRows ==
    LET released == settlement.status = "released"
        split == IF released THEN settlement.split ELSE NoSplit
        cash == IF booking.rates.house THEN ReleasedBase(seen.booked)
                ELSE seen.booked - settlement.refunded
        collected == IF released /\ ~booking.rates.house
                     THEN settlement.onsite - LateBalance ELSE 0
    IN  /\ accounts["cash"] = IF released THEN -cash ELSE 0
        /\ accounts["partner"] = split.share - collected - TaxPosition
        /\ accounts["revenue"] = split.tenant
        /\ accounts["platform"] = split.platform
        /\ accounts["affiliate"] = split.affiliate
        /\ accounts["authority"] = TaxPosition
        /\ released /\ settlement.refunded = 0 /\ commission.status \in {"confirmed", "paid"}
             => commission.amount = accounts["affiliate"]
        /\ settlement.status = "refunded" /\ settlement.refunded >= tax.revenue
             => TaxPosition = 0

(* Payouts are claimed from the balance of the partner's account and       *)
(* allocated to the payables of settlements.  What a booking left on the   *)
(* account is never above its released payable and the balance that came   *)
(* after the window, though the tax in the account is an assessment less   *)
(* reversals rounded down, and that in the payable is computed again and   *)
(* rounded half up; and it is below that by at most a dong for each tax,   *)
(* unless the payable is zero or its taxes were dropped because the        *)
(* reduced share cannot bear them.  Not so for every rate                  *)
(* (TaxesStayDropped): if a fixed fee leaves just less than the taxes, a   *)
(* refund can make them bearable again, and the payable loses what was     *)
(* never withheld.  Nor for a balance captured after a no-show was         *)
(* assessed: the payable loses the tax of it, which is never withheld.     *)
PayableIsBacked ==
    /\ settlement.status = "released"
    /\ settlement.kind = "customer_no_show" => seen.booked = seen.frozen
    => LET gap == settlement.payable + LateBalance - accounts["partner"]
           taxed == settlement.split.vat + settlement.split.pit > 0 \/ tax.revenue = 0
       IN  /\ gap >= 0
           /\ settlement.payable > 0 /\ taxed => gap <= 2

(* The cash that the row of a settlement says the partner collected on     *)
(* behalf of the tenant is what the release takes from the partner's       *)
(* account.  The code keeps this only if the balance is not captured in    *)
(* between.                                                                *)
OnsiteIsBooked ==
    settlement.status = "released" /\ settlement.kind = "service_completed" /\ ~booking.rates.house
    => accounts["partner"] = settlement.split.share - settlement.onsite - TaxPosition

(* What the rates have to be for PayableIsBacked: no refund makes taxes    *)
(* bearable that the share of the whole price could not bear.              *)
Taxed(split) == split.vat > 0 \/ split.pit > 0
TaxStaysDropped(b, total, final, fundedBy) ==
    \A amount \in Amounts :
        /\ amount <= final
        /\ Taxed(CommissionSplit(total - amount, final - amount, fundedBy, b.affiliate, b.rates))
        => Taxed(CommissionSplit(total, final, fundedBy, b.affiliate, b.rates))
TaxesStayDropped ==
    \A b \in Bookings :
        /\ TaxStaysDropped(b, b.total + b.charges, b.final + b.charges, b.fundedBy)
        /\ \A held \in {b.deposit, b.final} : TaxStaysDropped(b, held, held, "nobody")
=============================================================================
