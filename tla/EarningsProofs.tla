-------------------------- MODULE EarningsProofs --------------------------
(***************************************************************************)
(* LedgerMatchesRows for every price, discount, rate and refund.  How a    *)
(* percentage rounds does not matter to it: the split conserves what the   *)
(* customer pays (SplitConserves), and the journal and the rows are two    *)
(* sums of the same parts.  PayableIsBacked is about the rounding: a part  *)
(* that is reversed, rounded down, of a tax that was rounded half up, is   *)
(* compared with the tax of what is left (ReversalRounding).               *)
(***************************************************************************)
EXTENDS Earnings, TLAPS

-----------------------------------------------------------------------------
(* The arithmetic of Earnings.                                             *)

(* A percentage of an integer is an integer, and of a natural a natural.   *)
LEMMA PercentTyped ==
    ASSUME NEW amount \in Int, NEW bps \in Nat
    PROVE  /\ PercentOfBps(amount, bps) \in Int
           /\ amount \in Nat => PercentOfBps(amount, bps) \in Nat
<1>1. amount * bps \in Int /\ (amount \in Nat => amount * bps >= 0)
  OBVIOUS
<1> DEFINE p == amount * bps
<1>2. p \in Int /\ (amount \in Nat => p >= 0)
  BY <1>1
<1> HIDE DEF p
<1>3. (p + 5000) \div 10000 \in Int /\ (p >= 0 => (p + 5000) \div 10000 >= 0)
  BY <1>2
<1> QED
  BY <1>2, <1>3 DEF PercentOfBps, p

(* The VAT contained in a price is an integer.                             *)
LEMMA VatTyped ==
    ASSUME NEW gross \in Nat, NEW rates \in Rates
    PROVE  NetOfVat(gross, rates) \in Int
<1>1. rates.vat \in Nat /\ gross \in Int
  BY DEF Rates
<1>2. PercentOfBps(gross, rates.vat) \in Int
  BY <1>1, PercentTyped
<1>3. VatFromGross(gross, rates.vat) \in Int
  <2> DEFINE n == 2 * gross * rates.vat + 10000 + rates.vat
             d == 2 * (10000 + rates.vat)
  <2>1. n \in Int /\ d \in Int /\ d > 0
    BY <1>1
  <2> HIDE DEF n, d
  <2>2. n \div d \in Int
    BY <2>1
  <2> QED
    BY <2>2 DEF VatFromGross, n, d
<1> QED
  BY <1>1, <1>2, <1>3 DEF NetOfVat, VatOf

(* A rate, of either type, of an integer is an integer.                    *)
LEMMA RateTyped ==
    ASSUME NEW type \in RateTypes, NEW rate \in Nat, NEW base \in Int
    PROVE  ApplyRate(type, rate, base) \in Int
<1>1. PercentOfBps(base, rate) \in Int
  BY PercentTyped
<1> QED
  BY <1>1 DEF ApplyRate, Least

(* A split has its type, and what the customer pays is the sum of the      *)
(* shares of the partner, the tenant, the platform and the affiliate, for  *)
(* every seller and whoever bears the discount.                            *)
LEMMA SplitConserves ==
    ASSUME NEW total \in Nat, NEW final \in Nat,
           NEW fundedBy \in {"tenant", "partner", "nobody"},
           NEW affiliate \in BOOLEAN, NEW rates \in Rates
    PROVE  LET s == CommissionSplit(total, final, fundedBy, affiliate, rates)
           IN  /\ s \in Split
               /\ s.share + s.tenant + s.platform + s.affiliate = final
               /\ rates.house => s.share = 0
<1> DEFINE basis == PartnerBasis(total, final, fundedBy)
           platform == PercentOfBps(NetOfVat(final, rates), rates.platform)
           earned == IF affiliate
                     THEN ApplyRate(rates.affiliateType, rates.affiliate, NetOfVat(final, rates))
                     ELSE 0
           fee == IF rates.tenantType = "percent"
                  THEN PercentOfBps(NetOfVat(basis, rates), rates.tenant)
                  ELSE rates.tenant
           take == IF rates.house THEN final ELSE Least(basis, fee)
           share == IF rates.house THEN 0 ELSE basis - take
           vat == PercentOfBps(basis, rates.vatHeld)
           pit == PercentOfBps(basis, rates.pitHeld)
           bearable == ~rates.house /\ vat + pit <= share
<1>1. /\ rates.tenantType \in RateTypes /\ rates.affiliateType \in RateTypes
      /\ rates.tenant \in Nat /\ rates.platform \in Nat /\ rates.affiliate \in Nat
      /\ rates.house \in BOOLEAN /\ rates.vatHeld \in Nat /\ rates.pitHeld \in Nat
  BY DEF Rates
<1>2. basis \in Nat
  BY DEF PartnerBasis
<1>3. NetOfVat(final, rates) \in Int /\ NetOfVat(basis, rates) \in Int
  BY <1>2, VatTyped
<1>4. platform \in Int
  BY <1>1, <1>3, PercentTyped
<1>5. earned \in Int
  BY <1>1, <1>3, RateTyped
<1>6. PercentOfBps(NetOfVat(basis, rates), rates.tenant) \in Int
  BY <1>1, <1>3, PercentTyped
<1>7. fee \in Int
  BY <1>1, <1>6
<1>8. take \in Int /\ (~rates.house => take <= basis)
  <2> HIDE DEF basis, fee
  <2> QED
    BY <1>2, <1>7 DEF Least
<1>9. share \in Nat /\ (rates.house => share = 0)
  <2> HIDE DEF basis, take
  <2> QED
    BY <1>1, <1>2, <1>8
<1>10. vat \in Nat /\ pit \in Nat
  <2> HIDE DEF basis
  <2>1. basis \in Int
    BY <1>2
  <2>2. PercentOfBps(basis, rates.vatHeld) \in Nat
    BY <1>1, <1>2, <2>1, PercentTyped
  <2>3. PercentOfBps(basis, rates.pitHeld) \in Nat
    BY <1>1, <1>2, <2>1, PercentTyped
  <2> QED
    BY <2>2, <2>3
<1> DEFINE s == CommissionSplit(total, final, fundedBy, affiliate, rates)
<1>11. s = [share |-> share, platform |-> platform, affiliate |-> earned,
            vat |-> IF bearable THEN vat ELSE 0, pit |-> IF bearable THEN pit ELSE 0,
            tenant |-> take - platform - earned - (IF rates.house THEN 0 ELSE basis - final)]
  BY DEF CommissionSplit
<1>12. /\ rates.house => take = final
       /\ ~rates.house => share = basis - take
  BY <1>1
<1> HIDE DEF basis, platform, earned, fee, take, share, vat, pit, bearable, s
<1>13. take - platform - earned - (IF rates.house THEN 0 ELSE basis - final) \in Int
  BY <1>1, <1>2, <1>4, <1>5, <1>8
<1>14. s \in Split
  BY <1>4, <1>5, <1>9, <1>10, <1>11, <1>13 DEF Split
<1>15. s.share + s.tenant + s.platform + s.affiliate = final
  BY <1>1, <1>2, <1>4, <1>5, <1>8, <1>9, <1>11, <1>12
<1> QED
  BY <1>9, <1>11, <1>14, <1>15 DEF s

(* A part of an amount is a natural within it, and all of it for the whole.*)
LEMMA ProportionalWithin ==
    ASSUME NEW amount \in Nat, NEW part \in Nat, NEW whole \in Nat
    PROVE  /\ Proportional(amount, part, whole) \in Nat
           /\ Proportional(amount, part, whole) <= amount
           /\ part >= whole => Proportional(amount, part, whole) = amount
<1>1. CASE part >= whole
  BY <1>1 DEF Proportional
<1>2. CASE part < whole
  <2> DEFINE p == amount * part
  <2>1. p \in Nat /\ p <= amount * whole
    BY <1>2
  <2> HIDE DEF p
  <2>3. p \div whole \in Nat
    BY <1>2, <2>1
  <2>4. whole * (p \div whole) <= p
    BY <1>2, <2>1
  <2>5. p \div whole <= amount
    <3>1. SUFFICES ASSUME p \div whole >= amount + 1
                   PROVE  FALSE
      BY <2>3
    <3>2. whole * (p \div whole) >= whole * (amount + 1)
      BY <1>2, <2>3, <3>1
    <3>3. whole * (amount + 1) = amount * whole + whole
      BY <1>2
    <3>4. amount * whole \in Int /\ whole * (p \div whole) \in Int
      BY <2>3
    <3> QED
      BY <1>2, <2>1, <2>4, <3>2, <3>3, <3>4
  <2> QED
    BY <1>2, <2>3, <2>5 DEF Proportional, p
<1> QED
  BY <1>1, <1>2

-----------------------------------------------------------------------------
(* The invariant.                                                          *)

(* A booking ends once, and its end decides what its settlement is of;     *)
(* refunds stay within custody, custody never shrinks below what the       *)
(* frozen figures and the release were computed from, a fee is what a      *)
(* refund left of it, and a released settlement shows the split of what    *)
(* was held then less the refunds.                                         *)
Lifecycle ==
    /\ \A e, f \in told \cap Ends : e = f
    /\ settlement.kind = "service_completed" => "completed" \in told
    /\ settlement.kind = "customer_no_show" => "no_show" \in told
    /\ settlement.kind = "cancellation_fee" => "cancelled" \in told
    /\ settlement.status = "held" <=> settlement.kind = "none"
    /\ settlement.held <= booking.final /\ 0 < settlement.held
    /\ settlement.refunded <= settlement.held
    /\ seen.frozen <= settlement.held
    /\ settlement.onsite = IF settlement.kind = "service_completed"
                           THEN booking.final + booking.charges - seen.frozen ELSE 0
    /\ settlement.status = "held" => settlement.refunded = 0
    /\ settlement.status \in {"dispute_window", "released"}
         /\ settlement.kind = "cancellation_fee"
         => 0 < settlement.retained /\ settlement.retained = seen.frozen - settlement.refunded
    /\ settlement.status = "released" =>
         /\ settlement.refunded <= seen.booked
         /\ settlement.split = ReleasedSplit(seen.booked)

(* No more is reversed than was assessed, and all of it once the whole     *)
(* assessed revenue was paid back.                                         *)
Reversed ==
    /\ settlement.status = "held" =>
          tax.revenue = 0 /\ tax.revenueBack = 0 /\ tax.vatBack = 0 /\ tax.pitBack = 0
    /\ tax.vatBack <= tax.vat /\ tax.pitBack <= tax.pit
    /\ tax.revenueBack >= tax.revenue => tax.vatBack = tax.vat /\ tax.pitBack = tax.pit
    /\ settlement.status = "refunded" /\ settlement.refunded >= tax.revenue => TaxPosition = 0

(* The accounts, as LedgerMatchesRows has them.                            *)
Booked ==
    LET released == settlement.status = "released"
        split == IF released THEN settlement.split ELSE NoSplit
        cash == IF booking.rates.house THEN ReleasedBase(seen.booked)
                ELSE seen.booked - settlement.refunded
        collected == IF released /\ ~booking.rates.house
                     THEN settlement.onsite - LateBalance ELSE 0
    IN  /\ accounts["cash"] = IF released THEN -cash ELSE 0
        /\ accounts["partner"] = split.share - collected - TaxPosition
        /\ accounts["revenue"] = split.tenant
        /\ accounts["platform"] = split.platform
        /\ accounts["affiliate"] = split.affiliate
        /\ accounts["authority"] = TaxPosition

(* An earned commission is computed on the charges, too.                   *)
Earned ==
    commission.status \in {"confirmed", "paid"} =>
        /\ "completed" \in told /\ booking.affiliate
        /\ commission.amount = AffiliateCommission(booking.charges)

EarningsInv == TypeOK /\ Lifecycle /\ Reversed /\ Booked /\ Earned

-----------------------------------------------------------------------------
(* What a booking and a settlement are made of.                            *)
LEMMA Shapes ==
    ASSUME TypeOK
    PROVE  /\ booking \in BookingRow /\ booking.rates \in Rates
           /\ booking.total \in Nat /\ booking.final \in Nat /\ booking.charges \in Nat
           /\ booking.final <= booking.total
           /\ booking.fundedBy \in {"tenant", "partner", "nobody"}
           /\ booking.affiliate \in BOOLEAN /\ booking.rates.house \in BOOLEAN
           /\ settlement.held \in Nat /\ settlement.refunded \in Nat
           /\ settlement.onsite \in Nat /\ settlement.split \in Split
           /\ settlement.retained \in Nat /\ seen.frozen \in Nat /\ seen.booked \in Nat
           /\ tax.revenue \in Nat /\ tax.vat \in Nat /\ tax.pit \in Nat
           /\ tax.revenueBack \in Nat /\ tax.vatBack \in Nat /\ tax.pitBack \in Nat
<1>1. booking \in BookingRow /\ booking.final <= booking.total
  BY EarningsAssumption DEF TypeOK
<1>2. booking.rates \in Rates
  BY <1>1 DEF BookingRow
<1>3. booking.rates.house \in BOOLEAN
  BY <1>2 DEF Rates
<1> QED
  BY <1>1, <1>2, <1>3 DEF TypeOK, BookingRow, SettlementRow

(* A split of the booking's service, whatever was refunded.                *)
LEMMA ServiceSplitConserves ==
    ASSUME TypeOK, NEW total \in Nat, NEW final \in Nat,
           NEW fundedBy \in {"tenant", "partner", "nobody"}
    PROVE  LET s == ServiceSplit(total, final, fundedBy)
           IN  /\ s \in Split
               /\ s.share + s.tenant + s.platform + s.affiliate = final
               /\ booking.rates.house => s.share = 0
<1>1. booking.affiliate \in BOOLEAN /\ booking.rates \in Rates
  BY Shapes
<1> QED
  BY <1>1, SplitConserves DEF ServiceSplit

(* What is released is a split of what the journal distributes.            *)
LEMMA ReleasedSplitConserves ==
    ASSUME TypeOK, settlement.kind # "none", NEW held \in Nat, settlement.refunded <= held
    PROVE  /\ ReleasedSplit(held) \in Split /\ ReleasedBase(held) \in Nat
           /\ settlement.kind # "cancellation_fee" =>
                /\ ReleasedSplit(held).share + ReleasedSplit(held).tenant
                      + ReleasedSplit(held).platform + ReleasedSplit(held).affiliate
                      = ReleasedBase(held)
                /\ booking.rates.house => ReleasedSplit(held).share = 0
           /\ settlement.kind = "cancellation_fee" =>
                ReleasedSplit(held) = SplitOfFee(Retained)
<1> DEFINE left == held - settlement.refunded
           total == Less(booking.total + booking.charges, settlement.refunded)
           final == Less(booking.final + booking.charges, settlement.refunded)
<1>1. left \in Nat /\ total \in Nat /\ final \in Nat
  <2>1. /\ booking.total + booking.charges \in Int /\ booking.final + booking.charges \in Int
        /\ settlement.refunded \in Nat
    BY Shapes
  <2> QED
    BY <2>1 DEF Less
<1>2. settlement.kind \in {"service_completed", "customer_no_show", "cancellation_fee"}
  BY DEF TypeOK, SettlementRow
<1>3. CASE settlement.kind = "service_completed"
  <2>1. /\ ReleasedSplit(held) = ServiceSplit(total, final, booking.fundedBy)
        /\ ReleasedBase(held) = final
    BY <1>3 DEF ReleasedSplit, ReleasedBase
  <2>2. booking.fundedBy \in {"tenant", "partner", "nobody"}
    BY Shapes
  <2> HIDE DEF total, final, left
  <2> QED
    BY <1>1, <1>3, <2>1, <2>2, ServiceSplitConserves
<1>4. CASE settlement.kind = "customer_no_show"
  <2>1. ReleasedSplit(held) = ServiceSplit(left, left, "nobody") /\ ReleasedBase(held) = left
    BY <1>4 DEF ReleasedSplit, ReleasedBase
  <2> HIDE DEF total, final, left
  <2> QED
    BY <1>1, <1>4, <2>1, ServiceSplitConserves
<1>5. CASE settlement.kind = "cancellation_fee"
  <2>1. ReleasedSplit(held) = SplitOfFee(Retained) /\ ReleasedBase(held) = left
    BY <1>5 DEF ReleasedSplit, ReleasedBase
  <2>2. Retained \in Nat
    BY Shapes DEF Retained
  <2>3. SplitOfFee(Retained) \in Split
    BY <2>2 DEF SplitOfFee, NoSplit, Split
  <2> QED
    BY <1>1, <1>5, <2>1, <2>3
<1> QED
  BY <1>2, <1>3, <1>4, <1>5

(* A fee that was fixed is what is released of it.                         *)
LEMMA FeeIsRetained ==
    ASSUME TypeOK, Lifecycle, settlement.kind = "cancellation_fee",
           settlement.status \in {"dispute_window", "released"}
    PROVE  /\ Retained = seen.frozen - settlement.refunded
           /\ settlement.refunded <= seen.frozen
BY Shapes DEF Lifecycle, Retained

-----------------------------------------------------------------------------
(* The initial states.                                                     *)
LEMMA InitInv == Init => EarningsInv
<1> SUFFICES ASSUME Init PROVE EarningsInv
  OBVIOUS
<1>1. /\ booking \in BookingRow /\ booking.deposit \in 1..booking.final
      /\ booking.deposit \in Nat /\ booking.final \in Nat
  BY EarningsAssumption DEF Init, BookingRow
<1>2. NoSplit \in Split /\ NoJournal \in [Owners -> Int]
  BY DEF NoSplit, Split, NoJournal
<1>3. settlement \in SettlementRow
  BY <1>1, <1>2 DEF Init, SettlementRow
<1>4. TypeOK
  BY <1>2, <1>3 DEF Init, TypeOK
<1>5. Lifecycle
  BY <1>1 DEF Init, Lifecycle, Ends
<1>6. Reversed
  BY DEF Init, Reversed
<1>7. Booked
  BY <1>1 DEF Init, Booked, TaxPosition, NoSplit, NoJournal, Owners, LateBalance
<1>8. Earned
  BY DEF Init, Earned
<1> QED
  BY <1>4, <1>5, <1>6, <1>7, <1>8 DEF EarningsInv

(* The events of the booking.                                              *)
LEMMA EventsKeep ==
    ASSUME EarningsInv, (\E e \in Ends : EndBooking(e)) \/ FinalizeRefundedBooking
    PROVE  EarningsInv'
<1>1. /\ told' \subseteq Ends \cup {"confirmed", "refunded"} /\ told \subseteq told'
      /\ \A e, f \in told' \cap Ends : e = f
      /\ UNCHANGED <<booking, settlement, tax, accounts, commission, seen>>
  BY DEF EarningsInv, TypeOK, Lifecycle, EndBooking, FinalizeRefundedBooking, Ends
<1>2. TypeOK'
  BY <1>1 DEF EarningsInv, TypeOK
<1>3. Lifecycle'
  BY <1>1 DEF EarningsInv, Lifecycle, ReleasedSplit, ServiceSplit, Retained
<1>4. Reversed'
  BY <1>1 DEF EarningsInv, Reversed, TaxPosition
<1>5. Booked'
  BY <1>1 DEF EarningsInv, Booked, TaxPosition, ReleasedBase, LateBalance
<1>6. Earned'
  BY <1>1 DEF EarningsInv, Earned, AffiliateCommission
<1> QED
  BY <1>2, <1>3, <1>4, <1>5, <1>6 DEF EarningsInv

(* The commission row.                                                     *)
LEMMA CommissionKeeps ==
    ASSUME EarningsInv,
           \/ RecordPendingCommission \/ RecordConfirmedCommission \/ ReverseCommission
           \/ ClawbackCommission \/ MarkCommissionPaid
    PROVE  EarningsInv'
<1>1. UNCHANGED <<booking, told, settlement, tax, accounts, seen>>
  BY DEF RecordPendingCommission, RecordConfirmedCommission, ReverseCommission,
         ClawbackCommission, MarkCommissionPaid, SetCommission
<1>2. \A c \in Nat : AffiliateCommission(c) \in Int
  <2> TAKE c \in Nat
  <2>1. /\ booking.total + c \in Nat /\ booking.final + c \in Nat /\ booking.rates \in Rates
        /\ booking.fundedBy \in {"tenant", "partner", "nobody"}
    BY Shapes DEF EarningsInv
  <2>2. CommissionSplit(booking.total + c, booking.final + c, booking.fundedBy,
                        TRUE, booking.rates) \in Split
    BY <2>1, SplitConserves
  <2> QED
    BY <2>2 DEF AffiliateCommission, Split
<1>3. booking.charges \in Nat
  BY Shapes DEF EarningsInv
<1>4. /\ commission' \in [status : {"none", "pending", "confirmed", "paid", "reversed", "clawed_back"},
                          amount : Int]
      /\ Earned'
  <2> DEFINE Rows == [status : {"none", "pending", "confirmed", "paid", "reversed", "clawed_back"},
                      amount : Int]
  <2>1. commission \in Rows
    BY DEF EarningsInv, TypeOK
  <2>2. CASE RecordPendingCommission
    BY <1>1, <1>2, <2>2 DEF RecordPendingCommission, Earned
  <2>3. CASE RecordConfirmedCommission
    BY <1>1, <1>2, <1>3, <2>3 DEF RecordConfirmedCommission, Earned, AffiliateCommission
  <2>4. CASE ReverseCommission
    BY <1>1, <2>1, <2>4 DEF ReverseCommission, SetCommission, Earned
  <2>5. CASE ClawbackCommission
    BY <1>1, <2>1, <2>5 DEF ClawbackCommission, SetCommission, Earned
  <2>6. CASE MarkCommissionPaid
    BY <1>1, <2>1, <2>6 DEF MarkCommissionPaid, SetCommission, EarningsInv, Earned,
                            AffiliateCommission
  <2> QED
    BY <2>2, <2>3, <2>4, <2>5, <2>6
<1>5. TypeOK'
  BY <1>1, <1>4 DEF EarningsInv, TypeOK
<1>6. Lifecycle'
  BY <1>1 DEF EarningsInv, Lifecycle, ReleasedSplit, ServiceSplit, Retained
<1>7. Reversed'
  BY <1>1 DEF EarningsInv, Reversed, TaxPosition
<1>8. Booked'
  BY <1>1 DEF EarningsInv, Booked, TaxPosition, ReleasedBase, LateBalance
<1> QED
  BY <1>4, <1>5, <1>6, <1>7, <1>8 DEF EarningsInv

(* The second payment, which leaves a release and a fee as they were.      *)
LEMMA HeldKeeps ==
    ASSUME EarningsInv, RecordHeldSettlement
    PROVE  EarningsInv'
<1>1. /\ settlement' = [settlement EXCEPT !.held = booking.final]
      /\ UNCHANGED <<booking, told, tax, accounts, commission, seen>>
      /\ settlement \in SettlementRow /\ booking.final \in Nat
      /\ settlement.held < booking.final
      /\ settlement.held \in Nat /\ settlement.refunded \in Nat /\ seen.frozen \in Nat
  BY Shapes DEF RecordHeldSettlement, EarningsInv, TypeOK
<1>2. /\ settlement' \in SettlementRow /\ settlement'.held = booking.final
      /\ settlement'.status = settlement.status /\ settlement'.kind = settlement.kind
      /\ settlement'.refunded = settlement.refunded /\ settlement'.retained = settlement.retained
      /\ settlement'.onsite = settlement.onsite /\ settlement'.split = settlement.split
  BY <1>1 DEF SettlementRow
<1>3. TypeOK'
  BY <1>1, <1>2 DEF EarningsInv, TypeOK
<1>4. Lifecycle'
  <2>1. ASSUME settlement.status = "released"
        PROVE  ReleasedSplit(seen.booked)' = ReleasedSplit(seen.booked)
    <3>1. settlement.kind = "cancellation_fee" => settlement.retained # 0
      BY <2>1, Shapes DEF EarningsInv, Lifecycle
    <3> QED
      BY <1>1, <1>2, <3>1 DEF ReleasedSplit, ServiceSplit, Retained
  <2>2. /\ settlement'.held <= booking'.final /\ 0 < settlement'.held
        /\ settlement'.refunded <= settlement'.held /\ seen'.frozen <= settlement'.held
    BY <1>1, <1>2 DEF EarningsInv, Lifecycle
  <2>3. settlement'.status = "released" =>
          settlement'.refunded <= seen'.booked /\ settlement'.split = ReleasedSplit(seen.booked)'
    BY <1>1, <1>2, <2>1 DEF EarningsInv, Lifecycle
  <2>4. /\ settlement'.onsite = IF settlement'.kind = "service_completed"
                                THEN booking'.final + booking'.charges - seen'.frozen ELSE 0
        /\ settlement'.status \in {"dispute_window", "released"}
             /\ settlement'.kind = "cancellation_fee"
             => /\ 0 < settlement'.retained
                /\ settlement'.retained = seen'.frozen - settlement'.refunded
    BY <1>1, <1>2 DEF EarningsInv, Lifecycle
  <2> QED
    BY <1>1, <1>2, <2>2, <2>3, <2>4 DEF EarningsInv, Lifecycle
<1>5. Reversed'
  BY <1>1, <1>2 DEF EarningsInv, Reversed, TaxPosition
<1>6. Booked'
  <2>1. /\ ReleasedBase(seen.booked)' = ReleasedBase(seen.booked)
        /\ LateBalance' = LateBalance /\ TaxPosition' = TaxPosition
    BY <1>1, <1>2 DEF ReleasedBase, LateBalance, TaxPosition
  <2> QED
    BY <1>1, <1>2, <2>1 DEF EarningsInv, Booked
<1>7. Earned'
  BY <1>1 DEF EarningsInv, Earned, AffiliateCommission
<1> QED
  BY <1>3, <1>4, <1>5, <1>6, <1>7 DEF EarningsInv

(* The end of the service opens the window and assesses the tax.           *)
LEMMA WindowKeeps ==
    ASSUME EarningsInv, settlement.status = "held",
           NEW kind \in {"service_completed", "customer_no_show", "cancellation_fee"},
           NEW onsite \in Nat, NEW split \in Split, NEW revenue \in Nat,
           OpenWindow(kind, onsite, split),
           RecordSettlementWithholding(split, revenue),
           UNCHANGED <<booking, told, commission>>,
           kind = "service_completed" => "completed" \in told,
           kind = "customer_no_show" => "no_show" \in told,
           kind = "cancellation_fee" => "cancelled" \in told,
           onsite = IF kind = "service_completed"
                    THEN booking.final + booking.charges - settlement.held ELSE 0
    PROVE  EarningsInv'
<1>1. settlement \in SettlementRow
  BY DEF EarningsInv, TypeOK
<1>2. split.share \in Nat /\ split.vat \in Nat /\ split.pit \in Nat
  BY DEF Split
<1>3. Payable(split, onsite) \in Nat
  BY <1>2 DEF Payable, Less
<1>4. /\ settlement' \in SettlementRow
      /\ settlement'.status = "dispute_window" /\ settlement'.kind = kind
      /\ settlement'.onsite = onsite /\ settlement'.held = settlement.held
      /\ settlement'.refunded = settlement.refunded /\ settlement.refunded = 0
      /\ settlement.held \in Nat /\ 0 < settlement.held
      /\ kind = "cancellation_fee" => settlement'.retained = settlement.held
      /\ seen' \in [frozen : Nat, booked : Nat] /\ seen'.frozen = settlement.held
  <2>1. settlement.refunded = 0 /\ settlement.held \in Nat /\ 0 < settlement.held
    BY Shapes DEF EarningsInv, Lifecycle
  <2>2. settlement.held - settlement.refunded = settlement.held
    BY <2>1
  <2>3. settlement' = [settlement EXCEPT
                          !.status = "dispute_window", !.kind = kind, !.onsite = onsite,
                          !.split = split, !.payable = Payable(split, onsite),
                          !.retained = IF kind = "cancellation_fee"
                                       THEN settlement.held ELSE settlement.retained]
    BY <1>1, <2>2 DEF OpenWindow, SettlementRow
  <2>4. /\ seen \in [frozen : Nat, booked : Nat]
        /\ seen' = [seen EXCEPT !.frozen = settlement.held]
    BY DEF OpenWindow, EarningsInv, TypeOK
  <2> QED
    BY <1>1, <1>3, <2>1, <2>3, <2>4 DEF SettlementRow
<1>5. /\ accounts \in [Owners -> Int] /\ tax.revenueBack = 0 /\ tax.vatBack = 0 /\ tax.pitBack = 0
      /\ tax.vat \in Nat /\ tax.pit \in Nat /\ tax.revenue \in Nat
      /\ tax \in [revenue : Nat, vat : Nat, pit : Nat, revenueBack : Nat, vatBack : Nat, pitBack : Nat]
  BY DEF EarningsInv, TypeOK, Reversed
<1>6. /\ accounts["cash"] = 0 /\ accounts["revenue"] = 0 /\ accounts["platform"] = 0
      /\ accounts["affiliate"] = 0 /\ accounts["authority"] = tax.vat + tax.pit
      /\ accounts["partner"] = -(tax.vat + tax.pit)
  BY <1>5 DEF EarningsInv, Booked, NoSplit, TaxPosition
<1>7. tax.vat = 0 /\ tax.pit = 0
  BY <1>5 DEF EarningsInv, Reversed
<1>8. /\ tax' \in [revenue : Nat, vat : Nat, pit : Nat, revenueBack : Nat, vatBack : Nat, pitBack : Nat]
      /\ tax'.revenueBack = 0 /\ tax'.vatBack = 0 /\ tax'.pitBack = 0
      /\ 0 >= tax'.revenue => tax'.vat = 0 /\ tax'.pit = 0
      /\ accounts' \in [Owners -> Int]
      /\ accounts'["cash"] = 0 /\ accounts'["revenue"] = 0 /\ accounts'["platform"] = 0
      /\ accounts'["affiliate"] = 0 /\ accounts'["authority"] = tax'.vat + tax'.pit
      /\ accounts'["partner"] = -(tax'.vat + tax'.pit)
  <2>1. CASE revenue > 0 /\ (split.vat > 0 \/ split.pit > 0)
    <3>1. /\ tax' = [tax EXCEPT !.revenue = revenue, !.vat = split.vat, !.pit = split.pit]
          /\ accounts' = [o \in Owners |-> accounts[o] + WithholdingJournal(split.vat + split.pit)[o]]
      BY <2>1 DEF RecordSettlementWithholding, Post
    <3>2. /\ tax'.revenue = revenue /\ tax'.vat = split.vat /\ tax'.pit = split.pit
          /\ tax'.revenueBack = 0 /\ tax'.vatBack = 0 /\ tax'.pitBack = 0
          /\ tax' \in [revenue : Nat, vat : Nat, pit : Nat,
                       revenueBack : Nat, vatBack : Nat, pitBack : Nat]
      BY <1>2, <1>5, <3>1
    <3> DEFINE withheld == split.vat + split.pit
    <3>3. withheld \in Nat
      BY <1>2
    <3> HIDE DEF withheld
    <3>4. accounts' = [o \in Owners |-> accounts[o] + WithholdingJournal(withheld)[o]]
      BY <3>1 DEF withheld
    <3>5. WithholdingJournal(withheld) \in [Owners -> Int]
      BY <3>3 DEF WithholdingJournal, NoJournal, Owners
    <3>6. /\ WithholdingJournal(withheld)["cash"] = 0 /\ WithholdingJournal(withheld)["revenue"] = 0
          /\ WithholdingJournal(withheld)["platform"] = 0
          /\ WithholdingJournal(withheld)["affiliate"] = 0
          /\ WithholdingJournal(withheld)["partner"] = -withheld
          /\ WithholdingJournal(withheld)["authority"] = withheld
      BY DEF WithholdingJournal, NoJournal, Owners
    <3>7. accounts' \in [Owners -> Int]
      BY <1>5, <3>4, <3>5
    <3>8. \A o \in Owners : accounts'[o] = accounts[o] + WithholdingJournal(withheld)[o]
      BY <3>4
    <3>9. /\ accounts'["cash"] = 0 /\ accounts'["revenue"] = 0 /\ accounts'["platform"] = 0
          /\ accounts'["affiliate"] = 0 /\ accounts'["authority"] = withheld
          /\ accounts'["partner"] = -withheld
      BY <1>5, <1>6, <1>7, <3>3, <3>6, <3>8 DEF Owners
    <3> QED
      BY <2>1, <3>2, <3>7, <3>9 DEF withheld
  <2>2. CASE ~(revenue > 0 /\ (split.vat > 0 \/ split.pit > 0))
    <3>1. UNCHANGED <<tax, accounts>>
      BY <2>2 DEF RecordSettlementWithholding
    <3> QED
      BY <1>5, <1>6, <1>7, <3>1
  <2> QED
    BY <2>1, <2>2
<1>9. TypeOK'
  BY <1>4, <1>8 DEF EarningsInv, TypeOK
<1>10. Lifecycle'
  BY <1>4 DEF EarningsInv, Lifecycle
<1>11. Reversed'
  BY <1>4, <1>8 DEF Reversed
<1>12. Booked'
  BY <1>4, <1>8 DEF Booked, TaxPosition, NoSplit
<1>13. Earned'
  BY DEF EarningsInv, Earned, AffiliateCommission
<1> QED
  BY <1>9, <1>10, <1>11, <1>12, <1>13 DEF EarningsInv

(* The service was rendered, or the customer did not come.                 *)
LEMMA ServiceWindowsKeep ==
    ASSUME EarningsInv, StartSettlementWindow \/ StartNoShowWindow
    PROVE  EarningsInv'
<1>1. CASE StartSettlementWindow
  <2> DEFINE total == booking.total + booking.charges
             final == booking.final + booking.charges
             split == ServiceSplit(total, final, booking.fundedBy)
             revenue == PartnerBasis(total, final, booking.fundedBy)
             onsite == Less(final, settlement.held)
  <2>1. /\ total \in Nat /\ final \in Nat /\ settlement.held \in Nat /\ settlement.held <= final
        /\ booking.fundedBy \in {"tenant", "partner", "nobody"}
    BY Shapes DEF EarningsInv, Lifecycle
  <2>2. split \in Split
    <3> HIDE DEF total, final
    <3> QED
      BY <2>1, ServiceSplitConserves DEF EarningsInv
  <2>3. revenue \in Nat
    BY <2>1 DEF PartnerBasis
  <2>4. onsite \in Nat /\ onsite = final - settlement.held
    BY <2>1 DEF Less
  <2>5. /\ "completed" \in told /\ settlement.status = "held"
        /\ OpenWindow("service_completed", onsite, split)
        /\ RecordSettlementWithholding(split, revenue)
        /\ UNCHANGED <<booking, told, commission>>
    BY <1>1 DEF StartSettlementWindow
  <2>6. onsite = booking.final + booking.charges - settlement.held
    BY <2>1, Shapes DEF Less, EarningsInv
  <2> HIDE DEF onsite, split, revenue
  <2> QED
    BY <2>2, <2>3, <2>4, <2>5, <2>6, WindowKeeps
<1>2. CASE StartNoShowWindow
  <2> DEFINE split == ServiceSplit(settlement.held, settlement.held, "nobody")
  <2>1. settlement.held \in Nat
    BY Shapes DEF EarningsInv
  <2>2. split \in Split
    BY <2>1, ServiceSplitConserves DEF EarningsInv
  <2>3. /\ "no_show" \in told /\ settlement.status = "held"
        /\ OpenWindow("customer_no_show", 0, split)
        /\ RecordSettlementWithholding(split, settlement.held)
        /\ UNCHANGED <<booking, told, commission>>
    BY <1>2 DEF StartNoShowWindow
  <2> HIDE DEF split
  <2> QED
    BY <2>1, <2>2, <2>3, WindowKeeps
<1> QED
  BY <1>1, <1>2

(* A refund is prepared.                                                   *)
LEMMA PreparationKeeps ==
    ASSUME EarningsInv, settlement.status \in {"held", "dispute_window"},
           NEW kind \in {"service_completed", "customer_no_show", "cancellation_fee"},
           NEW refunded \in Nat, refunded <= settlement.held,
           NEW disputed \in BOOLEAN, NEW retained \in Nat,
           settlement' = [settlement EXCEPT !.status = "refund_pending", !.kind = kind,
                                            !.refunded = refunded, !.retained = retained,
                                            !.disputed = disputed],
           UNCHANGED <<booking, told, tax, accounts, commission, seen>>,
           \/ settlement.status = "held" /\ kind = "cancellation_fee" /\ "cancelled" \in told
           \/ kind = settlement.kind
    PROVE  EarningsInv'
<1>1. /\ settlement \in SettlementRow /\ settlement' \in SettlementRow
  BY DEF EarningsInv, TypeOK, SettlementRow
<1>2. /\ settlement'.status = "refund_pending" /\ settlement'.kind = kind
      /\ settlement'.refunded = refunded /\ settlement'.held = settlement.held
      /\ settlement'.onsite = settlement.onsite
  BY <1>1 DEF SettlementRow
<1>3. TypeOK'
  BY <1>1 DEF EarningsInv, TypeOK
<1>4. Lifecycle'
  BY <1>2 DEF EarningsInv, Lifecycle
<1>5. Reversed'
  BY <1>2 DEF EarningsInv, Reversed, TaxPosition
<1>6. Booked'
  BY <1>2 DEF EarningsInv, Booked, TaxPosition
<1>7. Earned'
  BY DEF EarningsInv, Earned, AffiliateCommission
<1> QED
  BY <1>3, <1>4, <1>5, <1>6, <1>7 DEF EarningsInv

(* A cancellation, with and without a refund, and a dispute's resolution.  *)
LEMMA RefundsKeep ==
    ASSUME EarningsInv, NEW amount \in Amounts,
           PrepareSettlementRefund(amount) \/ ResolveWithRefund(amount)
    PROVE  EarningsInv'
<1>1. /\ settlement \in SettlementRow /\ amount \in Nat
      /\ settlement.held \in Nat /\ settlement.refunded \in Nat
      /\ settlement.kind \in {"none", "service_completed", "customer_no_show", "cancellation_fee"}
  BY EarningsAssumption DEF EarningsInv, TypeOK, SettlementRow
<1>2. CASE PrepareSettlementRefund(amount) /\ amount > 0
  <2>1. /\ settlement.status = "held" /\ "cancelled" \in told /\ amount <= settlement.held
        /\ settlement' = [settlement EXCEPT !.status = "refund_pending", !.kind = "cancellation_fee",
                              !.refunded = amount, !.retained = settlement.held - amount]
        /\ UNCHANGED <<booking, told, tax, accounts, commission, seen>>
    BY <1>2 DEF PrepareSettlementRefund, RefundPrepared
  <2>2. settlement' = [settlement EXCEPT !.status = "refund_pending", !.kind = "cancellation_fee",
                                         !.refunded = amount,
                                         !.retained = settlement.held - amount,
                                         !.disputed = settlement.disputed]
    BY <1>1, <2>1 DEF SettlementRow
  <2> DEFINE retained == settlement.held - amount
             disputed == settlement.disputed
  <2>3. disputed \in BOOLEAN /\ retained \in Nat
    BY <1>1, <2>1 DEF SettlementRow
  <2>4. settlement' = [settlement EXCEPT !.status = "refund_pending", !.kind = "cancellation_fee",
                          !.refunded = amount, !.retained = retained, !.disputed = disputed]
    BY <2>2
  <2> HIDE DEF retained, disputed
  <2> QED
    BY <1>1, <2>1, <2>3, <2>4, PreparationKeeps
<1>3. CASE PrepareSettlementRefund(amount) /\ ~(amount > 0)
  <2>1. /\ settlement.status = "held" /\ "cancelled" \in told
        /\ OpenWindow("cancellation_fee", 0, SplitOfFee(settlement.held))
        /\ UNCHANGED <<booking, told, tax, accounts, commission>>
    BY <1>3 DEF PrepareSettlementRefund
  <2>2. SplitOfFee(settlement.held) \in Split
    BY <1>1 DEF SplitOfFee, NoSplit, Split
  <2>3. RecordSettlementWithholding(SplitOfFee(settlement.held), 0)
    BY <2>1 DEF RecordSettlementWithholding
  <2> QED
    BY <2>1, <2>2, <2>3, WindowKeeps
<1>4. CASE ResolveWithRefund(amount)
  <2>1. /\ settlement.status = "dispute_window"
        /\ amount \in 1..(settlement.held - settlement.refunded)
        /\ UNCHANGED <<booking, told, tax, accounts, commission, seen>>
        /\ settlement' = [[settlement EXCEPT !.status = "refund_pending", !.kind = settlement.kind,
                              !.refunded = settlement.refunded + amount,
                              !.retained = settlement.held - (settlement.refunded + amount)]
                              EXCEPT !.disputed = TRUE]
    BY <1>4 DEF ResolveWithRefund, RefundPrepared
  <2>2. settlement' = [settlement EXCEPT !.status = "refund_pending", !.kind = settlement.kind,
                          !.refunded = settlement.refunded + amount,
                          !.retained = settlement.held - (settlement.refunded + amount),
                          !.disputed = TRUE]
    BY <1>1, <2>1 DEF SettlementRow
  <2>3. settlement.kind # "none"
    BY <2>1 DEF EarningsInv, Lifecycle
  <2>4. /\ settlement.refunded + amount \in Nat /\ settlement.refunded + amount <= settlement.held
        /\ settlement.held - (settlement.refunded + amount) \in Nat
    BY <1>1, <2>1
  <2> QED
    BY <1>1, <2>1, <2>2, <2>3, <2>4, PreparationKeeps
<1> QED
  BY <1>2, <1>3, <1>4

(* A refund has been paid: part of the tax is reversed.                    *)
LEMMA FinalizationKeeps ==
    ASSUME EarningsInv, FinalizeSettlementRefund
    PROVE  EarningsInv'
<1> DEFINE refunded == settlement.refunded
           target == Least(refunded, tax.revenue)
           vat == Proportional(tax.vat, target, tax.revenue)
           pit == Proportional(tax.pit, target, tax.revenue)
<1>1. /\ settlement \in SettlementRow /\ settlement.status = "refund_pending"
      /\ tax.revenue \in Nat /\ tax.vat \in Nat /\ tax.pit \in Nat /\ refunded \in Nat
      /\ tax.revenueBack \in Nat /\ tax.vatBack \in Nat /\ tax.pitBack \in Nat
      /\ settlement.held \in Nat /\ refunded <= settlement.held
      /\ tax.vatBack <= tax.vat /\ tax.pitBack <= tax.pit
      /\ tax.revenueBack >= tax.revenue => tax.vatBack = tax.vat /\ tax.pitBack = tax.pit
      /\ tax \in [revenue : Nat, vat : Nat, pit : Nat, revenueBack : Nat, vatBack : Nat, pitBack : Nat]
      /\ accounts \in [Owners -> Int]
  BY Shapes DEF EarningsInv, TypeOK, FinalizeSettlementRefund, Lifecycle, Reversed
<1>2. /\ settlement' \in SettlementRow
      /\ settlement'.status = IF refunded >= settlement.held THEN "refunded" ELSE "dispute_window"
      /\ settlement'.kind = settlement.kind /\ settlement'.held = settlement.held
      /\ settlement'.onsite = settlement.onsite /\ settlement'.refunded = refunded
      /\ settlement'.retained = settlement.held - refunded
      /\ UNCHANGED <<booking, told, commission>>
  <2>1. settlement.held - refunded \in Nat
    BY <1>1
  <2> QED
    BY <1>1, <2>1 DEF FinalizeSettlementRefund, SettlementRow
<1>2a. /\ seen' \in [frozen : Nat, booked : Nat]
       /\ IF settlement.kind = "cancellation_fee" THEN seen'.frozen = settlement.held
         ELSE seen'.frozen = seen.frozen
  BY <1>1 DEF FinalizeSettlementRefund, EarningsInv, TypeOK
<1>3. /\ accounts["cash"] = 0 /\ accounts["revenue"] = 0 /\ accounts["platform"] = 0
      /\ accounts["affiliate"] = 0 /\ accounts["authority"] = TaxPosition
      /\ accounts["partner"] = -TaxPosition
  BY <1>1 DEF EarningsInv, Booked, NoSplit, TaxPosition
<1>4. target \in Nat /\ target <= tax.revenue /\ (refunded >= tax.revenue => target = tax.revenue)
  BY <1>1 DEF Least
<1>5. /\ vat \in Nat /\ vat <= tax.vat /\ (target >= tax.revenue => vat = tax.vat)
      /\ pit \in Nat /\ pit <= tax.pit /\ (target >= tax.revenue => pit = tax.pit)
  <2> HIDE DEF target
  <2>1. target \in Nat /\ tax.revenue \in Nat
    BY <1>1, <1>4
  <2>2. ASSUME NEW amount \in Nat
        PROVE  /\ Proportional(amount, target, tax.revenue) \in Nat
               /\ Proportional(amount, target, tax.revenue) <= amount
               /\ target >= tax.revenue => Proportional(amount, target, tax.revenue) = amount
    BY <2>1, ProportionalWithin
  <2> QED
    BY <1>1, <2>2
<1>6. RecordWithholdingReversal(refunded)
  BY DEF FinalizeSettlementRefund
<1>7. /\ tax' \in [revenue : Nat, vat : Nat, pit : Nat, revenueBack : Nat, vatBack : Nat, pitBack : Nat]
      /\ tax'.revenue = tax.revenue /\ tax'.vat = tax.vat /\ tax'.pit = tax.pit
      /\ tax'.vatBack <= tax'.vat /\ tax'.pitBack <= tax'.pit
      /\ tax'.revenueBack >= tax'.revenue => tax'.vatBack = tax'.vat /\ tax'.pitBack = tax'.pit
      /\ refunded >= tax.revenue => tax'.vatBack = tax.vat /\ tax'.pitBack = tax.pit
      /\ accounts' \in [Owners -> Int]
      /\ accounts'["cash"] = 0 /\ accounts'["revenue"] = 0 /\ accounts'["platform"] = 0
      /\ accounts'["affiliate"] = 0 /\ accounts'["authority"] = TaxPosition'
      /\ accounts'["partner"] = -TaxPosition'
  <2> DEFINE returned == (vat - tax.vatBack) + (pit - tax.pitBack)
             acts == target > tax.revenueBack /\ (vat - tax.vatBack > 0 \/ pit - tax.pitBack > 0)
  <2>1. IF acts
        THEN /\ tax' = [tax EXCEPT !.revenueBack = target,
                           !.vatBack = tax.vatBack + (vat - tax.vatBack),
                           !.pitBack = tax.pitBack + (pit - tax.pitBack)]
             /\ Post(WithholdingJournal(-returned))
        ELSE UNCHANGED <<tax, accounts>>
    BY <1>6 DEF RecordWithholdingReversal
  <2> HIDE DEF target, vat, pit
  <2>2. CASE acts
    <3>1. tax' = [tax EXCEPT !.revenueBack = target, !.vatBack = vat, !.pitBack = pit]
      <4>1. tax.vatBack + (vat - tax.vatBack) = vat /\ tax.pitBack + (pit - tax.pitBack) = pit
        BY <1>1, <1>5
      <4> QED
        BY <2>1, <2>2, <4>1
    <3>2. /\ tax' \in [revenue : Nat, vat : Nat, pit : Nat,
                       revenueBack : Nat, vatBack : Nat, pitBack : Nat]
          /\ tax'.revenue = tax.revenue /\ tax'.vat = tax.vat /\ tax'.pit = tax.pit
          /\ tax'.revenueBack = target /\ tax'.vatBack = vat /\ tax'.pitBack = pit
      BY <1>1, <1>4, <1>5, <3>1
    <3>3. returned \in Int /\ TaxPosition \in Int /\ TaxPosition' = TaxPosition - returned
      BY <1>1, <1>5, <3>2 DEF TaxPosition
    <3>4. accounts' = [o \in Owners |-> accounts[o] + WithholdingJournal(-returned)[o]]
      BY <2>1, <2>2 DEF Post
    <3> HIDE DEF returned
    <3>5. /\ WithholdingJournal(-returned) \in [Owners -> Int]
          /\ WithholdingJournal(-returned)["cash"] = 0
          /\ WithholdingJournal(-returned)["revenue"] = 0
          /\ WithholdingJournal(-returned)["platform"] = 0
          /\ WithholdingJournal(-returned)["affiliate"] = 0
          /\ WithholdingJournal(-returned)["partner"] = returned
          /\ WithholdingJournal(-returned)["authority"] = -returned
      BY <3>3 DEF WithholdingJournal, NoJournal, Owners
    <3>6. accounts' \in [Owners -> Int]
      BY <1>1, <3>4, <3>5
    <3>7. \A o \in Owners : accounts'[o] = accounts[o] + WithholdingJournal(-returned)[o]
      BY <3>4
    <3>8. /\ accounts'["cash"] = 0 /\ accounts'["revenue"] = 0 /\ accounts'["platform"] = 0
          /\ accounts'["affiliate"] = 0 /\ accounts'["authority"] = TaxPosition'
          /\ accounts'["partner"] = -TaxPosition'
      <4> HIDE DEF acts
      <4> DEFINE before == TaxPosition
                 after == TaxPosition'
      <4>1. before \in Int /\ after = before - returned
        BY <3>3
      <4> HIDE DEF before, after
      <4> QED
        BY <1>3, <3>3, <3>5, <3>7, <4>1 DEF Owners, before, after
    <3> QED
      BY <1>4, <1>5, <3>2, <3>6, <3>8
  <2>3. CASE ~acts
    <3>1. UNCHANGED <<tax, accounts>>
      BY <2>1, <2>3
    <3>2. refunded >= tax.revenue => tax.vatBack = tax.vat /\ tax.pitBack = tax.pit
      BY <1>1, <1>4, <1>5, <2>3
    <3> QED
      BY <1>1, <1>3, <3>1, <3>2 DEF TaxPosition
  <2> QED
    BY <2>2, <2>3
<1> HIDE DEF target, vat, pit
<1>8. TypeOK'
  BY <1>2, <1>2a, <1>7 DEF EarningsInv, TypeOK
<1>9. Lifecycle'
  BY <1>1, <1>2, <1>2a DEF EarningsInv, Lifecycle
<1>10. Reversed'
  <2>2. tax'.vat \in Nat /\ tax'.pit \in Nat
    BY <1>7
  <2> QED
    BY <1>2, <1>7, <2>2 DEF Reversed, TaxPosition
<1>11. Booked'
  <2>1. settlement'.status # "released"
    BY <1>2
  <2>2. TaxPosition' \in Int
    BY <1>7 DEF TaxPosition
  <2> QED
    BY <1>7, <2>1, <2>2 DEF Booked, NoSplit
<1>12. Earned'
  BY <1>2 DEF EarningsInv, Earned, AffiliateCommission
<1> QED
  BY <1>8, <1>9, <1>10, <1>11, <1>12 DEF EarningsInv

(* The release recognizes revenue.                                         *)
LEMMA ReleaseKeeps ==
    ASSUME EarningsInv, ReleaseSettlement
    PROVE  EarningsInv'
<1> DEFINE fee == settlement.kind = "cancellation_fee"
           booked == IF fee THEN seen.frozen ELSE settlement.held
           left == booked - settlement.refunded
           split == ReleasedSplit(settlement.held)
           base == ReleasedBase(booked)
           house == booking.rates.house
           journal == IF fee THEN CancellationFeeJournal(left)
                      ELSE RevenueJournal(base, left, split, house)
           onsite == IF settlement.kind = "service_completed"
                     THEN booking.final + booking.charges - settlement.held ELSE 0
           collected == IF house THEN 0 ELSE onsite
           cash == IF house THEN base ELSE left
<1>1. /\ settlement \in SettlementRow /\ settlement.status = "dispute_window"
      /\ settlement.kind \in {"service_completed", "customer_no_show", "cancellation_fee"}
      /\ settlement.held \in Nat /\ settlement.refunded \in Nat /\ settlement.onsite \in Nat
      /\ settlement.refunded <= settlement.held /\ settlement.held <= booking.final
      /\ booking.final \in Nat /\ booking.charges \in Nat /\ house \in BOOLEAN
      /\ settlement.onsite = IF settlement.kind = "service_completed"
                             THEN booking.final + booking.charges - seen.frozen ELSE 0
      /\ seen \in [frozen : Nat, booked : Nat] /\ seen.frozen <= settlement.held
      /\ accounts \in [Owners -> Int]
      /\ fee => Retained = left /\ settlement.refunded <= seen.frozen
  BY Shapes, FeeIsRetained DEF EarningsInv, TypeOK, ReleaseSettlement, Lifecycle, SettlementRow
<1>2. /\ booked \in Nat /\ settlement.refunded <= booked /\ left \in Nat /\ onsite \in Nat
      /\ split = ReleasedSplit(booked)
  BY <1>1 DEF ReleasedSplit
<1>2a. /\ split \in Split /\ base \in Nat
       /\ ~fee => /\ split.share + split.tenant + split.platform + split.affiliate = base
                  /\ house => split.share = 0
       /\ fee => split = SplitOfFee(left) /\ base = left
  <2>1. fee => base = left
    BY DEF ReleasedBase
  <2> HIDE DEF booked, split
  <2> QED
    BY <1>1, <1>2, <2>1, ReleasedSplitConserves DEF EarningsInv
<1>3. /\ split.share \in Nat /\ split.tenant \in Int /\ split.platform \in Int
      /\ split.affiliate \in Int /\ split.vat \in Nat /\ split.pit \in Nat
  BY <1>2a DEF Split
<1>4. Payable(split, settlement.onsite) \in Nat
  BY <1>1, <1>3 DEF Payable, Less
<1>5. /\ settlement' = [settlement EXCEPT !.status = "released", !.split = split,
                                          !.payable = Payable(split, settlement.onsite)]
      /\ accounts' = [o \in Owners |-> accounts[o] + journal[o]]
      /\ seen' = [seen EXCEPT !.booked = booked]
      /\ UNCHANGED <<booking, told, tax, commission>>
  BY <1>1 DEF ReleaseSettlement, Post
<1>6. base = left + onsite
  BY <1>1 DEF ReleasedBase, Less
<1>6a. /\ seen' \in [frozen : Nat, booked : Nat]
       /\ seen'.booked = booked /\ seen'.frozen = seen.frozen
  BY <1>1, <1>2, <1>5
<1> HIDE DEF split, base, left, booked, onsite
<1>7. /\ settlement' \in SettlementRow
      /\ settlement'.status = "released" /\ settlement'.split = split
      /\ settlement'.kind = settlement.kind /\ settlement'.held = settlement.held
      /\ settlement'.onsite = settlement.onsite /\ settlement'.refunded = settlement.refunded
      /\ settlement'.retained = settlement.retained
  BY <1>1, <1>2a, <1>4, <1>5 DEF SettlementRow
<1>8. /\ journal \in [Owners -> Int]
      /\ journal["cash"] = -cash /\ journal["partner"] = split.share - collected
      /\ journal["revenue"] = split.tenant /\ journal["platform"] = split.platform
      /\ journal["affiliate"] = split.affiliate /\ journal["authority"] = 0
  <2>1. CASE fee
    <3>1. journal = [NoJournal EXCEPT !["cash"] = -left, !["revenue"] = left]
      BY <2>1 DEF CancellationFeeJournal
    <3>2. /\ split.share = 0 /\ split.tenant = left /\ split.platform = 0 /\ split.affiliate = 0
          /\ cash = left /\ collected = 0
      BY <1>1, <1>2a, <2>1 DEF SplitOfFee, NoSplit, onsite
    <3> HIDE DEF journal, cash, collected, fee
    <3> QED
      BY <1>2, <3>1, <3>2 DEF NoJournal, Owners
  <2>2. CASE ~fee
    <3>1. Less(base, left) = onsite /\ Less(base, base) = 0
      BY <1>1, <1>2, <1>2a, <1>6 DEF Less
    <3> DEFINE residual == cash + collected - split.share - split.platform - split.affiliate
    <3>2. journal = [NoJournal EXCEPT !["cash"] = -cash, !["partner"] = split.share - collected,
                        !["platform"] = split.platform, !["affiliate"] = split.affiliate,
                        !["revenue"] = residual]
      BY <1>1, <2>2, <3>1 DEF RevenueJournal
    <3>3. cash \in Int /\ collected \in Int /\ cash + collected = base
      BY <1>1, <1>2, <1>2a, <1>6
    <3>4. residual = split.tenant
      BY <1>2a, <1>3, <2>2, <3>3
    <3>5. -cash \in Int /\ split.share - collected \in Int
      BY <1>3, <3>3
    <3> HIDE DEF journal, cash, collected, fee, residual
    <3> QED
      BY <1>3, <3>2, <3>4, <3>5 DEF NoJournal, Owners
  <2> QED
    BY <2>1, <2>2
<1> HIDE DEF journal, fee
<1>9. /\ accounts["cash"] = 0 /\ accounts["revenue"] = 0 /\ accounts["platform"] = 0
      /\ accounts["affiliate"] = 0 /\ accounts["authority"] = TaxPosition
      /\ accounts["partner"] = -TaxPosition /\ TaxPosition \in Int
  BY <1>1, Shapes DEF EarningsInv, Booked, NoSplit, TaxPosition
<1>10. /\ accounts' \in [Owners -> Int]
       /\ \A o \in Owners : accounts'[o] = accounts[o] + journal[o]
  BY <1>1, <1>5, <1>8
<1>11. /\ accounts'["cash"] = -cash /\ accounts'["partner"] = split.share - collected - TaxPosition
       /\ accounts'["revenue"] = split.tenant /\ accounts'["platform"] = split.platform
       /\ accounts'["affiliate"] = split.affiliate /\ accounts'["authority"] = TaxPosition
  <2>1. cash \in Int /\ collected \in Int
    BY <1>1, <1>2, <1>2a
  <2> DEFINE position == TaxPosition
  <2>2. position \in Int
    BY <1>9
  <2> HIDE DEF cash, collected, position
  <2> QED
    BY <1>3, <1>8, <1>9, <1>10, <2>1, <2>2 DEF Owners, position
<1>12. /\ ReleasedSplit(seen.booked)' = split /\ ReleasedBase(seen.booked)' = base
       /\ TaxPosition' = TaxPosition
       /\ collected = IF house THEN 0 ELSE settlement.onsite - LateBalance'
  <2>1. ReleasedBase(seen.booked)' = base /\ TaxPosition' = TaxPosition
    BY <1>5, <1>6a, <1>7 DEF base, ReleasedBase, TaxPosition
  <2>2. ReleasedSplit(seen.booked)' = split
    BY <1>2, <1>5, <1>6a, <1>7 DEF ReleasedSplit, ServiceSplit, Retained
  <2>3. ASSUME ~house PROVE onsite = settlement.onsite - LateBalance'
    <3>1. CASE settlement.kind = "service_completed"
      <4>1. LateBalance' = settlement.held - seen.frozen
        BY <1>5, <1>6a, <1>7, <2>3, <3>1 DEF LateBalance, booked, fee
      <4> QED
        BY <1>1, <3>1, <4>1 DEF onsite
    <3>2. CASE settlement.kind # "service_completed"
      BY <1>1, <1>7, <3>2 DEF onsite, LateBalance
    <3> QED
      BY <3>1, <3>2
  <2> QED
    BY <2>1, <2>2, <2>3
<1>13. TypeOK'
  BY <1>5, <1>6a, <1>7, <1>10 DEF EarningsInv, TypeOK
<1>14. Lifecycle'
  <2>1. settlement'.split = ReleasedSplit(seen.booked)' /\ settlement'.refunded <= seen'.booked
    BY <1>2, <1>6a, <1>7, <1>12
  <2> QED
    BY <1>1, <1>5, <1>6a, <1>7, <2>1 DEF EarningsInv, Lifecycle
<1>15. Reversed'
  BY <1>5, <1>7 DEF EarningsInv, Reversed
<1>16. Booked'
  BY <1>5, <1>6a, <1>7, <1>11, <1>12 DEF Booked, left
<1>17. Earned'
  BY <1>5 DEF EarningsInv, Earned, AffiliateCommission
<1> QED
  BY <1>13, <1>14, <1>15, <1>16, <1>17 DEF EarningsInv

-----------------------------------------------------------------------------
(* Theorems.                                                               *)

(* Every step keeps the invariant.                                         *)
LEMMA NextKeeps == EarningsInv /\ [Next]_vars => EarningsInv'
<1> SUFFICES ASSUME EarningsInv, [Next]_vars PROVE EarningsInv'
  OBVIOUS
<1>1. CASE UNCHANGED vars
  <2>1. TypeOK'
    BY <1>1 DEF EarningsInv, TypeOK, vars
  <2>2. /\ ReleasedBase(seen.booked)' = ReleasedBase(seen.booked)
        /\ ReleasedSplit(seen.booked)' = ReleasedSplit(seen.booked)
        /\ TaxPosition' = TaxPosition /\ LateBalance' = LateBalance
    BY <1>1 DEF ReleasedBase, ReleasedSplit, ServiceSplit, Retained, TaxPosition, LateBalance, vars
  <2>3. Lifecycle'
    BY <1>1, <2>2 DEF EarningsInv, Lifecycle, vars
  <2>4. Reversed'
    BY <1>1, <2>2 DEF EarningsInv, Reversed, vars
  <2>5. Booked'
    BY <1>1, <2>2, ZenonT(60) DEF EarningsInv, Booked, vars
  <2>6. Earned'
    BY <1>1 DEF EarningsInv, Earned, AffiliateCommission, vars
  <2> QED
    BY <2>1, <2>3, <2>4, <2>5, <2>6 DEF EarningsInv
<1>2. CASE (\E e \in Ends : EndBooking(e)) \/ FinalizeRefundedBooking
  BY <1>2, EventsKeep
<1>3. CASE RecordHeldSettlement
  BY <1>3, HeldKeeps
<1>4. CASE StartSettlementWindow \/ StartNoShowWindow
  BY <1>4, ServiceWindowsKeep
<1>5. CASE \E amount \in Amounts : PrepareSettlementRefund(amount) \/ ResolveWithRefund(amount)
  BY <1>5, RefundsKeep
<1>6. CASE FinalizeSettlementRefund
  BY <1>6, FinalizationKeeps
<1>7. CASE ReleaseSettlement
  BY <1>7, ReleaseKeeps
<1>8. CASE \/ RecordPendingCommission \/ RecordConfirmedCommission \/ ReverseCommission
           \/ ClawbackCommission \/ MarkCommissionPaid
  BY <1>8, CommissionKeeps
<1> QED
  BY <1>1, <1>2, <1>3, <1>4, <1>5, <1>6, <1>7, <1>8 DEF Next

(* The invariant holds in every state.                                     *)
LEMMA EarningsAlways == Spec => []EarningsInv
BY InitInv, NextKeeps, PTL DEF Spec

(* Rows and accounts keep their shape, whatever prices, rates and refunds. *)
THEOREM EarningsTypeCorrect == Spec => []TypeOK
<1>1. EarningsInv => TypeOK
  BY DEF EarningsInv
<1> QED
  BY <1>1, EarningsAlways, PTL

(* For every price, discount, rate, deposit and refund, and whenever the   *)
(* balance is captured, the accounts of a booking are what its settlement  *)
(* and its commission row say, but for the cash of a late balance.         *)
THEOREM LedgerAgreesWithRows == Spec => []LedgerMatchesRows
<1>1. EarningsInv => LedgerMatchesRows
  <2> SUFFICES ASSUME EarningsInv PROVE LedgerMatchesRows
    OBVIOUS
  <2>1. ASSUME settlement.status = "released", settlement.refunded = 0,
               commission.status \in {"confirmed", "paid"}
        PROVE  commission.amount = accounts["affiliate"]
    <3>1. /\ booking.affiliate /\ commission.amount = AffiliateCommission(booking.charges)
          /\ "completed" \in told
      BY <2>1 DEF EarningsInv, Earned
    <3>2. settlement.kind = "service_completed"
      <4>1. settlement.kind \in {"none", "service_completed", "customer_no_show", "cancellation_fee"}
        BY DEF EarningsInv, TypeOK, SettlementRow
      <4> QED
        BY <2>1, <3>1, <4>1 DEF EarningsInv, Lifecycle, Ends
    <3>3. /\ Less(booking.total + booking.charges, 0) = booking.total + booking.charges
          /\ Less(booking.final + booking.charges, 0) = booking.final + booking.charges
      <4>1. ASSUME NEW n \in Nat PROVE Less(n, 0) = n
        BY DEF Less
      <4>2. booking.total + booking.charges \in Nat /\ booking.final + booking.charges \in Nat
        BY Shapes DEF EarningsInv
      <4> QED
        BY <4>1, <4>2
    <3>4. ReleasedSplit(seen.booked) = ServiceSplit(booking.total + booking.charges,
                                         booking.final + booking.charges, booking.fundedBy)
      BY <2>1, <3>2, <3>3 DEF ReleasedSplit
    <3>5. booking.affiliate = TRUE
      BY <3>1, Shapes DEF EarningsInv
    <3>6. ReleasedSplit(seen.booked).affiliate = AffiliateCommission(booking.charges)
      BY <3>4, <3>5 DEF ServiceSplit, AffiliateCommission
    <3> QED
      BY <2>1, <3>1, <3>6 DEF EarningsInv, Booked, Lifecycle
  <2> QED
    BY <2>1 DEF EarningsInv, LedgerMatchesRows, Booked, Reversed
<1> QED
  BY <1>1, EarningsAlways, PTL
-----------------------------------------------------------------------------
(* The payable.  Its tax is computed again on what the refunds have left   *)
(* and rounded half up; the account has the assessment, rounded half up,   *)
(* less the part that a refund reversed, rounded down.                     *)

(* A tax and what is left of it are never apart by more than a dong, and   *)
(* never on the side that would pay the partner too little.                *)
LEMMA ReversalRounding ==
    ASSUME NEW basis \in Nat, basis > 0, NEW refunded \in 0..basis, NEW bps \in Nat
    PROVE  LET tax0 == PercentOfBps(basis, bps)
               back == Proportional(tax0, refunded, basis)
               tax1 == PercentOfBps(basis - refunded, bps)
           IN  tax0 - back \in tax1..(tax1 + 1)
<1> DEFINE tax0 == PercentOfBps(basis, bps)
           back == Proportional(tax0, refunded, basis)
           left == basis - refunded
           tax1 == PercentOfBps(left, bps)
           whole == basis * bps
           part == left * bps
<1>1. left \in Nat /\ left <= basis /\ refunded \in Nat /\ left + refunded = basis
  OBVIOUS
<1>2. whole \in Nat /\ part \in Nat
  BY <1>1
<1>3. tax0 \in Nat /\ 10000 * tax0 <= whole + 5000 /\ whole <= 10000 * tax0 + 4999
  <2> HIDE DEF whole
  <2>1. tax0 = (whole + 5000) \div 10000
    BY DEF PercentOfBps, whole
  <2> QED
    BY <1>2, <2>1
<1>4. tax1 \in Nat /\ 10000 * tax1 <= part + 5000 /\ part <= 10000 * tax1 + 4999
  <2> HIDE DEF part
  <2>1. tax1 = (part + 5000) \div 10000
    BY DEF PercentOfBps, part
  <2> QED
    BY <1>2, <2>1
<1> HIDE DEF tax0, tax1, left
<1>5. CASE left = 0
  <2>1. back = tax0
    BY <1>1, <1>5 DEF Proportional
  <2>2. part = 0
    BY <1>5
  <2>3. tax1 = 0
    <3> HIDE DEF part
    <3> QED
      BY <1>4, <2>2
  <2> QED
    BY <1>3, <2>1, <2>3 DEF tax0, tax1, left
<1>6. CASE left > 0
  <2> DEFINE moved == tax0 * refunded
             kept == tax0 * left
             all == basis * part
             rest == basis * (tax0 - back)
  <2>1. moved \in Nat /\ kept \in Nat /\ moved + kept = basis * tax0
    BY <1>1, <1>3
  <2>2. back = moved \div basis
    BY <1>1, <1>6 DEF Proportional
  <2>3. back \in Nat /\ basis * back <= moved /\ moved < basis * back + basis
    <3> HIDE DEF moved
    <3> QED
      BY <2>1, <2>2
  <2> HIDE DEF back
  <2>4. rest = basis * tax0 - basis * back
    BY <1>3, <2>3
  <2>5. kept <= rest /\ rest < kept + basis /\ rest \in Int
    <3> DEFINE x == basis * tax0
               y == basis * back
    <3>1. x \in Int /\ y \in Int
      BY <1>3, <2>3
    <3> HIDE DEF moved, kept, rest, x, y
    <3> QED
      BY <2>1, <2>3, <2>4, <3>1 DEF x, y
  <2>6. all = left * whole /\ all \in Nat
    BY <1>1, <1>2
  <2>7. 10000 * kept <= all + 5000 * left /\ all <= 10000 * kept + 4999 * left
    <3>1. left * (10000 * tax0) = 10000 * kept
      BY <1>1, <1>3
    <3>2. left * (10000 * tax0) <= left * (whole + 5000)
      <4> DEFINE x == 10000 * tax0
                 y == whole + 5000
      <4>1. x \in Int /\ y \in Int /\ x <= y
        BY <1>2, <1>3
      <4> HIDE DEF x, y
      <4>2. left * x <= left * y
        BY <1>1, <4>1
      <4> QED
        BY <4>2 DEF x, y
    <3>3. left * whole <= left * (10000 * tax0 + 4999)
      <4> DEFINE x == 10000 * tax0 + 4999
      <4>1. x \in Int /\ whole <= x
        BY <1>2, <1>3
      <4> HIDE DEF x, whole
      <4>2. left * whole <= left * x
        BY <1>1, <1>2, <4>1
      <4> QED
        BY <4>2 DEF x
    <3>4. /\ left * (whole + 5000) = left * whole + 5000 * left
          /\ left * (10000 * tax0 + 4999) = left * (10000 * tax0) + 4999 * left
      BY <1>1, <1>2, <1>3
    <3> DEFINE p == left * (10000 * tax0)
    <3>5. p \in Int /\ p = 10000 * kept
      BY <1>1, <1>3, <3>1
    <3> HIDE DEF kept, all, whole, p
    <3> QED
      BY <1>1, <1>2, <2>1, <2>6, <3>2, <3>3, <3>4, <3>5 DEF p
  <2>8. tax0 - back >= tax1
    <3> SUFFICES ASSUME tax0 - back <= tax1 - 1 PROVE FALSE
      BY <1>3, <1>4, <2>3
    <3>1. 10000 * (tax0 - back) <= part - 5000
      <4> HIDE DEF part
      <4> QED
        BY <1>2, <1>3, <1>4, <2>3
    <3>2. basis * (10000 * (tax0 - back)) <= basis * (part - 5000)
      <4> DEFINE x == 10000 * (tax0 - back)
                 y == part - 5000
      <4>1. x \in Int /\ y \in Int /\ x <= y
        BY <1>2, <1>3, <2>3, <3>1
      <4> HIDE DEF x, y
      <4>2. basis * x <= basis * y
        BY <4>1
      <4> QED
        BY <4>2 DEF x, y
    <3>3. /\ basis * (10000 * (tax0 - back)) = 10000 * rest
          /\ basis * (part - 5000) = all - 5000 * basis
      BY <1>2, <1>3, <2>3
    <3> HIDE DEF all, rest, kept
    <3> QED
      BY <1>1, <1>6, <2>1, <2>5, <2>6, <2>7, <3>2, <3>3
  <2>9. tax0 - back <= tax1 + 1
    <3> SUFFICES ASSUME tax0 - back >= tax1 + 2 PROVE FALSE
      BY <1>3, <1>4, <2>3
    <3>1. 10000 * (tax0 - back) >= part + 15001
      <4> HIDE DEF part
      <4> QED
        BY <1>2, <1>3, <1>4, <2>3
    <3>2. basis * (10000 * (tax0 - back)) >= basis * (part + 15001)
      <4> DEFINE x == 10000 * (tax0 - back)
                 y == part + 15001
      <4>1. x \in Int /\ y \in Int /\ x >= y
        BY <1>2, <1>3, <2>3, <3>1
      <4> HIDE DEF x, y
      <4>2. basis * x >= basis * y
        BY <4>1
      <4> QED
        BY <4>2 DEF x, y
    <3>3. /\ basis * (10000 * (tax0 - back)) = 10000 * rest
          /\ basis * (part + 15001) = all + 15001 * basis
      BY <1>2, <1>3, <2>3
    <3> HIDE DEF all, rest, kept
    <3> QED
      BY <1>1, <1>6, <2>1, <2>5, <2>6, <2>7, <3>2, <3>3
  <2> QED
    BY <1>3, <1>4, <2>3, <2>8, <2>9 DEF tax0, tax1, left, back
<1> QED
  BY <1>1, <1>5, <1>6

(* The taxes of a split are both those of its basis, or both dropped.      *)
TaxesOf(s, basis, rates) ==
    /\ basis \in Nat
    /\ \/ s.vat = 0 /\ s.pit = 0
       \/ /\ s.vat = PercentOfBps(basis, rates.vatHeld)
          /\ s.pit = PercentOfBps(basis, rates.pitHeld)
          /\ ~rates.house
    /\ Taxed(s) => basis > 0
LEMMA SplitTaxes ==
    ASSUME NEW total \in Nat, NEW final \in Nat,
           NEW fundedBy \in {"tenant", "partner", "nobody"},
           NEW affiliate \in BOOLEAN, NEW rates \in Rates
    PROVE  TaxesOf(CommissionSplit(total, final, fundedBy, affiliate, rates),
                   PartnerBasis(total, final, fundedBy), rates)
<1> DEFINE s == CommissionSplit(total, final, fundedBy, affiliate, rates)
           basis == PartnerBasis(total, final, fundedBy)
<1>1. basis \in Nat
  BY DEF PartnerBasis
<1>2. \/ s.vat = 0 /\ s.pit = 0
      \/ /\ s.vat = PercentOfBps(basis, rates.vatHeld)
         /\ s.pit = PercentOfBps(basis, rates.pitHeld)
         /\ ~rates.house
  BY DEF CommissionSplit
<1>3. ASSUME NEW bps \in Nat PROVE PercentOfBps(0, bps) = 0
  <2>1. 0 * bps = 0
    OBVIOUS
  <2> QED
    BY <2>1 DEF PercentOfBps
<1>4. rates.vatHeld \in Nat /\ rates.pitHeld \in Nat
  BY DEF Rates
<1> HIDE DEF s, basis
<1>5. Taxed(s) => basis > 0
  BY <1>1, <1>2, <1>3, <1>4 DEF Taxed
<1> QED
  BY <1>1, <1>2, <1>5 DEF s, basis, TaxesOf

(* The prices that the assessment split.                                   *)
ServiceKinds == {"service_completed", "customer_no_show"}
Terms == IF settlement.kind = "service_completed"
         THEN [total |-> booking.total + booking.charges,
               final |-> booking.final + booking.charges, fundedBy |-> booking.fundedBy]
         ELSE [total |-> seen.frozen, final |-> seen.frozen, fundedBy |-> "nobody"]
Basis == PartnerBasis(Terms.total, Terms.final, Terms.fundedBy)
FirstSplit == ServiceSplit(Terms.total, Terms.final, Terms.fundedBy)

(* What was assessed is the tax of the first split, which is of what was   *)
(* held when it was frozen, what is reversed its                           *)
(* part for the one refund that a dispute can grant, and what is released  *)
(* the payable of the last split.                                          *)
Withheld ==
    /\ settlement.held \in {booking.deposit, booking.final}
    /\ settlement.kind \in ServiceKinds => seen.frozen \in {booking.deposit, booking.final}
    /\ settlement.status = "released" =>
         settlement.payable = Payable(settlement.split, settlement.onsite)
    /\ settlement.kind \notin ServiceKinds =>
         tax.revenue = 0 /\ tax.vat = 0 /\ tax.pit = 0 /\ tax.revenueBack = 0
    /\ settlement.kind \in ServiceKinds =>
         /\ tax.vat = FirstSplit.vat /\ tax.pit = FirstSplit.pit
         /\ tax.revenue = IF Taxed(FirstSplit) THEN Basis ELSE 0
         /\ settlement.refunded \in Amounts \cup {0}
         /\ ~settlement.disputed => settlement.refunded = 0
         /\ settlement.refunded = 0 \/ settlement.status = "refund_pending" =>
              tax.revenueBack = 0 /\ tax.vatBack = 0 /\ tax.pitBack = 0
         /\ settlement.status \in {"dispute_window", "released"} =>
              LET target == Least(settlement.refunded, tax.revenue)
              IN  /\ tax.vatBack = Proportional(tax.vat, target, tax.revenue)
                  /\ tax.pitBack = Proportional(tax.pit, target, tax.revenue)

(* The prices of the first split are those of a booking, and enough of it. *)
InService == settlement.kind \in ServiceKinds
TermsFacts ==
    /\ Terms.total \in Nat /\ Terms.final \in Nat /\ Terms.final <= Terms.total
    /\ Terms.fundedBy \in {"tenant", "partner", "nobody"}
    /\ seen.frozen <= Terms.final
    /\ FirstSplit \in Split /\ Basis \in Nat
    /\ Terms.final <= Basis
    /\ booking.rates \in Rates /\ booking.affiliate \in BOOLEAN
    /\ booking.rates.house => ~Taxed(FirstSplit)
    /\ Taxed(FirstSplit) =>
         /\ Basis > 0
         /\ FirstSplit.vat = PercentOfBps(Basis, booking.rates.vatHeld)
         /\ FirstSplit.pit = PercentOfBps(Basis, booking.rates.pitHeld)
LEMMA TermsTyped == EarningsInv /\ InService => TermsFacts
<1> SUFFICES ASSUME EarningsInv, InService PROVE TermsFacts
  OBVIOUS
<1>1. TypeOK /\ settlement.held <= booking.final /\ seen.frozen <= settlement.held
  BY DEF EarningsInv, Lifecycle
<1>2. /\ booking.total \in Nat /\ booking.final \in Nat /\ booking.charges \in Nat
      /\ booking.final <= booking.total /\ settlement.held \in Nat /\ seen.frozen \in Nat
      /\ booking.fundedBy \in {"tenant", "partner", "nobody"}
      /\ booking.rates \in Rates /\ booking.affiliate \in BOOLEAN
  BY <1>1, Shapes
<1>3. /\ Terms.total \in Nat /\ Terms.final \in Nat /\ Terms.final <= Terms.total
      /\ Terms.fundedBy \in {"tenant", "partner", "nobody"} /\ seen.frozen <= Terms.final
  BY <1>1, <1>2 DEF Terms
<1>4. Basis \in Nat /\ Terms.final <= Basis
  BY <1>2, <1>3 DEF Basis, PartnerBasis
<1> DEFINE total == Terms.total
           final == Terms.final
           fundedBy == Terms.fundedBy
<1>5. total \in Nat /\ final \in Nat /\ fundedBy \in {"tenant", "partner", "nobody"}
  BY <1>3
<1>6. /\ FirstSplit = ServiceSplit(total, final, fundedBy)
      /\ FirstSplit = CommissionSplit(total, final, fundedBy, booking.affiliate, booking.rates)
      /\ Basis = PartnerBasis(total, final, fundedBy)
  BY DEF FirstSplit, ServiceSplit, Basis
<1> HIDE DEF total, final, fundedBy
<1>7. FirstSplit \in Split
  <2>1. ServiceSplit(total, final, fundedBy) \in Split
    BY <1>1, <1>5, ServiceSplitConserves
  <2> QED
    BY <1>6, <2>1
<1>8. /\ \/ FirstSplit.vat = 0 /\ FirstSplit.pit = 0
         \/ /\ FirstSplit.vat = PercentOfBps(Basis, booking.rates.vatHeld)
            /\ FirstSplit.pit = PercentOfBps(Basis, booking.rates.pitHeld)
            /\ ~booking.rates.house
      /\ Taxed(FirstSplit) => Basis > 0
  <2>1. TaxesOf(FirstSplit, Basis, booking.rates)
    BY <1>2, <1>5, <1>6, SplitTaxes
  <2> QED
    BY <2>1 DEF TaxesOf
<1> QED
  BY <1>2, <1>3, <1>4, <1>7, <1>8 DEF TermsFacts, Taxed

(* The same of the next state.                                             *)
LEMMA TermsTypedNext == EarningsInv' /\ InService' => TermsFacts'
BY TermsTyped, PTL

(* Steps that leave the settlement, its tax and the booking alone.         *)
LEMMA SettlementUntouched ==
    ASSUME Withheld, UNCHANGED <<booking, settlement, tax, seen>>
    PROVE  Withheld'
<1>1. FirstSplit' = FirstSplit /\ Basis' = Basis
  BY DEF FirstSplit, Basis, Terms, ServiceSplit
<1> QED
  BY <1>1 DEF Withheld

(* No refund reverses nothing.                                             *)
LEMMA PartOfNothing ==
    ASSUME NEW n \in Nat, NEW whole \in Nat, whole = 0 => n = 0
    PROVE  Proportional(n, Least(0, whole), whole) = 0
<1>1. n * 0 = 0
  OBVIOUS
<1> QED
  BY <1>1 DEF Proportional, Least

(* The end of the service assesses the tax of the first split.             *)
LEMMA AssessmentWithholds ==
    ASSUME EarningsInv, Withheld, settlement.status = "held", UNCHANGED booking,
           NEW kind \in ServiceKinds, NEW onsite,
           OpenWindow(kind, onsite, FirstSplit'),
           RecordSettlementWithholding(FirstSplit', Basis'),
           EarningsInv'
    PROVE  Withheld'
<1>1. /\ settlement \in SettlementRow /\ settlement.kind = "none" /\ settlement.refunded = 0
      /\ tax \in [revenue : Nat, vat : Nat, pit : Nat,
                  revenueBack : Nat, vatBack : Nat, pitBack : Nat]
      /\ tax.revenueBack = 0 /\ tax.vatBack = 0 /\ tax.pitBack = 0
  BY DEF EarningsInv, TypeOK, Lifecycle, Reversed
<1>2. tax.revenue = 0 /\ tax.vat = 0 /\ tax.pit = 0
  BY <1>1 DEF Withheld, ServiceKinds
<1>3. /\ settlement'.status = "dispute_window" /\ settlement'.kind = kind
      /\ settlement'.held = settlement.held /\ settlement'.refunded = 0
      /\ seen'.frozen = settlement.held
  BY <1>1 DEF OpenWindow, SettlementRow, EarningsInv, TypeOK
<1>4. /\ FirstSplit'.vat \in Nat /\ FirstSplit'.pit \in Nat /\ Basis' \in Nat
      /\ Taxed(FirstSplit') => Basis' > 0
  <2>1. InService'
    BY <1>3 DEF InService
  <2>2. FirstSplit' \in Split /\ Basis' \in Nat /\ (Taxed(FirstSplit') => Basis' > 0)
    BY <2>1, TermsTypedNext DEF TermsFacts, Taxed
  <2> QED
    BY <2>2 DEF Split
<1> DEFINE split == FirstSplit'
           basis == Basis'
<1> HIDE DEF split, basis
<1>5. /\ tax'.vat = split.vat /\ tax'.pit = split.pit
      /\ tax'.revenue = IF Taxed(split) THEN basis ELSE 0
      /\ tax'.revenueBack = 0 /\ tax'.vatBack = 0 /\ tax'.pitBack = 0
  <2>0. /\ split.vat \in Nat /\ split.pit \in Nat /\ basis \in Nat
        /\ Taxed(split) => basis > 0
        /\ RecordSettlementWithholding(split, basis)
    BY <1>4 DEF split, basis
  <2>1. CASE Taxed(split)
    <3>1. tax' = [tax EXCEPT !.revenue = basis, !.vat = split.vat, !.pit = split.pit]
      BY <2>0, <2>1 DEF RecordSettlementWithholding, Taxed
    <3> QED
      BY <1>1, <2>1, <3>1
  <2>2. CASE ~Taxed(split)
    <3>1. UNCHANGED tax
      BY <2>0, <2>2 DEF RecordSettlementWithholding, Taxed
    <3> QED
      BY <1>1, <1>2, <2>0, <2>2, <3>1 DEF Taxed
  <2> QED
    BY <2>1, <2>2
<1>7. LET target == Least(settlement'.refunded, tax'.revenue)
      IN  /\ tax'.vatBack = Proportional(tax'.vat, target, tax'.revenue)
          /\ tax'.pitBack = Proportional(tax'.pit, target, tax'.revenue)
  <2>1. /\ tax'.revenue \in Nat /\ tax'.vat \in Nat /\ tax'.pit \in Nat
        /\ tax'.revenue = 0 => tax'.vat = 0 /\ tax'.pit = 0
    BY <1>4, <1>5 DEF split, basis, Taxed
  <2> QED
    BY <1>3, <1>5, <2>1, PartOfNothing
<1> QED
  BY <1>3, <1>5, <1>7 DEF Withheld, split, basis

(* Both ends of a service assess the prices that they say.                 *)
LEMMA WindowsWithhold ==
    ASSUME EarningsInv, Withheld, EarningsInv', StartSettlementWindow \/ StartNoShowWindow
    PROVE  Withheld'
<1>1. settlement \in SettlementRow /\ settlement.status = "held"
  BY DEF EarningsInv, TypeOK, StartSettlementWindow, StartNoShowWindow
<1>2. CASE StartSettlementWindow
  <2>1. /\ settlement'.kind = "service_completed" /\ booking' = booking
    BY <1>1, <1>2 DEF StartSettlementWindow, OpenWindow, SettlementRow
  <2>2. /\ FirstSplit' = ServiceSplit(booking.total + booking.charges,
                                      booking.final + booking.charges, booking.fundedBy)
        /\ Basis' = PartnerBasis(booking.total + booking.charges,
                                 booking.final + booking.charges, booking.fundedBy)
    BY <2>1 DEF FirstSplit, Basis, Terms, ServiceSplit
  <2> DEFINE onsite == Less(booking.final + booking.charges, settlement.held)
  <2>3. /\ OpenWindow("service_completed", onsite, FirstSplit')
        /\ RecordSettlementWithholding(FirstSplit', Basis')
    BY <1>2, <2>2 DEF StartSettlementWindow
  <2> HIDE DEF onsite
  <2> QED
    BY <1>1, <2>1, <2>3, AssessmentWithholds DEF ServiceKinds
<1>3. CASE StartNoShowWindow
  <2>1. /\ settlement'.kind = "customer_no_show" /\ booking' = booking
        /\ seen'.frozen = settlement.held
    BY <1>1, <1>3 DEF StartNoShowWindow, OpenWindow, SettlementRow, EarningsInv, TypeOK
  <2>2. /\ FirstSplit' = ServiceSplit(settlement.held, settlement.held, "nobody")
        /\ Basis' = settlement.held
    BY <2>1 DEF FirstSplit, Basis, Terms, ServiceSplit, PartnerBasis
  <2>3. /\ OpenWindow("customer_no_show", 0, FirstSplit')
        /\ RecordSettlementWithholding(FirstSplit', Basis')
    BY <1>3, <2>2 DEF StartNoShowWindow
  <2> QED
    BY <1>1, <2>1, <2>3, AssessmentWithholds DEF ServiceKinds
<1> QED
  BY <1>2, <1>3

(* A cancellation assesses nothing, and a dispute is granted before any    *)
(* tax was reversed.                                                       *)
LEMMA PreparationsWithhold ==
    ASSUME EarningsInv, Withheld, NEW amount \in Amounts,
           PrepareSettlementRefund(amount) \/ ResolveWithRefund(amount)
    PROVE  Withheld'
<1>1. /\ settlement \in SettlementRow /\ UNCHANGED <<booking, tax>> /\ amount \in Nat
      /\ settlement.status = "held" <=> settlement.kind = "none"
  BY EarningsAssumption
     DEF EarningsInv, TypeOK, Lifecycle, PrepareSettlementRefund, ResolveWithRefund
<1>2. CASE PrepareSettlementRefund(amount)
  <2>1. /\ settlement.kind = "none" /\ settlement'.kind = "cancellation_fee"
        /\ settlement'.held = settlement.held
        /\ settlement'.status \in {"refund_pending", "dispute_window"}
    BY <1>1, <1>2 DEF PrepareSettlementRefund, RefundPrepared, OpenWindow, SettlementRow
  <2> QED
    BY <1>1, <2>1 DEF Withheld, ServiceKinds
<1>3. CASE ResolveWithRefund(amount)
  <2>1. /\ settlement.status = "dispute_window" /\ ~settlement.disputed
        /\ settlement'.status = "refund_pending" /\ settlement'.kind = settlement.kind
        /\ settlement'.held = settlement.held /\ settlement'.disputed
        /\ settlement'.refunded = settlement.refunded + amount /\ UNCHANGED seen
    BY <1>1, <1>3 DEF ResolveWithRefund, RefundPrepared, SettlementRow
  <2>2. CASE settlement.kind \in ServiceKinds
    <3>1. settlement.refunded = 0 /\ settlement'.refunded = amount
      BY <1>1, <2>1, <2>2 DEF Withheld
    <3>2. FirstSplit' = FirstSplit /\ Basis' = Basis
      BY <1>1, <2>1 DEF FirstSplit, Basis, Terms, ServiceSplit
    <3> QED
      BY <1>1, <2>1, <2>2, <3>1, <3>2 DEF Withheld
  <2>3. CASE settlement.kind \notin ServiceKinds
    BY <1>1, <2>1, <2>3 DEF Withheld
  <2> QED
    BY <2>2, <2>3
<1> QED
  BY <1>2, <1>3

(* A paid refund reverses its part of an assessment that was whole.        *)
LEMMA FinalizationWithholds ==
    ASSUME EarningsInv, Withheld, FinalizeSettlementRefund
    PROVE  Withheld'
<1> DEFINE target == Least(settlement.refunded, tax.revenue)
           vat == Proportional(tax.vat, target, tax.revenue)
           pit == Proportional(tax.pit, target, tax.revenue)
           Taxes == [revenue : Nat, vat : Nat, pit : Nat,
                     revenueBack : Nat, vatBack : Nat, pitBack : Nat]
<1>1. /\ settlement \in SettlementRow /\ settlement.status = "refund_pending"
      /\ tax \in Taxes /\ UNCHANGED booking
      /\ RecordWithholdingReversal(settlement.refunded)
  BY DEF EarningsInv, TypeOK, FinalizeSettlementRefund
<1>2. /\ settlement'.status \in {"refunded", "dispute_window"}
      /\ settlement'.kind = settlement.kind /\ settlement'.held = settlement.held
      /\ settlement'.refunded = settlement.refunded
      /\ settlement'.disputed = settlement.disputed
      /\ settlement.kind \in ServiceKinds => UNCHANGED seen
  BY <1>1 DEF FinalizeSettlementRefund, SettlementRow, ServiceKinds
<1>3. /\ tax.revenue \in Nat /\ tax.vat \in Nat /\ tax.pit \in Nat
      /\ settlement.refunded \in Nat /\ target \in Nat
  BY <1>1 DEF SettlementRow, Least
<1>4. CASE settlement.kind \notin ServiceKinds
  <2>1. tax.revenue = 0 /\ tax.revenueBack = 0
    BY <1>4 DEF Withheld
  <2>2. UNCHANGED tax
    BY <1>1, <1>3, <2>1 DEF RecordWithholdingReversal, Least
  <2> QED
    BY <1>1, <1>2, <1>4, <2>2 DEF Withheld
<1>5. CASE settlement.kind \in ServiceKinds
  <2>1. tax.revenueBack = 0 /\ tax.vatBack = 0 /\ tax.pitBack = 0
    BY <1>1, <1>5 DEF Withheld
  <2>2. tax.revenue = 0 => tax.vat = 0 /\ tax.pit = 0
    <3>1. TermsFacts
      BY <1>5, TermsTyped DEF InService
    <3>2. FirstSplit.vat \in Nat /\ FirstSplit.pit \in Nat
      BY <3>1 DEF TermsFacts, Split
    <3> QED
      BY <1>5, <3>1, <3>2 DEF Withheld, TermsFacts, Taxed
  <2>3. vat \in Nat /\ pit \in Nat
    <3> HIDE DEF target
    <3> QED
      BY <1>3, ProportionalWithin
  <2>4. /\ settlement.refunded = 0 => vat = 0 /\ pit = 0
        /\ target = 0 => vat = 0 /\ pit = 0
    <3>1. Proportional(tax.vat, Least(0, tax.revenue), tax.revenue) = 0
      BY <1>3, <2>2, PartOfNothing
    <3>2. Proportional(tax.pit, Least(0, tax.revenue), tax.revenue) = 0
      BY <1>3, <2>2, PartOfNothing
    <3>3. Least(0, tax.revenue) = 0 /\ (settlement.refunded = 0 => target = 0)
      BY <1>3 DEF Least
    <3> QED
      BY <3>1, <3>2, <3>3
  <2>5. IF target > 0 /\ (vat > 0 \/ pit > 0)
        THEN tax' = [tax EXCEPT !.revenueBack = target, !.vatBack = vat, !.pitBack = pit]
        ELSE UNCHANGED tax
    <3>1. /\ vat - 0 = vat /\ pit - 0 = pit /\ 0 + vat = vat /\ 0 + pit = pit
      <4> HIDE DEF vat, pit
      <4> QED
        BY <2>3
    <3>2. IF target > tax.revenueBack /\ (vat - tax.vatBack > 0 \/ pit - tax.pitBack > 0)
          THEN tax' = [tax EXCEPT !.revenueBack = target,
                                  !.vatBack = tax.vatBack + (vat - tax.vatBack),
                                  !.pitBack = tax.pitBack + (pit - tax.pitBack)]
          ELSE UNCHANGED tax
      BY <1>1 DEF RecordWithholdingReversal
    <3> HIDE DEF target, vat, pit
    <3> QED
      BY <2>1, <3>1, <3>2
  <2> HIDE DEF target, vat, pit
  <2>6. /\ tax'.revenue = tax.revenue /\ tax'.vat = tax.vat /\ tax'.pit = tax.pit
        /\ tax'.vatBack = vat /\ tax'.pitBack = pit
        /\ settlement.refunded = 0 =>
             tax'.revenueBack = 0 /\ tax'.vatBack = 0 /\ tax'.pitBack = 0
    <3>1. CASE target > 0 /\ (vat > 0 \/ pit > 0)
      <4>1. tax' = [tax EXCEPT !.revenueBack = target, !.vatBack = vat, !.pitBack = pit]
        BY <2>5, <3>1
      <4> QED
        BY <1>1, <2>3, <2>4, <3>1, <4>1
    <3>2. CASE ~(target > 0 /\ (vat > 0 \/ pit > 0))
      <4>1. UNCHANGED tax
        BY <2>5, <3>2
      <4>2. vat = 0 /\ pit = 0
        BY <1>3, <2>3, <2>4, <3>2
      <4> QED
        BY <2>1, <4>1, <4>2
    <3> QED
      BY <3>1, <3>2
  <2>7. FirstSplit' = FirstSplit /\ Basis' = Basis
    BY <1>1, <1>2, <1>5 DEF FirstSplit, Basis, Terms, ServiceSplit
  <2>8. LET next == Least(settlement'.refunded, tax'.revenue)
        IN  /\ tax'.vatBack = Proportional(tax'.vat, next, tax'.revenue)
            /\ tax'.pitBack = Proportional(tax'.pit, next, tax'.revenue)
    BY <1>2, <2>6 DEF vat, pit, target
  <2> QED
    BY <1>1, <1>2, <1>5, <2>6, <2>7, <2>8 DEF Withheld
<1> QED
  BY <1>4, <1>5

(* The release computes the payable from the split that it stores.         *)
LEMMA ReleaseWithholds ==
    ASSUME EarningsInv, Withheld, ReleaseSettlement
    PROVE  Withheld'
<1>1. settlement \in SettlementRow
  BY DEF EarningsInv, TypeOK
<1> DEFINE split == ReleasedSplit(settlement.held)
<1>2. /\ settlement.status = "dispute_window"
      /\ settlement' = [settlement EXCEPT !.status = "released", !.split = split,
                           !.payable = Payable(split, settlement.onsite)]
      /\ UNCHANGED <<booking, tax>> /\ seen'.frozen = seen.frozen
  BY DEF ReleaseSettlement, EarningsInv, TypeOK
<1> HIDE DEF split
<1>3. /\ settlement'.status = "released" /\ settlement'.kind = settlement.kind
      /\ settlement'.held = settlement.held /\ settlement'.refunded = settlement.refunded
      /\ settlement'.disputed = settlement.disputed /\ settlement'.onsite = settlement.onsite
      /\ settlement'.split = split /\ settlement'.payable = Payable(split, settlement.onsite)
  BY <1>1, <1>2 DEF SettlementRow
<1>4. FirstSplit' = FirstSplit /\ Basis' = Basis
  BY <1>2, <1>3 DEF FirstSplit, Basis, Terms, ServiceSplit
<1> QED
  BY <1>2, <1>3, <1>4 DEF Withheld, Payable

(* Every step keeps what was withheld.                                     *)
LEMMA NextWithholds == EarningsInv /\ Withheld /\ [Next]_vars => Withheld'
<1> SUFFICES ASSUME EarningsInv, Withheld, [Next]_vars PROVE Withheld'
  OBVIOUS
<1>1. EarningsInv'
  BY NextKeeps
<1>2. CASE UNCHANGED vars
  BY <1>2, SettlementUntouched DEF vars
<1>3. CASE (\E e \in Ends : EndBooking(e)) \/ FinalizeRefundedBooking
  BY <1>3, SettlementUntouched DEF EndBooking, FinalizeRefundedBooking
<1>4. CASE RecordHeldSettlement
  <2>1. settlement \in SettlementRow
    BY DEF EarningsInv, TypeOK
  <2>2. /\ settlement' = [settlement EXCEPT !.held = booking.final]
        /\ settlement'.held = booking.final /\ UNCHANGED <<booking, tax, seen>>
        /\ settlement'.status = settlement.status /\ settlement'.kind = settlement.kind
        /\ settlement'.refunded = settlement.refunded /\ settlement'.split = settlement.split
        /\ settlement'.disputed = settlement.disputed /\ settlement'.onsite = settlement.onsite
        /\ settlement'.payable = settlement.payable
    BY <1>4, <2>1 DEF RecordHeldSettlement, SettlementRow
  <2>3. FirstSplit' = FirstSplit /\ Basis' = Basis
    BY <2>2 DEF FirstSplit, Basis, Terms, ServiceSplit
  <2> QED
    BY <2>2, <2>3 DEF Withheld, Payable
<1>5. CASE StartSettlementWindow \/ StartNoShowWindow
  BY <1>1, <1>5, WindowsWithhold
<1>6. CASE \E amount \in Amounts : PrepareSettlementRefund(amount) \/ ResolveWithRefund(amount)
  BY <1>6, PreparationsWithhold
<1>7. CASE FinalizeSettlementRefund
  BY <1>7, FinalizationWithholds
<1>8. CASE ReleaseSettlement
  BY <1>8, ReleaseWithholds
<1>9. CASE \/ RecordPendingCommission \/ RecordConfirmedCommission \/ ReverseCommission
           \/ ClawbackCommission \/ MarkCommissionPaid
  <2>1. UNCHANGED <<booking, settlement, tax, seen>>
    BY <1>9 DEF RecordPendingCommission, RecordConfirmedCommission, ReverseCommission,
                ClawbackCommission, MarkCommissionPaid, SetCommission
  <2> QED
    BY <2>1, SettlementUntouched
<1> QED
  BY <1>2, <1>3, <1>4, <1>5, <1>6, <1>7, <1>8, <1>9 DEF Next

(* What was withheld is known in every state.                              *)
LEMMA WithheldAlways == Spec => []Withheld
<1>1. Init => Withheld
  BY DEF Init, Withheld, ServiceKinds
<1> QED
  BY <1>1, EarningsAlways, NextWithholds, PTL DEF Spec

(* The position of the taxes of a service is that of its reduced split.    *)
LEMMA TaxesLeft ==
    ASSUME TaxesStayDropped, EarningsInv, Withheld, InService,
           settlement.status = "released",
           settlement.kind = "customer_no_show" => seen.booked = seen.frozen
    PROVE  LET s == ReleasedSplit(seen.booked)
           IN  /\ TaxPosition \in Int /\ s.vat \in Nat /\ s.pit \in Nat
               /\ TaxPosition >= s.vat + s.pit
               /\ s.vat + s.pit > 0 => TaxPosition <= s.vat + s.pit + 2
               /\ tax.revenue = 0 => TaxPosition = 0
               /\ booking.rates.house => TaxPosition = 0
<1> DEFINE s == ReleasedSplit(seen.booked)
           r == settlement.refunded
           total == Terms.total
           final == Terms.final
           fundedBy == Terms.fundedBy
           rates == booking.rates
<1>1. /\ tax.revenue \in Nat /\ tax.vat \in Nat /\ tax.pit \in Nat /\ r \in Nat
      /\ tax.vatBack \in Nat /\ tax.pitBack \in Nat /\ r <= settlement.held
      /\ tax.vatBack <= tax.vat /\ tax.pitBack <= tax.pit /\ settlement.held \in Nat
      /\ seen.frozen \in Nat /\ r <= seen.booked
      /\ settlement.held <= booking.final /\ booking.final \in Nat /\ booking.charges \in Nat
  BY Shapes DEF EarningsInv, Lifecycle, Reversed
<1>2. TaxPosition \in Nat /\ (tax.vat = 0 /\ tax.pit = 0 => TaxPosition = 0)
  BY <1>1 DEF TaxPosition
<1>3. TermsFacts
  BY TermsTyped
<1>4. /\ total \in Nat /\ final \in Nat /\ fundedBy \in {"tenant", "partner", "nobody"}
      /\ r <= final /\ r <= total /\ Basis \in Nat /\ r <= Basis
      /\ rates \in Rates /\ booking.affiliate \in BOOLEAN
      /\ FirstSplit \in Split
  <2>1. r <= Terms.final
    BY <1>1, <1>3 DEF Terms, InService, ServiceKinds, TermsFacts
  <2> QED
    BY <1>1, <1>3, <2>1 DEF TermsFacts
<1>5. /\ FirstSplit = CommissionSplit(total, final, fundedBy, booking.affiliate, rates)
      /\ Basis = PartnerBasis(total, final, fundedBy)
  BY DEF FirstSplit, ServiceSplit, Basis
<1>6. s = CommissionSplit(total - r, final - r, fundedBy, booking.affiliate, rates)
  <2>1. ASSUME NEW n \in Nat, r <= n PROVE Less(n, r) = n - r
    BY <1>1, <2>1 DEF Less
  <2>2. CASE settlement.kind = "service_completed"
    <3>1. /\ total = booking.total + booking.charges /\ final = booking.final + booking.charges
          /\ fundedBy = booking.fundedBy
      BY <2>2 DEF Terms
    <3>2. s = ServiceSplit(Less(total, r), Less(final, r), fundedBy)
      BY <2>2, <3>1 DEF ReleasedSplit
    <3> HIDE DEF total, final
    <3>3. Less(total, r) = total - r /\ Less(final, r) = final - r
      BY <1>4, <2>1
    <3> QED
      BY <3>2, <3>3 DEF ServiceSplit
  <2>3. CASE settlement.kind = "customer_no_show"
    BY <2>3 DEF Terms, ReleasedSplit, ServiceSplit
  <2> QED
    BY <2>2, <2>3 DEF InService, ServiceKinds
<1>7. TaxStaysDropped(booking, total, final, fundedBy)
  <2>1. booking \in Bookings
    BY DEF EarningsInv, TypeOK
  <2>2. seen.frozen \in {booking.deposit, booking.final}
    BY DEF Withheld, InService
  <2> QED
    BY <2>1, <2>2 DEF TaxesStayDropped, Terms, InService, ServiceKinds
<1>8. /\ tax.vat = FirstSplit.vat /\ tax.pit = FirstSplit.pit
      /\ tax.revenue = IF Taxed(FirstSplit) THEN Basis ELSE 0
      /\ r \in Amounts \cup {0}
      /\ tax.vatBack = Proportional(tax.vat, Least(r, tax.revenue), tax.revenue)
      /\ tax.pitBack = Proportional(tax.pit, Least(r, tax.revenue), tax.revenue)
  BY DEF Withheld, InService
<1> HIDE DEF s, r, total, final, fundedBy, rates
<1>9. PartnerBasis(total - r, final - r, fundedBy) = Basis - r
  BY <1>5 DEF PartnerBasis
<1>10. /\ s.vat \in Nat /\ s.pit \in Nat
       /\ Taxed(s) => /\ s.vat = PercentOfBps(Basis - r, rates.vatHeld)
                      /\ s.pit = PercentOfBps(Basis - r, rates.pitHeld)
  <2> DEFINE t == total - r
             f == final - r
  <2>1. t \in Nat /\ f \in Nat
    BY <1>1, <1>4 DEF r
  <2>2. s = CommissionSplit(t, f, fundedBy, booking.affiliate, rates)
    BY <1>6
  <2>3. PartnerBasis(t, f, fundedBy) = Basis - r
    BY <1>9
  <2> HIDE DEF t, f
  <2>4. s \in Split
    BY <1>4, <2>1, <2>2, SplitConserves
  <2>5. \/ s.vat = 0 /\ s.pit = 0
        \/ /\ s.vat = PercentOfBps(Basis - r, rates.vatHeld)
           /\ s.pit = PercentOfBps(Basis - r, rates.pitHeld)
    <3>1. TaxesOf(s, Basis - r, rates)
      BY <1>4, <2>1, <2>2, <2>3, SplitTaxes
    <3> QED
      BY <3>1 DEF TaxesOf
  <2> QED
    BY <2>4, <2>5 DEF Split, Taxed
<1>11. Taxed(s) => Taxed(FirstSplit)
  <2>1. CASE r \in Amounts
    BY <1>4, <1>5, <1>6, <1>7, <2>1 DEF TaxStaysDropped, rates
  <2>2. CASE r = 0
    <3>1. total - r = total /\ final - r = final
      BY <1>4, <2>2
    <3> QED
      BY <1>5, <1>6, <3>1
  <2> QED
    BY <1>8, <2>1, <2>2
<1>12. CASE Taxed(s)
  <2>1. /\ Basis > 0 /\ tax.revenue = Basis
        /\ tax.vat = PercentOfBps(Basis, rates.vatHeld)
        /\ tax.pit = PercentOfBps(Basis, rates.pitHeld)
    BY <1>3, <1>8, <1>11, <1>12 DEF TermsFacts, rates
  <2>2. Least(r, tax.revenue) = r /\ r \in 0..Basis
    BY <1>1, <1>4, <2>1 DEF Least, r
  <2>3. rates.vatHeld \in Nat /\ rates.pitHeld \in Nat
    BY <1>4 DEF Rates
  <2>4. tax.vat - tax.vatBack \in s.vat..(s.vat + 1)
    BY <1>4, <1>8, <1>10, <1>12, <2>1, <2>2, <2>3, ReversalRounding
  <2>5. tax.pit - tax.pitBack \in s.pit..(s.pit + 1)
    BY <1>4, <1>8, <1>10, <1>12, <2>1, <2>2, <2>3, ReversalRounding
  <2>6. TaxPosition >= s.vat + s.pit /\ TaxPosition <= s.vat + s.pit + 2
    BY <1>1, <1>10, <2>4, <2>5 DEF TaxPosition
  <2>7. ~rates.house /\ tax.revenue # 0
    BY <1>3, <1>11, <1>12, <2>1 DEF TermsFacts, rates
  <2> QED
    BY <1>2, <1>10, <2>6, <2>7 DEF s, rates
<1>13. CASE ~Taxed(s)
  <2>1. s.vat = 0 /\ s.pit = 0
    BY <1>10, <1>13 DEF Taxed
  <2>2. ASSUME ~Taxed(FirstSplit) PROVE tax.vat = 0 /\ tax.pit = 0
    BY <1>4, <1>8, <2>2 DEF Split, Taxed
  <2>3. tax.revenue = 0 \/ rates.house => ~Taxed(FirstSplit)
    BY <1>3, <1>8 DEF TermsFacts, rates
  <2> QED
    BY <1>2, <2>1, <2>2, <2>3 DEF s, rates
<1> QED
  BY <1>12, <1>13

(* What a booking left on the partner's account is never above its         *)
(* released payable and its late balance, and below them by what rounding  *)
(* can explain, for every price, rate, discount and refund by which a      *)
(* dropped tax stays dropped.                                              *)
THEOREM PayablesAreBacked == TaxesStayDropped => (Spec => []PayableIsBacked)
<1> SUFFICES ASSUME TaxesStayDropped PROVE Spec => []PayableIsBacked
  OBVIOUS
<1>1. EarningsInv /\ Withheld => PayableIsBacked
  <2> SUFFICES ASSUME EarningsInv, Withheld, settlement.status = "released",
                      settlement.kind = "customer_no_show" => seen.booked = seen.frozen
               PROVE  LET gap == settlement.payable + LateBalance - accounts["partner"]
                      IN  /\ gap >= 0
                          /\ settlement.payable > 0
                             /\ (settlement.split.vat + settlement.split.pit > 0
                                 \/ tax.revenue = 0)
                             => gap <= 2
    BY DEF PayableIsBacked
  <2> DEFINE s == settlement.split
             onsite == settlement.onsite
             taxes == TaxPosition
             house == booking.rates.house
             late == LateBalance
  <2>1. /\ s = ReleasedSplit(seen.booked) /\ settlement.payable = Payable(s, onsite)
        /\ settlement.kind \in {"service_completed", "customer_no_show", "cancellation_fee"}
        /\ onsite \in Nat /\ house \in BOOLEAN /\ s \in Split
        /\ seen.booked \in Nat /\ settlement.refunded <= seen.booked
        /\ late \in Int /\ (house \/ settlement.kind # "service_completed" => late = 0)
        /\ settlement.kind = "cancellation_fee" => onsite = 0
        /\ accounts["partner"] = s.share - (IF house THEN 0 ELSE onsite - late) - taxes
    <3>1. settlement \in SettlementRow
      BY DEF EarningsInv, TypeOK
    <3>2. late \in Int /\ (house \/ settlement.kind # "service_completed" => late = 0)
      BY Shapes DEF EarningsInv, LateBalance
    <3>3. accounts["partner"] = s.share - (IF house THEN 0 ELSE onsite - late) - taxes
      BY Shapes DEF EarningsInv, Booked
    <3> QED
      BY <3>1, <3>2, <3>3, Shapes DEF EarningsInv, Lifecycle, Withheld, SettlementRow
  <2>2. s.share \in Nat /\ s.vat \in Nat /\ s.pit \in Nat
    BY <2>1 DEF Split
  <2>3. /\ settlement.kind # "cancellation_fee" /\ house => s.share = 0
        /\ settlement.kind = "cancellation_fee" => s.share = 0
    <3>1. settlement.kind = "cancellation_fee" => s = SplitOfFee(Retained)
      BY <2>1, ReleasedSplitConserves DEF EarningsInv
    <3>2. settlement.kind # "cancellation_fee" /\ house => s.share = 0
      BY <2>1, ReleasedSplitConserves DEF EarningsInv
    <3> QED
      BY <3>1, <3>2 DEF SplitOfFee, NoSplit
  <2>4. CASE settlement.kind = "cancellation_fee"
    <3>1. taxes = 0
      <4>1. tax.vat = 0 /\ tax.pit = 0
        BY <2>4 DEF Withheld, ServiceKinds
      <4> QED
        BY <4>1, Shapes DEF EarningsInv, Reversed, TaxPosition
    <3> HIDE DEF s, onsite, taxes, house, late
    <3> QED
      BY <2>1, <2>2, <2>3, <2>4, <3>1 DEF Payable, Less, late
  <2>5. CASE settlement.kind # "cancellation_fee"
    <3>1. InService
      BY <2>1, <2>5 DEF InService, ServiceKinds
    <3>2. /\ taxes \in Int /\ taxes >= s.vat + s.pit
          /\ s.vat + s.pit > 0 => taxes <= s.vat + s.pit + 2
          /\ tax.revenue = 0 => taxes = 0
          /\ house => taxes = 0
      BY <2>1, <3>1, TaxesLeft
    <3>3. Payable(s, onsite) = Less(s.share, onsite + s.vat + s.pit)
      BY DEF Payable
    <3> HIDE DEF s, onsite, taxes, house, late
    <3> DEFINE gap == settlement.payable + late - accounts["partner"]
    <3>4. gap >= 0 /\ (settlement.payable > 0 /\ (s.vat + s.pit > 0 \/ tax.revenue = 0) => gap <= 2)
      BY <2>1, <2>2, <2>3, <2>5, <3>2, <3>3 DEF Less
    <3> QED
      BY <3>4 DEF s, late
  <2> QED
    BY <2>4, <2>5
<1> QED
  BY <1>1, EarningsAlways, WithheldAlways, PTL
=============================================================================
