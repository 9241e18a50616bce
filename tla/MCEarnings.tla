---------------------------- MODULE MCEarnings ----------------------------
(* Prices that do not divide evenly, every kind of seller and of discount. *)
EXTENDS Earnings

Percent == [tenantType |-> "percent", tenant |-> 1500, platform |-> 200,
            affiliateType |-> "percent", affiliate |-> 500, house |-> FALSE,
            method |-> "deduction", vat |-> 800, vatHeld |-> 0, pitHeld |-> 0]
Household == [Percent EXCEPT !.method = "percentage", !.vat = 500,
                             !.vatHeld = 500, !.pitHeld = 200]
FixedFee == [Household EXCEPT !.tenantType = "fixed", !.tenant = 280,
                              !.affiliateType = "fixed", !.affiliate = 30]
House == [Percent EXCEPT !.house = TRUE]

MCBookings ==
    {[total |-> t, final |-> t - d.amount, charges |-> c, deposit |-> dep,
      fundedBy |-> d.by, affiliate |-> a, rates |-> r] :
        t \in {333, 1009}, c \in {0, 47}, dep \in {100, 273}, a \in BOOLEAN,
        d \in {[by |-> "nobody", amount |-> 0], [by |-> "tenant", amount |-> 60],
               [by |-> "partner", amount |-> 60]},
        r \in {Percent, Household, FixedFee, House}}
MCAmounts == {0, 7, 61, 99, 100, 172, 273, 333, 949, 1009}

(* The rates of these bookings satisfy the hypothesis of the theorem.      *)
ASSUME MCTaxesStayDropped == TaxesStayDropped
===========================================================================
