----------------------------- MODULE Promotions -----------------------------
(***************************************************************************)
(* Bookings that are bought with a promotion of limited use.  A use is     *)
(* claimed in the transaction that creates the booking, and claimed again  *)
(* in the one that restores it after it expired; it is applied or returned *)
(* by handlers of the booking's events, which come in any order and more   *)
(* than once.                                                              *)
(*                                                                         *)
(* Of the two reservations only the first can insert the redemption:       *)
(* promo_redemptions.booking_id is unique and a returned use keeps its row.*)
(***************************************************************************)
EXTENDS BookingSlots

CONSTANT Limit  \* usage_limit_total of the promotion

ASSUME PromotionAssumption == Limit \in Nat /\ IsFiniteSet(Bookings)

VARIABLES
    offer,       \* status of the promotion
    redeemed,    \* its redeemed_count
    redemptions, \* the redemption row of each booking, "none" without one
    announced    \* events of each booking that promotions handle

promotionVars == <<offer, redeemed, redemptions, announced>>
allVars == <<vars, promotionVars>>

Live == {"reserved", "applied"}
Kinds == {"confirmed", "expired", "rejected", "cancelled"}

Announce(b, kind) == announced' = [announced EXCEPT ![b] = @ \cup {kind}]
Tell(b, kind) == Announce(b, kind) /\ UNCHANGED <<offer, redeemed, redemptions>>

-----------------------------------------------------------------------------
(* The promotion.  It may be ended at any time; pausing and editing it are *)
(* left out, they only change who may claim next.                          *)

EndPromotion ==
    /\ offer # "ended"
    /\ offer' = "ended"
    /\ UNCHANGED <<vars, redeemed, redemptions, announced>>

(* The guard of the UPDATE that counts the use.                            *)
Claimable == offer = "active" /\ redeemed < Limit

-----------------------------------------------------------------------------
(* Steps of a booking, with what they claim and tell.                      *)

BookWithPromotion(b) ==
    /\ CreateBooking(b)
    /\ Claimable
    /\ redeemed' = redeemed + 1
    /\ redemptions' = [redemptions EXCEPT ![b] = "reserved"]
    /\ UNCHANGED <<offer, announced>>

BookWithoutPromotion(b) == CreateBooking(b) /\ UNCHANGED promotionVars

RejectAndTell(b) == RejectBooking(b) /\ Tell(b, "rejected")

\* Mutant: the row's verdict is told although the booking has moved on.
SweepAndAlwaysTell(b, to) == SweepRow(b, to) /\ Tell(b, to)
SweepAndTell(b, to) ==
    /\ SweepRow(b, to)
    /\ IF <<bookings[b].status, to>> \in SystemEdges THEN Tell(b, to)
       ELSE UNCHANGED promotionVars

(* Only a full refund returns the use; the handler ignores other events.   *)
CancelAndTell(b) == CancelBooking(b) /\ (Tell(b, "cancelled") \/ UNCHANGED promotionVars)

(* A restored booking reserves again.  When the claim is refused it is     *)
(* confirmed without; when it is granted, the insert meets the old row.    *)
ReservesAgain(t) == t.from = "expired" /\ redemptions[t.booking] # "none"

ConfirmAndTell(w) ==
    /\ Confirm(w) /\ ~(ReservesAgain(txs[w]) /\ Claimable)
    /\ Tell(txs[w].booking, "confirmed")

(* The unique index refuses the row: not PROMO_LIMIT_REACHED, so the       *)
(* transaction is lost and the event stays for a retry.                    *)
RestoreFails(w) ==
    LET t == txs[w]
    IN  /\ t.op = "confirm" /\ UnchangedSince(t) /\ (Inventory \/ Rivals(t.booking) = {})
        /\ ReservesAgain(t) /\ Claimable
        /\ txs' = [txs EXCEPT ![w] = Idle]
        /\ UNCHANGED <<bookings, payments, events, deadLetters, rows, promotionVars>>

AutoRefundAndTell(w) ==
    /\ AutoRefund(w)
    /\ IF bookings[txs[w].booking].status = "expired" THEN Tell(txs[w].booking, "cancelled")
       ELSE UNCHANGED promotionVars

-----------------------------------------------------------------------------
(* Handlers of the booking's events, each one guarded UPDATE.              *)

\* Mutant: whatever the redemption is, it is applied.
ApplyAnyUse(b) ==
    /\ "confirmed" \in announced[b] /\ redemptions[b] \in Live \cup {"released"}
    /\ redemptions' = [redemptions EXCEPT ![b] = "applied"]
    /\ UNCHANGED <<vars, offer, redeemed, announced>>

ApplyUse(b) ==
    /\ "confirmed" \in announced[b] /\ redemptions[b] = "reserved"
    /\ redemptions' = [redemptions EXCEPT ![b] = "applied"]
    /\ UNCHANGED <<vars, offer, redeemed, announced>>

\* Mutant: the row is not asked whether the use was returned before.
ReturnUseAgain(b) ==
    /\ announced[b] \cap {"expired", "rejected", "cancelled"} # {}
    /\ redemptions[b] # "none"
    /\ redemptions' = [redemptions EXCEPT ![b] = "released"]
    /\ redeemed' = redeemed - 1
    /\ UNCHANGED <<vars, offer, announced>>

ReturnUse(b) ==
    /\ announced[b] \cap {"expired", "rejected", "cancelled"} # {}
    /\ redemptions[b] \in Live
    /\ redemptions' = [redemptions EXCEPT ![b] = "released"]
    /\ redeemed' = IF redeemed > 0 THEN redeemed - 1 ELSE 0
    /\ UNCHANGED <<vars, offer, announced>>

-----------------------------------------------------------------------------
PromotionInit ==
    /\ Init
    /\ offer = "active" /\ redeemed = 0
    /\ redemptions = [b \in Bookings |-> "none"]
    /\ announced = [b \in Bookings |-> {}]

(* Steps that neither promotions nor their events take part in.            *)
PayOrDeliver(b, a) == PaymentNext(b, a) /\ UNCHANGED promotionVars
Deadline(b) == DeadlinePasses(b) /\ UNCHANGED promotionVars
OtherStep(b) ==
    (ApproveBooking(b) \/ CompleteBooking(b) \/ FinalizeRefund(b)) /\ UNCHANGED promotionVars
ScanStep == Scan /\ UNCHANGED promotionVars

BookingStep(b) ==
    \/ BookWithPromotion(b) \/ BookWithoutPromotion(b) \/ RejectAndTell(b) \/ CancelAndTell(b)
    \/ Deadline(b) \/ OtherStep(b)
    \/ \E to \in {"rejected", "expired"} : SweepAndTell(b, to)
WorkerStep(w) ==
    \/ ConfirmAndTell(w) \/ RestoreFails(w) \/ AutoRefundAndTell(w)
    \/ (FindSlotTaken(w) \/ LoseConfirmationRace(w)) /\ UNCHANGED promotionVars

PromotionNext ==
    \/ \E b \in Bookings : BookingStep(b) \/ ApplyUse(b) \/ ReturnUse(b)
    \/ \E b \in Bookings, a \in Attempts : PayOrDeliver(b, a)
    \/ \E w \in Workers : WorkerStep(w)
    \/ ScanStep \/ EndPromotion

PromotionSpec == PromotionInit /\ [][PromotionNext]_allVars

(* The fairness of BookingSlots, for the steps composed here, and events   *)
(* that are delivered at least once.                                       *)
PromotionFairness ==
    /\ \A b \in Bookings : WF_allVars(ApplyUse(b)) /\ WF_allVars(ReturnUse(b))
    /\ WF_allVars(\E b \in Bookings : Deadline(b))
    /\ WF_allVars(ScanStep \/ \E b \in Bookings, to \in {"rejected", "expired"} :
                                SweepAndTell(b, to))
    /\ WF_allVars(\E w \in Workers : WorkerStep(w))
    /\ \A b \in Bookings, a \in Methods :
         SF_allVars(HandlePayment(b, a) /\ UNCHANGED promotionVars)
    /\ WF_allVars(\E b \in Bookings, a \in Methods :
         RecoverPayment(b, a) /\ UNCHANGED promotionVars)
PromotionFairSpec == PromotionSpec /\ PromotionFairness

-----------------------------------------------------------------------------
(* The promotion, its redemptions and the events told have their shape; no *)
(* repeated return drives the counter below zero.                          *)
PromotionTypeOK ==
    /\ TypeOK
    /\ offer \in {"active", "ended"} /\ redeemed \in Nat
    /\ redemptions \in [Bookings -> Live \cup {"none", "released"}]
    /\ announced \in [Bookings -> SUBSET Kinds]

(* redeemed_count is the number of bookings that use the promotion now,    *)
(* and never more than was offered: claims and events that repeat or       *)
(* overtake each other neither lose nor invent a use.                      *)
UsesAreCounted ==
    /\ redeemed = Cardinality({b \in Bookings : redemptions[b] \in Live})
    /\ redeemed <= Limit

(* A booking that never expired keeps its discount counted for as long as  *)
(* it is held, paid and served: no handler returns its use.                *)
HeldDiscountIsCounted ==
    \A b \in Bookings :
        /\ redemptions[b] = "released"
        /\ bookings[b].status \in Holding \cup {"completed", "no_show"}
        => "expired" \in announced[b]
=============================================================================
