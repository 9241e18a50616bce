-------------------------- MODULE PromotionsProofs --------------------------
(***************************************************************************)
(* The composition of bookings and promotions keeps what bookings promise  *)
(* alone, counts every use, and returns none that is still consumed.       *)
(***************************************************************************)
EXTENDS Promotions, BookingSlotsProofs

Returning == {"expired", "rejected", "cancelled"}

(* Only a returning event gives a use back.                                *)
ReturnsAreTold ==
    \A b \in Bookings : redemptions[b] = "released" => announced[b] \cap Returning # {}

(* What was told of a booking, and what became of it since.                *)
ToldTruly ==
    \A b \in Bookings :
        /\ bookings[b].status = "expired" => "expired" \in announced[b]
        /\ "rejected" \in announced[b] => bookings[b].status = "rejected"
        /\ "cancelled" \in announced[b] =>
             bookings[b].status \in {"cancelled", "refunded"} \/ "expired" \in announced[b]
        /\ redemptions[b] # "none" => bookings[b].status # "none"

PromotionInv == PromotionTypeOK /\ UsesAreCounted /\ ReturnsAreTold /\ ToldTruly

-----------------------------------------------------------------------------
(* The bookings' part of a step.                                           *)

(* A composed step is a step of the bookings, or a lost restore.           *)
LEMMA StepOfBookings ==
    ASSUME [PromotionNext]_allVars
    PROVE  [Next]_vars \/ \E w \in Workers : RestoreFails(w)
<1>1. ASSUME NEW b \in Bookings, BookingStep(b) PROVE Next
  <2>1. BookingNext(b)
    BY <1>1 DEF BookingStep, BookWithPromotion, BookWithoutPromotion, RejectAndTell,
                CancelAndTell, Deadline, OtherStep, SweepAndTell, BookingNext
  <2> QED
    BY <2>1 DEF Next
<1>2. ASSUME NEW w \in Workers, WorkerStep(w) PROVE Next \/ RestoreFails(w)
  <2>1. WorkerNext(w) \/ RestoreFails(w)
    BY <1>2 DEF WorkerStep, ConfirmAndTell, AutoRefundAndTell, WorkerNext
  <2> QED
    BY <2>1 DEF Next
<1>3. ASSUME NEW b \in Bookings, ApplyUse(b) \/ ReturnUse(b) PROVE UNCHANGED vars
  BY <1>3 DEF ApplyUse, ReturnUse
<1>4. ASSUME NEW b \in Bookings, NEW a \in Attempts, PayOrDeliver(b, a) PROVE Next
  BY <1>4 DEF PayOrDeliver, Next
<1>5. ScanStep => Next
  BY DEF ScanStep, Next
<1>6. EndPromotion \/ UNCHANGED allVars => UNCHANGED vars
  BY DEF EndPromotion, allVars
<1> QED
  BY <1>1, <1>2, <1>3, <1>4, <1>5, <1>6 DEF PromotionNext

(* The lost restore gives the worker back and changes nothing else.        *)
LEMMA LostRestore ==
    ASSUME TypeOK, NEW w \in Workers, RestoreFails(w)
    PROVE  TypeOK' /\ UNCHANGED bookings
<1>1. [txs EXCEPT ![w] = Idle] \in [Workers -> Transaction]
  BY DEF TypeOK, Transaction
<1> QED
  BY <1>1 DEF RestoreFails, TypeOK

LEMMA BookingTypesKept == TypeOK /\ [PromotionNext]_allVars => TypeOK'
BY StepOfBookings, LostRestore, TypeStep

-----------------------------------------------------------------------------
(* The promotion's part of a step.                                         *)

(* Uses change by a claim, an application or a return, and not otherwise.  *)
LEMMA StepOfUses ==
    ASSUME [PromotionNext]_allVars
    PROVE  \/ \E b \in Bookings : BookWithPromotion(b) \/ ApplyUse(b) \/ ReturnUse(b)
           \/ UNCHANGED <<redeemed, redemptions>>
<1>1. ASSUME NEW b \in Bookings, BookingStep(b), ~BookWithPromotion(b)
      PROVE  UNCHANGED <<redeemed, redemptions>>
  BY <1>1 DEF BookingStep, BookWithoutPromotion, RejectAndTell, CancelAndTell, Deadline,
              OtherStep, SweepAndTell, Tell, promotionVars
<1>2. ASSUME NEW w \in Workers, WorkerStep(w) PROVE UNCHANGED <<redeemed, redemptions>>
  BY <1>2 DEF WorkerStep, ConfirmAndTell, RestoreFails, AutoRefundAndTell, Tell, promotionVars
<1>3. ASSUME NEW b \in Bookings, NEW a \in Attempts, PayOrDeliver(b, a)
      PROVE  UNCHANGED <<redeemed, redemptions>>
  BY <1>3 DEF PayOrDeliver, promotionVars
<1>4. ScanStep \/ EndPromotion \/ UNCHANGED allVars => UNCHANGED <<redeemed, redemptions>>
  BY DEF ScanStep, EndPromotion, allVars, promotionVars
<1> QED
  BY <1>1, <1>2, <1>3, <1>4 DEF PromotionNext

(* Events are only ever added.                                             *)
LEMMA StepOfEvents ==
    ASSUME PromotionTypeOK, [PromotionNext]_allVars
    PROVE  \/ UNCHANGED announced
           \/ \E b \in Bookings, k \in Kinds : Announce(b, k)
<1>1. ASSUME NEW b \in Bookings, BookingStep(b)
      PROVE  UNCHANGED announced \/ \E k \in Kinds : Announce(b, k)
  BY <1>1 DEF BookingStep, BookWithPromotion, BookWithoutPromotion, RejectAndTell, CancelAndTell,
              Deadline, OtherStep, SweepAndTell, Tell, promotionVars, Kinds
<1>2. ASSUME NEW w \in Workers, WorkerStep(w)
      PROVE  UNCHANGED announced \/ \E b \in Bookings, k \in Kinds : Announce(b, k)
  <2>1. ASSUME ConfirmAndTell(w) \/ AutoRefundAndTell(w) PROVE txs[w].booking \in Bookings
    BY <2>1, TransactionTypes
       DEF PromotionTypeOK, ConfirmAndTell, AutoRefundAndTell, Confirm, AutoRefund
  <2> QED
    BY <1>2, <2>1 DEF WorkerStep, ConfirmAndTell, RestoreFails, AutoRefundAndTell, Tell,
                      promotionVars, Kinds
<1>3. ASSUME NEW b \in Bookings, NEW a \in Attempts, PayOrDeliver(b, a) PROVE UNCHANGED announced
  BY <1>3 DEF PayOrDeliver, promotionVars
<1>4. ASSUME NEW b \in Bookings, ApplyUse(b) \/ ReturnUse(b) PROVE UNCHANGED announced
  BY <1>4 DEF ApplyUse, ReturnUse
<1>5. ScanStep \/ EndPromotion \/ UNCHANGED allVars => UNCHANGED announced
  BY DEF ScanStep, EndPromotion, allVars, promotionVars
<1> QED
  BY <1>1, <1>2, <1>3, <1>4, <1>5 DEF PromotionNext

(* The status of the promotion.                                            *)
LEMMA StepOfOffer == [PromotionNext]_allVars => offer' \in {offer, "ended"}
BY DEF PromotionNext, BookingStep, BookWithPromotion, BookWithoutPromotion, RejectAndTell,
       CancelAndTell, Deadline, OtherStep, SweepAndTell, WorkerStep, ConfirmAndTell, RestoreFails,
       AutoRefundAndTell, PayOrDeliver, ApplyUse, ReturnUse, ScanStep, EndPromotion, Tell,
       promotionVars, allVars

LEMMA PromotionTypeStep == PromotionTypeOK /\ [PromotionNext]_allVars => PromotionTypeOK'
<1> SUFFICES ASSUME PromotionTypeOK, [PromotionNext]_allVars PROVE PromotionTypeOK'
  OBVIOUS
<1>1. TypeOK'
  BY BookingTypesKept DEF PromotionTypeOK
<1>2. offer' \in {"active", "ended"}
  BY StepOfOffer DEF PromotionTypeOK
<1>3. redeemed' \in Nat /\ redemptions' \in [Bookings -> Live \cup {"none", "released"}]
  BY StepOfUses DEF PromotionTypeOK, BookWithPromotion, ApplyUse, ReturnUse, Live
<1>4. announced' \in [Bookings -> SUBSET Kinds]
  BY StepOfEvents DEF PromotionTypeOK, Announce
<1> QED
  BY <1>1, <1>2, <1>3, <1>4 DEF PromotionTypeOK
-----------------------------------------------------------------------------
(* Counting the uses.                                                      *)

Users == {b \in Bookings : redemptions[b] \in Live}

LEMMA UsersAreFinite == PromotionTypeOK => IsFiniteSet(Users) /\ Cardinality(Users) \in Nat
BY PromotionAssumption, FS_Subset, FS_CardinalityType DEF Users

(* A claim finds a free use and a booking without redemption.              *)
LEMMA ClaimCounts ==
    ASSUME PromotionInv, NEW b \in Bookings, BookWithPromotion(b)
    PROVE  UsesAreCounted'
<1>1. redemptions[b] = "none"
  BY DEF PromotionInv, PromotionTypeOK, ToldTruly, BookWithPromotion, CreateBooking, Live
<1>2. Users' = Users \cup {b} /\ b \notin Users
  BY <1>1 DEF PromotionInv, PromotionTypeOK, BookWithPromotion, Users, Live
<1>3. Cardinality(Users \cup {b}) = Cardinality(Users) + 1
  BY <1>2, UsersAreFinite, FS_AddElement DEF PromotionInv
<1>4. redeemed' = redeemed + 1 /\ redeemed < Limit
  BY DEF BookWithPromotion, Claimable
<1>5. redeemed = Cardinality(Users) /\ redeemed \in Nat /\ Limit \in Nat
  BY PromotionAssumption DEF PromotionInv, PromotionTypeOK, UsesAreCounted, Users
<1> QED
  BY <1>2, <1>3, <1>4, <1>5 DEF UsesAreCounted, Users

(* Only a use that is live is given back.                                  *)
LEMMA ReturnCounts ==
    ASSUME PromotionInv, NEW b \in Bookings, ReturnUse(b)
    PROVE  UsesAreCounted'
<1>1. Users' = Users \ {b} /\ b \in Users
  BY DEF PromotionInv, PromotionTypeOK, ReturnUse, Users, Live
<1>2. Cardinality(Users \ {b}) = Cardinality(Users) - 1 /\ Cardinality(Users \ {b}) \in Nat
  BY <1>1, UsersAreFinite, FS_RemoveElement, FS_CardinalityType, FS_Subset DEF PromotionInv
<1>3. redeemed = Cardinality(Users) /\ redeemed <= Limit
  BY DEF PromotionInv, UsesAreCounted, Users
<1>4. redeemed' = redeemed - 1
  BY <1>2, <1>3, UsersAreFinite DEF ReturnUse, PromotionInv
<1> QED
  BY <1>1, <1>2, <1>3, <1>4, PromotionAssumption, UsersAreFinite
     DEF UsesAreCounted, Users, PromotionInv, PromotionTypeOK

LEMMA CountStep == PromotionInv /\ [PromotionNext]_allVars => UsesAreCounted'
<1> SUFFICES ASSUME PromotionInv, [PromotionNext]_allVars PROVE UsesAreCounted'
  OBVIOUS
<1>1. ASSUME NEW b \in Bookings, ApplyUse(b) PROVE UsesAreCounted'
  <2>1. Users' = Users /\ redeemed' = redeemed
    BY <1>1 DEF PromotionInv, PromotionTypeOK, ApplyUse, Users, Live
  <2> QED
    BY <2>1 DEF PromotionInv, UsesAreCounted, Users
<1>2. CASE UNCHANGED <<redeemed, redemptions>>
  BY <1>2 DEF PromotionInv, UsesAreCounted
<1> QED
  BY <1>1, <1>2, StepOfUses, ClaimCounts, ReturnCounts

-----------------------------------------------------------------------------
(* What is returned was told, and what was told is true.                   *)

LEMMA ReturnStep == PromotionInv /\ [PromotionNext]_allVars => ReturnsAreTold'
<1> SUFFICES ASSUME PromotionInv, [PromotionNext]_allVars, NEW b \in Bookings,
                    redemptions'[b] = "released"
             PROVE  announced'[b] \cap Returning # {}
  BY DEF ReturnsAreTold
<1>1. announced[b] \subseteq announced'[b]
  BY StepOfEvents DEF PromotionInv, PromotionTypeOK, Announce
<1>2. redemptions[b] = "released" \/ ReturnUse(b)
  BY StepOfUses DEF PromotionInv, PromotionTypeOK, BookWithPromotion, ApplyUse, ReturnUse
<1> QED
  BY <1>1, <1>2 DEF PromotionInv, ReturnsAreTold, ReturnUse, Returning

(* A step of one booking, or of one worker's booking, tells the truth.     *)
LEMMA BookingStepTells ==
    ASSUME PromotionInv, NEW b \in Bookings, BookingStep(b)
    PROVE  ToldTruly'
<1> USE MoveStatus DEF PromotionInv, PromotionTypeOK, ToldTruly
<1>1. CASE BookWithPromotion(b) \/ BookWithoutPromotion(b)
  BY <1>1 DEF BookWithPromotion, BookWithoutPromotion, CreateBooking, promotionVars, Pending, Live
<1>2. CASE RejectAndTell(b)
  BY <1>2 DEF RejectAndTell, RejectBooking, Tell, Announce
<1>3. CASE CancelAndTell(b)
  BY <1>3 DEF CancelAndTell, CancelBooking, Tell, Announce, promotionVars, TypeOK, BookingRow
<1>4. CASE Deadline(b)
  BY <1>4 DEF Deadline, DeadlinePasses, promotionVars, TypeOK, BookingRow
<1>5. CASE OtherStep(b)
  BY <1>5 DEF OtherStep, ApproveBooking, CompleteBooking, FinalizeRefund, promotionVars
<1>6. ASSUME NEW to \in {"rejected", "expired"}, SweepAndTell(b, to) PROVE ToldTruly'
  BY <1>6 DEF SweepAndTell, SweepRow, SystemEdges, Tell, Announce, promotionVars
<1> QED
  BY <1>1, <1>2, <1>3, <1>4, <1>5, <1>6 DEF BookingStep

LEMMA WorkerStepTells ==
    ASSUME PromotionInv, NEW w \in Workers, WorkerStep(w)
    PROVE  ToldTruly'
<1> USE DEF PromotionInv, PromotionTypeOK, ToldTruly
<1>1. CASE ConfirmAndTell(w)
  <2>1. /\ txs[w].booking \in Bookings
        /\ bookings[txs[w].booking].status \in {"pending_payment", "expired"}
    BY <1>1, TransactionTypes DEF ConfirmAndTell, Confirm, UnchangedSince
  <2> QED
    BY <1>1, <2>1 DEF ConfirmAndTell, Confirm, Tell, Announce, TypeOK, BookingRow
<1>2. CASE RestoreFails(w)
  BY <1>2 DEF RestoreFails, promotionVars
<1>3. CASE AutoRefundAndTell(w)
  <2>1. txs[w].booking \in Bookings
    BY <1>3, TransactionTypes DEF AutoRefundAndTell, AutoRefund
  <2> QED
    BY <1>3, <2>1 DEF AutoRefundAndTell, AutoRefund, Tell, Announce, promotionVars, TypeOK,
                      BookingRow
<1>4. CASE (FindSlotTaken(w) \/ LoseConfirmationRace(w)) /\ UNCHANGED promotionVars
  BY <1>4 DEF FindSlotTaken, LoseConfirmationRace, promotionVars
<1> QED
  BY <1>1, <1>2, <1>3, <1>4 DEF WorkerStep

LEMMA ToldStep == PromotionInv /\ [PromotionNext]_allVars => ToldTruly'
<1> SUFFICES ASSUME PromotionInv, [PromotionNext]_allVars PROVE ToldTruly'
  OBVIOUS
<1>1. ASSUME NEW b \in Bookings, NEW a \in Attempts, PayOrDeliver(b, a) PROVE ToldTruly'
  BY <1>1, PaymentKeepsStatus DEF PayOrDeliver, promotionVars, PromotionInv, PromotionTypeOK,
                                  ToldTruly
<1>2. ASSUME NEW b \in Bookings, ApplyUse(b) \/ ReturnUse(b) PROVE ToldTruly'
  BY <1>2 DEF ApplyUse, ReturnUse, vars, PromotionInv, PromotionTypeOK, ToldTruly, Live
<1>3. CASE ScanStep \/ EndPromotion \/ UNCHANGED allVars
  BY <1>3 DEF ScanStep, Scan, EndPromotion, allVars, vars, promotionVars, PromotionInv, ToldTruly
<1> QED
  BY <1>1, <1>2, <1>3, BookingStepTells, WorkerStepTells DEF PromotionNext

-----------------------------------------------------------------------------
(* The invariant is inductive.                                             *)
THEOREM PromotionInductive == PromotionSpec => []PromotionInv
<1>1. PromotionInit => PromotionInv
  <2>1. Init => TypeOK
    BY DEF Init, TypeOK, BookingRow, Statuses, PaymentStatuses, EventStates, Transaction
  <2>2. PromotionInit => {b \in Bookings : redemptions[b] \in Live} = {}
    BY DEF PromotionInit, Live
  <2>3. PromotionInit => UsesAreCounted
    <3>1. Cardinality({}) = 0
      BY FS_EmptySet
    <3> QED
      BY <2>2, <3>1, PromotionAssumption DEF PromotionInit, UsesAreCounted
  <2> QED
    BY <2>1, <2>3
       DEF PromotionInit, Init, PromotionInv, PromotionTypeOK, ReturnsAreTold, ToldTruly
<1>2. PromotionInv /\ [PromotionNext]_allVars => PromotionInv'
  BY PromotionTypeStep, CountStep, ReturnStep, ToldStep DEF PromotionInv
<1> QED
  BY <1>1, <1>2, PTL DEF PromotionSpec

(* Bookings, payments, the promotion and its redemptions keep their shape  *)
(* for any number of bookings, workers and uses.                           *)
THEOREM PromotionTypeCorrect == PromotionSpec => []PromotionTypeOK
<1>1. PromotionInv => PromotionTypeOK
  BY DEF PromotionInv
<1> QED
  BY <1>1, PromotionInductive, PTL

(* The counter of the promotion is the number of bookings that use it, and *)
(* within the limit, however claims, events and their repeats interleave.  *)
THEOREM UsesCounted == PromotionSpec => []UsesAreCounted
<1>1. PromotionInv => UsesAreCounted
  BY DEF PromotionInv
<1> QED
  BY <1>1, PromotionInductive, PTL

(* No handler returns the use of a booking that never expired while it is  *)
(* held, paid or served.                                                   *)
THEOREM HeldDiscountCounted == PromotionSpec => []HeldDiscountIsCounted
<1>1. PromotionInv => HeldDiscountIsCounted
  BY DEF PromotionInv, ReturnsAreTold, ToldTruly, HeldDiscountIsCounted, Returning, Holding, Pending
<1> QED
  BY <1>1, PromotionInductive, PTL

-----------------------------------------------------------------------------
(* The lost restore leaves one transaction less, and the payments alone.   *)
LEMMA LostRestorePays ==
    ASSUME TypeOK, PaymentInv, NEW w \in Workers, RestoreFails(w)
    PROVE  PaymentInv'
<1>1. UNCHANGED <<bookings, payments, events>>
  BY DEF RestoreFails
<1>2. \A v \in Workers : txs'[v] \in {Idle, txs[v]}
  BY DEF RestoreFails, TypeOK
<1>3. ConfirmInv'
  BY <1>1, <1>2 DEF PaymentInv, ConfirmInv, Succeeded
<1>4. CaptureInv' /\ PaidInv'
  BY <1>1 DEF PaymentInv, CaptureInv, PaidInv, Succeeded
<1> QED
  BY <1>3, <1>4 DEF PaymentInv

(* The composition keeps what bookings promise alone: a calendar is never  *)
(* sold twice, the decision to refund is final and nothing is recorded as  *)
(* paid that was not captured, promotion or not.                           *)
THEOREM CompositionKeepsBookings ==
    PromotionSpec => [](/\ RefundDecisionIsFinal
                        /\ ~Inventory => NeverOversold
                        /\ PriceIsCovered => PaidWasCaptured)
<1> DEFINE All == TypeOK /\ RefundDecisionIsFinal /\ Exclusive /\ PaymentInv
<1>1. PromotionInit => All
  <2>1. Init => TypeOK
    BY DEF Init, TypeOK, BookingRow, Statuses, PaymentStatuses, EventStates, Transaction
  <2> QED
    BY <2>1, PaymentInvInit
    DEF PromotionInit, Init, RefundDecisionIsFinal, Exclusive, Holding, Pending
<1>2. All /\ [PromotionNext]_allVars => All'
  <2> SUFFICES ASSUME All, [PromotionNext]_allVars PROVE All'
    OBVIOUS
  <2>1. CASE [Next]_vars
    BY <2>1, TypeStep, ExclusiveStep, RefundDecisionStep, PaymentInvStep
  <2>2. ASSUME NEW w \in Workers, RestoreFails(w) PROVE All'
    <3>1. TypeOK' /\ bookings' = bookings
      BY <2>2, LostRestore
    <3>2. RefundDecisionIsFinal' /\ Exclusive'
      BY <3>1 DEF RefundDecisionIsFinal, Exclusive, Rivals
    <3> QED
      BY <2>2, <3>1, <3>2, LostRestorePays
  <2> QED
    BY <2>1, <2>2, StepOfBookings
<1>3. All => /\ RefundDecisionIsFinal
             /\ ~Inventory => NeverOversold
             /\ PriceIsCovered => PaidWasCaptured
  BY ExclusiveNeverOversold, PaidWithinCaptures DEF PaymentInv
<1> QED
  BY <1>1, <1>2, <1>3, PTL DEF PromotionSpec
=============================================================================
