---------------------------- MODULE MCPromotions ----------------------------
(* Bookings of one period and one promotion with fewer uses than bookings.  *)
EXTENDS Promotions
CONSTANTS b1, b2, card, w1
SamePeriod == Bookings \X Bookings
OneEach == [b \in Bookings |-> 1]
ThreeForFirst == [b \in Bookings |-> IF b = b1 THEN 3 ELSE 1]
=============================================================================
