--------------------------- MODULE MCBookingSlots ---------------------------
(* Bookings of one overlapping period, and the processes that serve them.   *)
EXTENDS BookingSlots
CONSTANTS b1, b2, card, w1, w2
SamePeriod == Bookings \X Bookings
OneEach == [b \in Bookings |-> 1]
ThreeForFirst == [b \in Bookings |-> IF b = b1 THEN 3 ELSE 1]
=============================================================================
