------------------------------- MODULE Escrow -------------------------------
(***************************************************************************)
(* What the custody of a booking's money promises to the customer and to   *)
(* the partner, with no bookings, disputes, batches, events or sweeps: an  *)
(* amount is held; parts of it are promised back, never taken back; and    *)
(* what is left is recognised as revenue once, after which nothing moves.  *)
(***************************************************************************)
EXTENDS Naturals

CONSTANT Held
VARIABLES repaid, earned

Init == repaid = 0 /\ earned = 0

Repay ==
    /\ earned = 0
    /\ repaid' \in (repaid + 1)..Held
    /\ UNCHANGED earned

Earn ==
    /\ earned = 0 /\ repaid < Held
    /\ earned' = Held - repaid
    /\ UNCHANGED repaid

Next == Repay \/ Earn

Spec == Init /\ [][Next]_<<repaid, earned>>
=============================================================================
