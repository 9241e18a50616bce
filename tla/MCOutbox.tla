------------------------------ MODULE MCOutbox ------------------------------
(* Two rows, one of them with a secret payload, and two relays.            *)
EXTENDS Outbox
CONSTANTS w1, w2
TwoHandlers(e) == 2
=============================================================================
