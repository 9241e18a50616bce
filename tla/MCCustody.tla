----------------------------- MODULE MCCustody -----------------------------
(* Custody with two named workers; a cfg says which of them exist.          *)
EXTENDS Custody
CONSTANTS w1, w2
=============================================================================
