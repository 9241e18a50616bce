----------------------------- MODULE MCRefunds -----------------------------
(* A card deposit and a wallet balance, returned for two reasons.          *)
EXTENDS Refunds, TLC
CONSTANTS deposit, balance, w1, w2
Capture == (deposit :> 2) @@ (balance :> 1)
CaptureAge == (deposit :> 2) @@ (balance :> 1)
=============================================================================
