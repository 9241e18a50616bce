------------------------------ MODULE MCPayout ------------------------------
(* Two settlements of one payee and the administrators who pay it.         *)
EXTENDS Payout, TLC
CONSTANTS s1, s2, a1, a2
Earned == {-1, 2, 3}
EarnedOnline == {2}
LateBalances == {2}
NoBalance == {}
Interchangeable == Permutations(Admins) \cup Permutations(Settlements)
=============================================================================
