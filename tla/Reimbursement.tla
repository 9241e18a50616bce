--------------------------- MODULE Reimbursement ---------------------------
(***************************************************************************)
(* What the refunds of one booking promise its customer and the rest of    *)
(* the system, whoever moves the money: each reason asks for an amount     *)
(* once, money goes back and never comes again, no capture gives back more *)
(* than it took, and the one announcement of a reason is made in the step  *)
(* that returns its last dong.                                             *)
(***************************************************************************)
EXTENDS Integers, Functions

CONSTANTS Payments, Captured, Reasons

VARIABLES
    promised,   \* asked for, per reason
    returned,   \* given back, per reason and capture
    announced   \* refund.completed announcements, per reason

vars == <<promised, returned, announced>>

ReturnedFrom(p) == SumFunction([r \in Reasons |-> returned[r][p]])

Init ==
    /\ promised = [r \in Reasons |-> 0]
    /\ returned = [r \in Reasons |-> [p \in Payments |-> 0]]
    /\ announced = [r \in Reasons |-> 0]

Promise(r) ==
    /\ promised[r] = 0
    /\ \E amount \in 1..SumFunction(Captured) : promised' = [promised EXCEPT ![r] = amount]
    /\ UNCHANGED <<returned, announced>>

Return(r) ==
    /\ \E given \in [Payments -> 0..promised[r]] :
         /\ \A p \in Payments : given[p] >= returned[r][p]
         /\ given # returned[r] /\ SumFunction(given) <= promised[r]
         /\ returned' = [returned EXCEPT ![r] = given]
         /\ announced' = [announced EXCEPT ![r] =
                             IF SumFunction(given) = promised[r] THEN 1 ELSE 0]
    /\ \A p \in Payments : ReturnedFrom(p)' <= Captured[p]
    /\ UNCHANGED promised

Next == \E r \in Reasons : Promise(r) \/ Return(r)

Spec == Init /\ [][Next]_vars
=============================================================================
