------------------------------ MODULE Delivery ------------------------------
(***************************************************************************)
(* What the modules may rely on when they hand an event to the outbox: its *)
(* handlers run in registration order, each at least once before the event *)
(* counts as processed, any of them any number of times before that; or    *)
(* the event is given up, wherever it stands.  Nothing is promised about   *)
(* the order of different events.                                          *)
(***************************************************************************)
EXTENDS Naturals

CONSTANTS Events, HandlersOf(_)  \* how many handlers subscribe to an event

VARIABLES state, done  \* done: the handlers that have committed at least once

Emit(e) ==
    /\ state[e] # "pending"
    /\ state'[e] = "pending" /\ done'[e] = {}
Run(e) ==
    /\ state[e] = "pending" /\ state'[e] = "pending"
    /\ \E n \in 0..HandlersOf(e) : done'[e] = 1..n
    /\ done[e] \subseteq done'[e]
Process(e) ==
    /\ state[e] = "pending" /\ done[e] = 1..HandlersOf(e)
    /\ state'[e] = "processed" /\ done'[e] = done[e]
GiveUp(e) ==
    /\ state[e] = "pending"
    /\ state'[e] = "dead" /\ done'[e] = done[e]
Rest(e) == state'[e] = state[e] /\ done'[e] = done[e]

Init ==
    /\ state = [e \in Events |-> "absent"]
    /\ done = [e \in Events |-> {}]
Next == \A e \in Events : Rest(e) \/ Emit(e) \/ Run(e) \/ Process(e) \/ GiveUp(e)
Spec == Init /\ [][Next]_<<state, done>>
=============================================================================
