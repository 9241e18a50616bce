------------------------------- MODULE Outbox -------------------------------
(***************************************************************************)
(* The relay of the transactional outbox: rows claimed in batches under a  *)
(* lease, dispatched one after another to their handlers, marked processed,*)
(* retried after a back-off or parked as dead letters.  Relays overlap: a  *)
(* lease that lapses while its batch is being dispatched lets another      *)
(* relay claim the same row, and both write back what they know of it.     *)
(***************************************************************************)
EXTENDS Naturals, FiniteSets

CONSTANTS
    Events,         \* rows, numbered in the order of created_at
    HandlersOf(_),  \* how many handlers subscribe to an event
    Secret,         \* SECRET_PAYLOAD_EVENT_TYPES
    Relays,         \* relay processes
    BatchSize, MaxAttempts,
    MaxCrashes      \* bound: how often a relay dies with a batch in its hands

ASSUME OutboxAssumption ==
    /\ Events \subseteq Nat /\ IsFiniteSet(Events) /\ Secret \subseteq Events
    /\ \A e \in Events : HandlersOf(e) \in Nat
    /\ BatchSize \in Nat \ {0} /\ MaxAttempts \in Nat \ {0} /\ MaxCrashes \in Nat

VARIABLES
    rows,      \* outbox_events
    claims,    \* the copies a relay has read and not yet dispatched
    step,      \* how many handlers of its current event a relay has run
    done,      \* the handlers that have committed at least once
    failures,  \* how many dispatches of an event have failed
    crashes

vars == <<rows, claims, step, done, failures, crashes>>

OutboxRow == [emitted : BOOLEAN, available : BOOLEAN, processed : BOOLEAN, dead : BOOLEAN,
              redacted : BOOLEAN, attempts : Nat]
Copy == [event : Events, attempts : Nat, redacted : BOOLEAN]

-----------------------------------------------------------------------------
Emit(e) ==
    /\ ~rows[e].emitted
    /\ rows' = [rows EXCEPT ![e].emitted = TRUE, ![e].available = TRUE]
    /\ UNCHANGED <<claims, step, done, failures, crashes>>

Due == {e \in Events : /\ rows[e].emitted /\ rows[e].available
                       /\ ~rows[e].processed /\ ~rows[e].dead}
Batch == {e \in Due : Cardinality({f \in Due : f < e}) < BatchSize}

(* A claim leases its rows: they become available again after 60 seconds.  *)
Claim(w) ==
    /\ claims[w] = {} /\ Due # {}
    /\ claims' = [claims EXCEPT ![w] = {[event |-> e, attempts |-> rows[e].attempts,
                                         redacted |-> rows[e].redacted] : e \in Batch}]
    /\ rows' = [e \in Events |-> IF e \in Batch THEN [rows[e] EXCEPT !.available = FALSE]
                                 ELSE rows[e]]
    /\ step' = [step EXCEPT ![w] = 0]
    /\ UNCHANGED <<done, failures, crashes>>

(* A lease or a back-off ends, whether or not a relay still holds the row. *)
BecomesAvailable(e) ==
    /\ rows[e].emitted /\ ~rows[e].available /\ ~rows[e].processed /\ ~rows[e].dead
    /\ rows' = [rows EXCEPT ![e].available = TRUE]
    /\ UNCHANGED <<claims, step, done, failures, crashes>>

-----------------------------------------------------------------------------
(* dispatch, of the oldest row of the batch.                               *)

Current(w, c) == c \in claims[w] /\ \A d \in claims[w] : c.event <= d.event
Drop(w, c) ==
    /\ claims' = [claims EXCEPT ![w] = @ \ {c}]
    /\ step' = [step EXCEPT ![w] = 0]

Handle(w, c) ==
    /\ Current(w, c) /\ step[w] < HandlersOf(c.event)
    /\ step' = [step EXCEPT ![w] = @ + 1]
    /\ done' = [done EXCEPT ![c.event] = @ \cup {step[w] + 1}]
    /\ UNCHANGED <<rows, claims, failures, crashes>>

\* Mutant: one handler's success is taken for the delivery of the event.
FinishEarly(w, c) ==
    /\ Current(w, c) /\ step[w] >= 1
    /\ rows' = [rows EXCEPT ![c.event].processed = TRUE]
    /\ Drop(w, c)
    /\ UNCHANGED <<done, failures, crashes>>

Finish(w, c) ==
    /\ Current(w, c) /\ step[w] = HandlersOf(c.event)
    /\ rows' = [rows EXCEPT ![c.event].processed = TRUE,
                            ![c.event].redacted = @ \/ c.event \in Secret]
    /\ Drop(w, c)
    /\ UNCHANGED <<done, failures, crashes>>

\* Mutant: a retry writes the row like the last attempt does.
FailRedacting(w, c) ==
    LET last == c.attempts + 1 >= MaxAttempts
    IN  /\ Current(w, c)
        /\ rows' = [rows EXCEPT ![c.event].attempts = c.attempts + 1,
                                ![c.event].dead = @ \/ last,
                                ![c.event].redacted = @ \/ c.event \in Secret,
                                ![c.event].available = @ /\ last]
        /\ failures' = [failures EXCEPT ![c.event] = @ + 1]
        /\ Drop(w, c)
        /\ UNCHANGED <<done, crashes>>

\* Mutant: a failed attempt is not counted.
FailUncounted(w, c) ==
    /\ Current(w, c)
    /\ rows' = [rows EXCEPT ![c.event].available = FALSE]
    /\ Drop(w, c)
    /\ UNCHANGED <<done, failures, crashes>>

\* Mutant: MAX_ATTEMPTS is taken for the last index.
FailOneTooEarly(w, c) ==
    LET last == c.attempts + 2 >= MaxAttempts
    IN  /\ Current(w, c)
        /\ rows' = [rows EXCEPT ![c.event].attempts = c.attempts + 1, ![c.event].dead = @ \/ last]
        /\ failures' = [failures EXCEPT ![c.event] = @ + 1]
        /\ Drop(w, c)
        /\ UNCHANGED <<done, crashes>>

(* A handler, or the update after the last one, throws.  The row counts    *)
(* from the attempts that were read when it was claimed.                   *)
Fail(w, c) ==
    LET last == c.attempts + 1 >= MaxAttempts
    IN  /\ Current(w, c)
        /\ rows' = [rows EXCEPT ![c.event].attempts = c.attempts + 1,
                                ![c.event].dead = @ \/ last,
                                ![c.event].redacted = @ \/ (last /\ c.event \in Secret),
                                ![c.event].available = @ /\ last]
        /\ failures' = [failures EXCEPT ![c.event] = @ + 1]
        /\ Drop(w, c)
        /\ UNCHANGED <<done, crashes>>

(* A relay dies: what it read is forgotten, the leases run on.             *)
Crash(w) ==
    /\ claims[w] # {} /\ crashes < MaxCrashes
    /\ claims' = [claims EXCEPT ![w] = {}]
    /\ step' = [step EXCEPT ![w] = 0]
    /\ crashes' = crashes + 1
    /\ UNCHANGED <<rows, done, failures>>

-----------------------------------------------------------------------------
Init ==
    /\ rows = [e \in Events |-> [emitted |-> FALSE, available |-> FALSE, processed |-> FALSE,
                                 dead |-> FALSE, redacted |-> FALSE, attempts |-> 0]]
    /\ claims = [w \in Relays |-> {}]
    /\ step = [w \in Relays |-> 0]
    /\ done = [e \in Events |-> {}]
    /\ failures = [e \in Events |-> 0]
    /\ crashes = 0

Dispatch(w) == \E c \in claims[w] : Handle(w, c) \/ Finish(w, c) \/ Fail(w, c)
Next ==
    \/ \E e \in Events : Emit(e) \/ BecomesAvailable(e)
    \/ \E w \in Relays : Claim(w) \/ Dispatch(w) \/ Crash(w)
Spec == Init /\ [][Next]_vars

(* A relay polls every two seconds and drains what it finds; time passes.  *)
Fairness ==
    /\ \A w \in Relays : WF_vars(Claim(w) \/ Dispatch(w))
    /\ \A e \in Events : WF_vars(BecomesAvailable(e))
FairSpec == Spec /\ Fairness

-----------------------------------------------------------------------------
(* Rows, copies and counters have their shape.                             *)
TypeOK ==
    /\ rows \in [Events -> OutboxRow]
    /\ claims \in [Relays -> SUBSET Copy]
    /\ step \in [Relays -> Nat]
    /\ done \in [Events -> SUBSET Nat]
    /\ failures \in [Events -> Nat]
    /\ crashes \in Nat

(* No event is parked before it has really failed MAX_ATTEMPTS times,      *)
(* although relays write back counts they read before others failed.       *)
DeadOnlyAfterFailures == \A e \in Events : rows[e].dead => failures[e] >= MaxAttempts

(* A secret payload is blanked once nobody needs it: no relay ever holds,  *)
(* and so no handler ever gets, a copy that was redacted before.           *)
NoRedactedDelivery == \A w \in Relays : \A c \in claims[w] : ~c.redacted

(* Every event is delivered or parked, whatever fails, lapses or crashes.  *)
EveryEventSettles ==
    \A e \in Events : rows[e].emitted ~> rows[e].processed \/ rows[e].dead

Held(e) == \E w \in Relays : \E c \in claims[w] : c.event = e

(* The relay keeps the promise of Delivery.  An event counts as settled    *)
(* once no relay holds it any more: a relay whose lease has lapsed may run *)
(* handlers of a row that is already marked.                               *)
StateOf(e) == IF ~rows[e].emitted THEN "absent"
              ELSE IF Held(e) THEN "pending"
              ELSE IF rows[e].processed THEN "processed"
              ELSE IF rows[e].dead THEN "dead" ELSE "pending"
Abstract == INSTANCE Delivery WITH state <- [e \in Events |-> StateOf(e)], done <- done
DeliveryKept == Abstract!Spec
=============================================================================
