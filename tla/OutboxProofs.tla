---------------------------- MODULE OutboxProofs ----------------------------
(***************************************************************************)
(* What holds of the relay for any number of rows, relays, handlers,       *)
(* attempts and crashes, and that it keeps the promise of Delivery.        *)
(***************************************************************************)
EXTENDS Outbox, TLAPS

-----------------------------------------------------------------------------
(* Type correctness.                                                       *)

(* Dropping a dispatched copy keeps the types of claims and steps.         *)
LEMMA DropTypes ==
    ASSUME TypeOK, NEW w \in Relays, NEW c, Drop(w, c)
    PROVE  claims' \in [Relays -> SUBSET Copy] /\ step' \in [Relays -> Nat]
BY DEF TypeOK, Drop

(* After a claim a relay holds what it held, or a copy of a due row.       *)
LEMMA ClaimedCopies ==
    ASSUME TypeOK, NEW w \in Relays, Claim(w), NEW v \in Relays, NEW c \in claims'[v]
    PROVE  \/ c \in claims[v]
           \/ \E e \in Due : c = [event |-> e, attempts |-> rows[e].attempts,
                                 redacted |-> rows[e].redacted]
<1>1. claims' = [claims EXCEPT ![w] = {[event |-> e, attempts |-> rows[e].attempts,
                                        redacted |-> rows[e].redacted] : e \in Batch}]
  BY DEF Claim
<1>2. CASE v = w
  <2>1. c \in {[event |-> e, attempts |-> rows[e].attempts, redacted |-> rows[e].redacted] :
                e \in Batch}
    BY <1>1, <1>2 DEF TypeOK
  <2> QED
    BY <2>1 DEF Batch
<1>3. CASE v # w
  BY <1>1, <1>3 DEF TypeOK
<1> QED
  BY <1>2, <1>3

(* Only the leased rows change, and of them only when they are available.  *)
LEMMA ClaimedRows ==
    ASSUME TypeOK, NEW w \in Relays, Claim(w), NEW e \in Events
    PROVE  /\ rows'[e].emitted = rows[e].emitted /\ rows'[e].processed = rows[e].processed
           /\ rows'[e].dead = rows[e].dead /\ rows'[e].redacted = rows[e].redacted
           /\ rows'[e].attempts = rows[e].attempts
<1>1. rows[e] \in OutboxRow
  BY DEF TypeOK
<1>2. rows'[e] = rows[e] \/ rows'[e] = [rows[e] EXCEPT !.available = FALSE]
  BY DEF Claim
<1> QED
  BY <1>1, <1>2 DEF OutboxRow

(* Emitting a row and the end of a lease leave alone what became of it.    *)
LEMMA ReadyRows ==
    ASSUME TypeOK, NEW e \in Events, Emit(e) \/ BecomesAvailable(e), NEW f \in Events
    PROVE  /\ rows[f].emitted => rows'[f].emitted
           /\ rows'[f].processed = rows[f].processed /\ rows'[f].dead = rows[f].dead
           /\ rows'[f].redacted = rows[f].redacted /\ rows'[f].attempts = rows[f].attempts
<1>1. rows \in [Events -> OutboxRow] /\ rows[f] \in OutboxRow
  BY DEF TypeOK
<1>2. \/ rows'[f] = rows[f]
      \/ rows'[f] = [rows[f] EXCEPT !.emitted = TRUE, !.available = TRUE]
      \/ rows'[f] = [rows[f] EXCEPT !.available = TRUE]
  <2>1. CASE Emit(e)
    BY <1>1, <2>1 DEF Emit
  <2>2. CASE BecomesAvailable(e)
    BY <1>1, <2>2 DEF BecomesAvailable
  <2> QED
    BY <2>1, <2>2
<1> QED
  BY <1>1, <1>2 DEF OutboxRow

(* A dispatch writes nothing but the row that it is about.                 *)
LEMMA DispatchedRow ==
    ASSUME TypeOK, NEW w \in Relays, NEW c \in claims[w], Finish(w, c) \/ Fail(w, c)
    PROVE  /\ c.event \in Events /\ c.attempts \in Nat /\ rows[c.event] \in OutboxRow
           /\ \A e \in Events \ {c.event} : rows'[e] = rows[e]
<1>1. c \in Copy /\ rows \in [Events -> OutboxRow]
  BY DEF TypeOK
<1>2. c.event \in Events /\ c.attempts \in Nat
  BY <1>1 DEF Copy
<1>3. CASE Finish(w, c)
  BY <1>1, <1>2, <1>3 DEF Finish
<1>4. CASE Fail(w, c)
  BY <1>1, <1>2, <1>4 DEF Fail
<1> QED
  BY <1>3, <1>4

(* A success marks its row and takes nothing back.                         *)
LEMMA FinishedRow ==
    ASSUME TypeOK, NEW w \in Relays, NEW c \in claims[w], Finish(w, c)
    PROVE  LET old == rows[c.event] new == rows'[c.event]
           IN  /\ new.processed /\ new.emitted = old.emitted
               /\ new.dead = old.dead /\ new.attempts = old.attempts
<1>1. c.event \in Events /\ rows[c.event] \in OutboxRow
  BY DispatchedRow
<1> DEFINE blank == rows[c.event].redacted \/ c.event \in Secret
<1>2. rows'[c.event] = [rows[c.event] EXCEPT !.processed = TRUE, !.redacted = blank]
  BY <1>1 DEF Finish, TypeOK
<1> HIDE DEF blank
<1> QED
  BY <1>1, <1>2 DEF OutboxRow

(* A failure counts, parks the row or leaves it to a retry, and blanks it  *)
(* only when it parks it.                                                  *)
LEMMA FailedRow ==
    ASSUME TypeOK, NEW w \in Relays, NEW c \in claims[w], Fail(w, c)
    PROVE  LET old == rows[c.event] new == rows'[c.event]
           IN  /\ new.processed = old.processed /\ new.emitted = old.emitted
               /\ new.attempts = c.attempts + 1
               /\ old.dead => new.dead
               /\ new.dead => old.dead \/ c.attempts + 1 >= MaxAttempts
               /\ new.redacted => old.redacted \/ new.dead
<1>1. c.event \in Events /\ rows[c.event] \in OutboxRow
  BY DispatchedRow
<1> DEFINE last == c.attempts + 1 >= MaxAttempts
           parked == rows[c.event].dead \/ last
           blank == rows[c.event].redacted \/ (last /\ c.event \in Secret)
           ready == rows[c.event].available /\ last
<1>2. rows'[c.event] = [rows[c.event] EXCEPT !.attempts = c.attempts + 1, !.dead = parked,
                                             !.redacted = blank, !.available = ready]
  BY <1>1 DEF Fail, TypeOK
<1>3. /\ rows[c.event].dead => parked
      /\ parked => rows[c.event].dead \/ last
      /\ blank => rows[c.event].redacted \/ parked
  OBVIOUS
<1> HIDE DEF parked, blank, ready, last
<1>4. /\ rows'[c.event].processed = rows[c.event].processed
      /\ rows'[c.event].emitted = rows[c.event].emitted
      /\ rows'[c.event].attempts = c.attempts + 1
      /\ rows'[c.event].dead = parked /\ rows'[c.event].redacted = blank
  BY <1>1, <1>2 DEF OutboxRow
<1> QED
  BY <1>3, <1>4 DEF last

(* Every step keeps the types.                                             *)
LEMMA TypeStep == TypeOK /\ [Next]_vars => TypeOK'
<1> SUFFICES ASSUME TypeOK, [Next]_vars PROVE TypeOK'
  OBVIOUS
<1> USE OutboxAssumption DEF TypeOK
<1>1. ASSUME NEW e \in Events, Emit(e) \/ BecomesAvailable(e) PROVE TypeOK'
  <2>1. CASE Emit(e)
    <3>1. [rows[e] EXCEPT !.emitted = TRUE, !.available = TRUE] \in OutboxRow
      BY DEF OutboxRow
    <3>2. rows' = [rows EXCEPT ![e] = [rows[e] EXCEPT !.emitted = TRUE, !.available = TRUE]]
      BY <2>1 DEF Emit
    <3> QED
      BY <2>1, <3>1, <3>2 DEF Emit
  <2>2. CASE BecomesAvailable(e)
    <3>1. [rows[e] EXCEPT !.available = TRUE] \in OutboxRow
      BY DEF OutboxRow
    <3>2. rows' = [rows EXCEPT ![e] = [rows[e] EXCEPT !.available = TRUE]]
      BY <2>2 DEF BecomesAvailable
    <3> QED
      BY <2>2, <3>1, <3>2 DEF BecomesAvailable
  <2> QED
    BY <1>1, <2>1, <2>2
<1>2. ASSUME NEW w \in Relays, Claim(w) PROVE TypeOK'
  <2>1. Batch \subseteq Events
    BY DEF Batch, Due
  <2>2. claims' \in [Relays -> SUBSET Copy]
    <3>1. {[event |-> e, attempts |-> rows[e].attempts, redacted |-> rows[e].redacted] :
             e \in Batch} \subseteq Copy
      BY <2>1 DEF Copy, OutboxRow
    <3> QED
      BY <1>2, <3>1 DEF Claim
  <2>3. rows' \in [Events -> OutboxRow]
    <3>1. \A e \in Events : [rows[e] EXCEPT !.available = FALSE] \in OutboxRow
      BY DEF OutboxRow
    <3> QED
      BY <1>2, <3>1 DEF Claim
  <2> QED
    BY <1>2, <2>2, <2>3 DEF Claim
<1>3. ASSUME NEW w \in Relays, NEW c \in claims[w], Handle(w, c) \/ Finish(w, c) \/ Fail(w, c)
      PROVE  TypeOK'
  <2>1. c \in Copy
    OBVIOUS
  <2>2. CASE Handle(w, c)
    <3>1. c.event \in Events /\ step[w] + 1 \in Nat
      BY <2>1 DEF Copy
    <3>2. step' \in [Relays -> Nat]
      BY <2>2, <3>1 DEF Handle
    <3>3. done' \in [Events -> SUBSET Nat]
      BY <2>2, <3>1 DEF Handle
    <3> QED
      BY <2>2, <3>2, <3>3 DEF Handle
  <2>3. CASE Finish(w, c)
    <3>1. rows' \in [Events -> OutboxRow]
      <4>1. c.event \in Events
        BY <2>1 DEF Copy
      <4> DEFINE blank == rows[c.event].redacted \/ c.event \in Secret
      <4>2. rows' = [rows EXCEPT ![c.event] = [rows[c.event] EXCEPT
                        !.processed = TRUE, !.redacted = blank]]
        BY <2>3, <4>1 DEF Finish
      <4>3. blank \in BOOLEAN /\ rows[c.event] \in OutboxRow
        BY <4>1
      <4> HIDE DEF blank
      <4>4. [rows[c.event] EXCEPT !.processed = TRUE, !.redacted = blank] \in OutboxRow
        BY <4>3 DEF OutboxRow
      <4> QED
        BY <4>1, <4>2, <4>4
    <3> QED
      BY <2>3, <3>1, DropTypes DEF Finish
  <2>4. CASE Fail(w, c)
    <3>1. rows' \in [Events -> OutboxRow]
      <4>1. c.event \in Events /\ c.attempts + 1 \in Nat
        BY <2>1 DEF Copy
      <4> DEFINE last == c.attempts + 1 >= MaxAttempts
                 parked == rows[c.event].dead \/ last
                 blank == rows[c.event].redacted \/ (last /\ c.event \in Secret)
                 ready == rows[c.event].available /\ last
                 new == [rows[c.event] EXCEPT !.attempts = c.attempts + 1, !.dead = parked,
                                              !.redacted = blank, !.available = ready]
      <4>2. rows' = [rows EXCEPT ![c.event] = new]
        BY <2>4, <4>1 DEF Fail
      <4>3. /\ parked \in BOOLEAN /\ blank \in BOOLEAN /\ ready \in BOOLEAN
            /\ rows[c.event] \in OutboxRow
        BY <4>1
      <4> HIDE DEF parked, blank, ready
      <4>4. new \in OutboxRow
        BY <4>1, <4>3 DEF OutboxRow
      <4> HIDE DEF new
      <4> QED
        BY <4>1, <4>2, <4>4
    <3> QED
      BY <2>1, <2>4, <3>1, DropTypes DEF Fail, Copy
  <2> QED
    BY <1>3, <2>2, <2>3, <2>4
<1>4. ASSUME NEW w \in Relays, Crash(w) PROVE TypeOK'
  BY <1>4 DEF Crash
<1>5. CASE UNCHANGED vars
  BY <1>5 DEF vars
<1> QED
  BY <1>1, <1>2, <1>3, <1>4, <1>5 DEF Next, Dispatch

(* Type correctness of rows, copies and counters.                          *)
THEOREM TypeCorrect == Spec => []TypeOK
<1>1. Init => TypeOK
  BY DEF Init, TypeOK, OutboxRow
<1> QED
  BY <1>1, TypeStep, PTL DEF Spec

-----------------------------------------------------------------------------
(* Attempts.  A relay writes back the count it read plus one, so counts    *)
(* get lost; inductive is that none, read or stored, exceeds the failures. *)
AttemptsAreFailures ==
    /\ \A e \in Events : rows[e].attempts <= failures[e]
    /\ \A w \in Relays : \A c \in claims[w] : c.attempts <= failures[c.event]
    /\ DeadOnlyAfterFailures

(* No step counts more than has failed.                                    *)
LEMMA AttemptsStep == TypeOK /\ AttemptsAreFailures /\ [Next]_vars => AttemptsAreFailures'
<1> SUFFICES ASSUME TypeOK, AttemptsAreFailures, [Next]_vars PROVE AttemptsAreFailures'
  OBVIOUS
<1> USE OutboxAssumption DEF TypeOK, AttemptsAreFailures, DeadOnlyAfterFailures
<1>1. ASSUME NEW e \in Events, Emit(e) \/ BecomesAvailable(e) PROVE AttemptsAreFailures'
  <2>1. \A f \in Events : rows'[f].attempts = rows[f].attempts /\ rows'[f].dead = rows[f].dead
    BY <1>1, ReadyRows
  <2> QED
    BY <1>1, <2>1 DEF Emit, BecomesAvailable
<1>2. ASSUME NEW w \in Relays, Claim(w) PROVE AttemptsAreFailures'
  <2>1. \A e \in Events : rows'[e].attempts = rows[e].attempts /\ rows'[e].dead = rows[e].dead
    BY <1>2, ClaimedRows
  <2>2. \A v \in Relays : \A c \in claims'[v] : c.attempts <= failures[c.event]
    BY <1>2, ClaimedCopies DEF Due
  <2> QED
    BY <1>2, <2>1, <2>2 DEF Claim
<1>3. ASSUME NEW w \in Relays, NEW c \in claims[w], Handle(w, c) PROVE AttemptsAreFailures'
  BY <1>3 DEF Handle
<1>4. ASSUME NEW w \in Relays, NEW c \in claims[w], Finish(w, c) PROVE AttemptsAreFailures'
  <2>1. \A e \in Events : rows'[e].attempts = rows[e].attempts /\ rows'[e].dead = rows[e].dead
    BY <1>4, DispatchedRow, FinishedRow
  <2> QED
    BY <1>4, <2>1 DEF Finish, Drop
<1>5. ASSUME NEW w \in Relays, NEW c \in claims[w], Fail(w, c) PROVE AttemptsAreFailures'
  <2>1. c \in Copy /\ c.attempts <= failures[c.event]
    OBVIOUS
  <2>2. c.event \in Events /\ c.attempts \in Nat /\ failures[c.event] \in Nat
    BY <2>1 DEF Copy
  <2>3. /\ failures'[c.event] = failures[c.event] + 1
        /\ rows'[c.event].attempts = c.attempts + 1
        /\ rows'[c.event].dead => rows[c.event].dead \/ c.attempts + 1 >= MaxAttempts
    <3>1. failures'[c.event] = failures[c.event] + 1
      BY <1>5, <2>2 DEF Fail
    <3> QED
      BY <1>5, <3>1, FailedRow
  <2>4. \A e \in Events \ {c.event} : failures'[e] = failures[e] /\ rows'[e] = rows[e]
    BY <1>5, <2>2 DEF Fail
  <2>5. \A e \in Events : failures[e] \in Nat /\ failures'[e] \in Nat /\ failures[e] <= failures'[e]
    BY <2>2, <2>3, <2>4
  <2>6. \A e \in Events : /\ rows'[e].attempts <= failures'[e]
                          /\ rows'[e].dead => failures'[e] >= MaxAttempts
    BY <2>1, <2>2, <2>3, <2>4
  <2>7. ASSUME NEW v \in Relays, NEW d \in claims'[v] PROVE d.attempts <= failures'[d.event]
    <3>1. d \in claims[v]
      BY <1>5 DEF Fail, Drop
    <3>2. d \in Copy /\ d.attempts <= failures[d.event]
      BY <3>1
    <3>3. d.event \in Events /\ d.attempts \in Nat
      BY <3>2 DEF Copy
    <3>4. failures[d.event] \in Nat /\ failures'[d.event] \in Nat
          /\ failures[d.event] <= failures'[d.event]
      BY <2>5, <3>3
    <3> QED
      BY <3>2, <3>3, <3>4
  <2> QED
    BY <2>6, <2>7
<1>6. ASSUME NEW w \in Relays, Crash(w) PROVE AttemptsAreFailures'
  BY <1>6 DEF Crash
<1>7. CASE UNCHANGED vars
  BY <1>7 DEF vars
<1> QED
  BY <1>1, <1>2, <1>3, <1>4, <1>5, <1>6, <1>7 DEF Next, Dispatch

(* No event is parked before it has failed MAX_ATTEMPTS times, although    *)
(* overlapping relays overwrite each other's counts.                       *)
THEOREM DeadIsEarned == Spec => []DeadOnlyAfterFailures
<1>1. Init => AttemptsAreFailures
  BY DEF Init, AttemptsAreFailures, DeadOnlyAfterFailures
<1>2. AttemptsAreFailures => DeadOnlyAfterFailures
  BY DEF AttemptsAreFailures
<1> QED
  BY <1>1, <1>2, AttemptsStep, TypeCorrect, PTL DEF Spec

-----------------------------------------------------------------------------
(* Redaction.  Only rows that nobody claims any more are blanked.          *)
RedactedIsSettled ==
    /\ \A e \in Events : rows[e].redacted => rows[e].processed \/ rows[e].dead
    /\ NoRedactedDelivery

(* No step blanks a row that can still be claimed.                         *)
LEMMA RedactedStep == TypeOK /\ RedactedIsSettled /\ [Next]_vars => RedactedIsSettled'
<1> SUFFICES ASSUME TypeOK, RedactedIsSettled, [Next]_vars PROVE RedactedIsSettled'
  OBVIOUS
<1> USE DEF TypeOK, RedactedIsSettled, NoRedactedDelivery
<1>1. ASSUME NEW e \in Events, Emit(e) \/ BecomesAvailable(e) PROVE RedactedIsSettled'
  <2>1. \A f \in Events : /\ rows'[f].redacted = rows[f].redacted
                          /\ rows'[f].processed = rows[f].processed
                          /\ rows'[f].dead = rows[f].dead
    BY <1>1, ReadyRows
  <2> QED
    BY <1>1, <2>1 DEF Emit, BecomesAvailable
<1>2. ASSUME NEW w \in Relays, Claim(w) PROVE RedactedIsSettled'
  <2>1. \A e \in Events : /\ rows'[e].redacted = rows[e].redacted
                          /\ rows'[e].processed = rows[e].processed
                          /\ rows'[e].dead = rows[e].dead
    BY <1>2, ClaimedRows
  <2>2. \A v \in Relays : \A c \in claims'[v] : ~c.redacted
    BY <1>2, ClaimedCopies DEF Due
  <2> QED
    BY <2>1, <2>2
<1>3. ASSUME NEW w \in Relays, NEW c \in claims[w], Handle(w, c) PROVE RedactedIsSettled'
  BY <1>3 DEF Handle
<1>4. ASSUME NEW w \in Relays, NEW c \in claims[w], Finish(w, c) \/ Fail(w, c)
      PROVE  RedactedIsSettled'
  <2>1. c.event \in Events
    BY DEF Copy
  <2>2. \A e \in Events : rows'[e].redacted => rows'[e].processed \/ rows'[e].dead
    BY <1>4, DispatchedRow, FinishedRow, FailedRow
  <2>3. \A v \in Relays : claims'[v] \subseteq claims[v]
    BY <1>4 DEF Finish, Fail, Drop
  <2> QED
    BY <2>2, <2>3
<1>5. ASSUME NEW w \in Relays, Crash(w) PROVE RedactedIsSettled'
  BY <1>5 DEF Crash
<1>6. CASE UNCHANGED vars
  BY <1>6 DEF vars
<1> QED
  BY <1>1, <1>2, <1>3, <1>4, <1>5, <1>6 DEF Next, Dispatch

(* No handler is ever given a payload that was blanked before.             *)
THEOREM SecretsReachHandlers == Spec => []NoRedactedDelivery
<1>1. Init => RedactedIsSettled
  BY DEF Init, RedactedIsSettled, NoRedactedDelivery
<1>2. RedactedIsSettled => NoRedactedDelivery
  BY DEF RedactedIsSettled
<1> QED
  BY <1>1, <1>2, RedactedStep, TypeCorrect, PTL DEF Spec

-----------------------------------------------------------------------------
(* The refinement.  What ties the relay to Delivery: handlers commit in a  *)
(* prefix, a relay's step lies inside it, a processed row has all of it,   *)
(* and what is not emitted has nothing.                                    *)
Prefix(e) == \E n \in 0..HandlersOf(e) : done[e] = 1..n
DeliveryInv ==
    /\ \A e \in Events : /\ Prefix(e)
                         /\ rows[e].processed => done[e] = 1..HandlersOf(e)
                         /\ ~rows[e].emitted => /\ done[e] = {}
                                                /\ ~rows[e].processed /\ ~rows[e].dead
    /\ \A w \in Relays : \A c \in claims[w] :
         /\ rows[c.event].emitted
         /\ Current(w, c) => 1..step[w] \subseteq done[c.event]

(* What the end of a dispatch does: to the row it is about, and to what    *)
(* its relay still holds.                                                  *)
DispatchEffect(w, c) ==
    /\ c.event \in Events
    /\ \A e \in Events : rows'[e].emitted = rows[e].emitted
    /\ \A e \in Events \ {c.event} : rows'[e] = rows[e]
    /\ rows[c.event].processed => rows'[c.event].processed
    /\ \A v \in Relays : claims'[v] = IF v = w THEN claims[w] \ {c} ELSE claims[v]
    /\ \A v \in Relays : step'[v] = IF v = w THEN 0 ELSE step[v]
    /\ done' = done

(* A dispatch ends in this way, with the row processed or not.             *)
LEMMA DispatchRow ==
    ASSUME TypeOK, NEW w \in Relays, NEW c \in claims[w]
    PROVE  /\ Finish(w, c) => DispatchEffect(w, c) /\ rows'[c.event].processed
           /\ Fail(w, c) => /\ DispatchEffect(w, c)
                            /\ rows'[c.event].processed = rows[c.event].processed
<1>1. c.event \in Events
  <2>1. c \in Copy
    BY DEF TypeOK
  <2> QED
    BY <2>1 DEF Copy
<1>2. ASSUME Drop(w, c)
      PROVE  /\ \A v \in Relays : claims'[v] = IF v = w THEN claims[w] \ {c} ELSE claims[v]
             /\ \A v \in Relays : step'[v] = IF v = w THEN 0 ELSE step[v]
  BY <1>2 DEF Drop, TypeOK
<1>3. rows[c.event] \in OutboxRow /\ rows \in [Events -> OutboxRow]
  BY <1>1 DEF TypeOK
<1>4. ASSUME Finish(w, c) PROVE DispatchEffect(w, c) /\ rows'[c.event].processed
  <2>1. /\ \A e \in Events : rows'[e].emitted = rows[e].emitted
        /\ \A e \in Events \ {c.event} : rows'[e] = rows[e]
        /\ rows'[c.event].processed
    BY <1>4, DispatchedRow, FinishedRow
  <2> QED
    BY <1>1, <1>2, <1>4, <2>1 DEF Finish, DispatchEffect
<1>5. ASSUME Fail(w, c)
      PROVE  DispatchEffect(w, c) /\ rows'[c.event].processed = rows[c.event].processed
  <2>1. /\ \A e \in Events : rows'[e].emitted = rows[e].emitted
        /\ \A e \in Events \ {c.event} : rows'[e] = rows[e]
        /\ rows'[c.event].processed = rows[c.event].processed
    BY <1>5, DispatchedRow, FailedRow
  <2> QED
    BY <1>1, <1>2, <1>5, <2>1 DEF Fail, DispatchEffect
<1> QED
  BY <1>4, <1>5

(* A handler extends the prefix of its event by at most itself.            *)
LEMMA HandleExtends ==
    ASSUME TypeOK, DeliveryInv, NEW w \in Relays, NEW c \in claims[w], Handle(w, c)
    PROVE  /\ c.event \in Events
           /\ \A e \in Events \ {c.event} : done'[e] = done[e]
           /\ done[c.event] \subseteq done'[c.event]
           /\ \E n \in 0..HandlersOf(c.event) : done'[c.event] = 1..n
           /\ 1..(step[w] + 1) \subseteq done'[c.event]
<1>1. c.event \in Events /\ step[w] \in Nat /\ HandlersOf(c.event) \in Nat
  <2>1. c \in Copy /\ step[w] \in Nat
    BY DEF TypeOK
  <2>2. c.event \in Events
    BY <2>1 DEF Copy
  <2> QED
    BY <2>1, <2>2, OutboxAssumption
<1>2. done'[c.event] = done[c.event] \cup {step[w] + 1} /\ step[w] < HandlersOf(c.event)
  BY <1>1 DEF Handle, TypeOK
<1>3. \A e \in Events \ {c.event} : done'[e] = done[e]
  BY <1>1 DEF Handle, TypeOK
<1>4. PICK n \in 0..HandlersOf(c.event) : done[c.event] = 1..n
  BY <1>1 DEF DeliveryInv, Prefix
<1>5. 1..step[w] \subseteq 1..n
  BY <1>4 DEF DeliveryInv, Handle
<1>6. step[w] <= n
  BY <1>1, <1>5
<1>7. CASE step[w] < n
  <2>1. done'[c.event] = 1..n
    BY <1>1, <1>2, <1>4, <1>7
  <2> QED
    BY <1>1, <1>2, <1>3, <1>4, <1>7, <2>1
<1>8. CASE step[w] = n
  <2>1. done'[c.event] = 1..(n + 1) /\ n + 1 \in 0..HandlersOf(c.event)
    BY <1>1, <1>2, <1>4, <1>8
  <2> QED
    BY <1>1, <1>2, <1>3, <1>4, <1>8, <2>1
<1> QED
  BY <1>1, <1>6, <1>7, <1>8

(* A finished dispatch has run every handler.                              *)
LEMMA FinishIsComplete ==
    ASSUME TypeOK, DeliveryInv, NEW w \in Relays, NEW c \in claims[w], Finish(w, c)
    PROVE  done[c.event] = 1..HandlersOf(c.event)
<1>1. c.event \in Events /\ HandlersOf(c.event) \in Nat
  <2>1. c \in Copy
    BY DEF TypeOK
  <2>2. c.event \in Events
    BY <2>1 DEF Copy
  <2> QED
    BY <2>2, OutboxAssumption
<1>2. 1..HandlersOf(c.event) \subseteq done[c.event]
  BY DEF DeliveryInv, Finish
<1>3. PICK n \in 0..HandlersOf(c.event) : done[c.event] = 1..n
  BY <1>1 DEF DeliveryInv, Prefix
<1> QED
  BY <1>1, <1>2, <1>3

(* Every step keeps the tie.                                               *)
LEMMA DeliveryInvStep == TypeOK /\ DeliveryInv /\ [Next]_vars => DeliveryInv'
<1> SUFFICES ASSUME TypeOK, DeliveryInv, [Next]_vars PROVE DeliveryInv'
  OBVIOUS
<1>1. ASSUME NEW e \in Events, Emit(e) \/ BecomesAvailable(e) PROVE DeliveryInv'
  <2>1. \A f \in Events : /\ rows'[f].processed = rows[f].processed
                          /\ rows'[f].dead = rows[f].dead
                          /\ rows[f].emitted => rows'[f].emitted
    BY <1>1, ReadyRows
  <2>2. \A w \in Relays : \A c \in claims[w] : c.event \in Events
    BY DEF TypeOK, Copy
  <2>3. claims' = claims /\ step' = step /\ done' = done
    BY <1>1 DEF Emit, BecomesAvailable
  <2>4. \A f \in Events : /\ Prefix(f)'
                          /\ rows'[f].processed => done'[f] = 1..HandlersOf(f)
                          /\ ~rows'[f].emitted => /\ done'[f] = {}
                                                 /\ ~rows'[f].processed /\ ~rows'[f].dead
    BY <2>1, <2>3 DEF DeliveryInv, Prefix
  <2>5. ASSUME NEW w \in Relays, NEW c \in claims'[w]
        PROVE  rows'[c.event].emitted /\ (Current(w, c)' => 1..step'[w] \subseteq done'[c.event])
    BY <2>1, <2>2, <2>3 DEF DeliveryInv, Current
  <2> QED
    BY <2>4, <2>5 DEF DeliveryInv
<1>2. ASSUME NEW w \in Relays, Claim(w) PROVE DeliveryInv'
  <2>1. /\ step'[w] = 0
        /\ \A v \in Relays \ {w} : step'[v] = step[v] /\ claims'[v] = claims[v]
    BY <1>2 DEF Claim, TypeOK
  <2>2. done' = done /\ claims[w] = {}
    BY <1>2 DEF Claim
  <2>3. ASSUME NEW v \in Relays, NEW c \in claims'[v]
        PROVE  rows'[c.event].emitted /\ (Current(v, c)' => 1..step'[v] \subseteq done'[c.event])
    <3>1. c.event \in Events /\ rows[c.event].emitted
      BY <1>2, <2>3, ClaimedCopies DEF Due, DeliveryInv, TypeOK, Copy
    <3>2. CASE v = w
      <4>1. 1..step'[v] = {}
        BY <2>1, <3>2
      <4> QED
        BY <1>2, <3>1, <4>1, ClaimedRows
    <3>3. CASE v # w
      <4>1. c \in claims[v]
        BY <2>1, <2>3, <3>3
      <4> QED
        BY <1>2, <2>1, <2>2, <3>1, <3>3, <4>1, ClaimedRows DEF Current, DeliveryInv
    <3> QED
      BY <3>2, <3>3
  <2> QED
    BY <1>2, <2>2, <2>3, ClaimedRows DEF DeliveryInv, Prefix
<1>3. ASSUME NEW w \in Relays, NEW c \in claims[w], Handle(w, c) PROVE DeliveryInv'
  <2>1. rows' = rows /\ claims' = claims
    BY <1>3 DEF Handle
  <2>2. /\ step'[w] = step[w] + 1
        /\ \A v \in Relays \ {w} : step'[v] = step[v]
    BY <1>3 DEF Handle, TypeOK
  <2>3. rows[c.event].emitted
    BY DEF DeliveryInv
  <2>4. ASSUME NEW e \in Events
        PROVE  /\ Prefix(e)'
               /\ rows'[e].processed => done'[e] = 1..HandlersOf(e)
               /\ ~rows'[e].emitted => /\ done'[e] = {}
                                       /\ ~rows'[e].processed /\ ~rows'[e].dead
    <3>1. CASE e = c.event
      <4>1. PICK n \in 0..HandlersOf(e) : done'[e] = 1..n
        BY <1>3, <3>1, HandleExtends
      <4>2. rows[e].processed => 1..HandlersOf(e) \subseteq 1..n
        BY <1>3, <3>1, <4>1, HandleExtends DEF DeliveryInv
      <4>3. HandlersOf(e) \in Nat
        BY OutboxAssumption
      <4>4. rows[e].processed => n = HandlersOf(e)
        BY <4>2, <4>3
      <4> QED
        BY <2>1, <2>3, <3>1, <4>1, <4>4 DEF Prefix
    <3>2. CASE e # c.event
      BY <1>3, <2>1, <3>2, HandleExtends DEF DeliveryInv, Prefix
    <3> QED
      BY <3>1, <3>2
  <2>5. ASSUME NEW v \in Relays, NEW d \in claims[v], Current(v, d)
        PROVE  1..step'[v] \subseteq done'[d.event]
    <3>1. d.event \in Events /\ c.event \in Events /\ Events \subseteq Nat
      BY OutboxAssumption DEF TypeOK, Copy
    <3>2. done[d.event] \subseteq done'[d.event]
      BY <1>3, <3>1, HandleExtends
    <3>3. CASE v # w
      BY <2>2, <2>5, <3>2, <3>3 DEF DeliveryInv
    <3>4. CASE v = w
      <4>1. d.event <= c.event /\ c.event <= d.event
        BY <1>3, <2>5, <3>4 DEF Current, Handle
      <4>2. d.event = c.event
        <5>1. d.event \in Nat /\ c.event \in Nat
          BY <3>1
        <5> QED
          BY <4>1, <5>1
      <4> QED
        BY <1>3, <2>2, <3>4, <4>2, HandleExtends
    <3> QED
      BY <3>3, <3>4
  <2>6. \A v \in Relays : \A d \in claims[v] : Current(v, d)' <=> Current(v, d)
    BY <2>1 DEF Current
  <2> QED
    BY <2>1, <2>4, <2>5, <2>6 DEF DeliveryInv
<1>4. ASSUME NEW w \in Relays, NEW c \in claims[w], Finish(w, c) \/ Fail(w, c)
      PROVE  DeliveryInv'
  <2>1. DispatchEffect(w, c)
    BY <1>4, DispatchRow
  <2>2. \A e \in Events : Prefix(e)'
    BY <2>1 DEF DispatchEffect, DeliveryInv, Prefix
  <2>3. rows'[c.event].processed => done[c.event] = 1..HandlersOf(c.event)
    <3>1. CASE Finish(w, c)
      BY <3>1, FinishIsComplete
    <3>2. CASE Fail(w, c)
      BY <2>1, <3>2, DispatchRow DEF DispatchEffect, DeliveryInv
    <3> QED
      BY <1>4, <3>1, <3>2
  <2>4. \A e \in Events : rows'[e].processed => done'[e] = 1..HandlersOf(e)
    BY <2>1, <2>3 DEF DispatchEffect, DeliveryInv
  <2>5. rows[c.event].emitted
    BY DEF DeliveryInv
  <2>6. \A e \in Events : ~rows'[e].emitted => /\ done'[e] = {}
                                               /\ ~rows'[e].processed /\ ~rows'[e].dead
    BY <2>1, <2>5 DEF DispatchEffect, DeliveryInv
  <2>7. ASSUME NEW v \in Relays, NEW d \in claims'[v]
        PROVE  /\ rows'[d.event].emitted
               /\ Current(v, d)' => 1..step'[v] \subseteq done'[d.event]
    <3>1. d \in claims[v]
      BY <2>1, <2>7 DEF DispatchEffect
    <3>2. d.event \in Events
      <4>1. d \in Copy
        BY <3>1 DEF TypeOK
      <4> QED
        BY <4>1 DEF Copy
    <3>3. rows'[d.event].emitted
      BY <2>1, <3>1, <3>2 DEF DispatchEffect, DeliveryInv
    <3>4. CASE v = w
      <4>1. step'[v] = 0
        BY <2>1, <3>4 DEF DispatchEffect
      <4>2. 1..step'[v] = {}
        BY <4>1
      <4> QED
        BY <3>3, <4>2
    <3>5. CASE v # w
      <4>1. claims'[v] = claims[v] /\ step'[v] = step[v] /\ done' = done
        BY <2>1, <3>5 DEF DispatchEffect
      <4> QED
        BY <3>1, <3>3, <4>1 DEF DeliveryInv, Current
    <3> QED
      BY <3>4, <3>5
  <2> QED
    BY <2>2, <2>4, <2>6, <2>7 DEF DeliveryInv
<1>5. ASSUME NEW w \in Relays, Crash(w) PROVE DeliveryInv'
  <2>1. /\ rows' = rows /\ done' = done /\ claims'[w] = {}
        /\ \A v \in Relays \ {w} : step'[v] = step[v] /\ claims'[v] = claims[v]
    BY <1>5 DEF Crash, TypeOK
  <2> QED
    BY <2>1 DEF DeliveryInv, Prefix, Current
<1>6. CASE UNCHANGED vars
  BY <1>6 DEF vars, DeliveryInv, Prefix, Current
<1> QED
  BY <1>1, <1>2, <1>3, <1>4, <1>5, <1>6 DEF Next, Dispatch

(* One event, seen before and after a step: its delivery moves on or rests.*)
DeliveryStep(e) ==
    \/ StateOf(e) # "pending" /\ StateOf(e)' = "pending" /\ done'[e] = {}
    \/ /\ StateOf(e) = "pending" /\ StateOf(e)' = "pending" /\ done[e] \subseteq done'[e]
       /\ \E n \in 0..HandlersOf(e) : done'[e] = 1..n
    \/ /\ StateOf(e) = "pending" /\ done[e] = 1..HandlersOf(e)
       /\ StateOf(e)' = "processed" /\ done'[e] = done[e]
    \/ StateOf(e) = "pending" /\ StateOf(e)' = "dead" /\ done'[e] = done[e]
    \/ StateOf(e)' = StateOf(e) /\ done'[e] = done[e]

(* A relay that puts an event down settles it, or leaves it as it was.     *)
LEMMA PutDown ==
    ASSUME TypeOK, DeliveryInv', NEW e \in Events, Held(e), rows[e].emitted, rows'[e].emitted,
           done'[e] = done[e]
    PROVE  DeliveryStep(e)
BY DEF DeliveryStep, StateOf, DeliveryInv

(* Every step of the relay moves the delivery of every event by one step.  *)
LEMMA DeliverySteps ==
    ASSUME TypeOK, DeliveryInv, DeliveryInv', [Next]_vars, NEW e \in Events
    PROVE  DeliveryStep(e)
<1>1. ASSUME NEW f \in Events, Emit(f) PROVE DeliveryStep(e)
  <2>1. Held(e)' <=> Held(e)
    BY <1>1 DEF Emit, Held
  <2>2. CASE e = f
    <3>1. /\ ~rows[e].emitted /\ rows'[e].emitted /\ done'[e] = done[e]
          /\ rows'[e].processed = rows[e].processed /\ rows'[e].dead = rows[e].dead
      BY <1>1, <2>2 DEF Emit, TypeOK, OutboxRow
    <3>2. done[e] = {} /\ ~rows'[e].processed /\ ~rows'[e].dead
      BY <3>1 DEF DeliveryInv
    <3> QED
      BY <3>1, <3>2 DEF DeliveryStep, StateOf
  <2>3. CASE e # f
    <3>1. rows'[e] = rows[e] /\ done' = done
      BY <1>1, <2>3 DEF Emit, TypeOK
    <3> QED
      BY <2>1, <3>1 DEF DeliveryStep, StateOf
  <2> QED
    BY <2>2, <2>3
<1>2. ASSUME NEW f \in Events, BecomesAvailable(f) PROVE DeliveryStep(e)
  <2>1. /\ rows'[e].emitted = rows[e].emitted /\ rows'[e].processed = rows[e].processed
        /\ rows'[e].dead = rows[e].dead /\ done' = done
    BY <1>2 DEF BecomesAvailable, TypeOK, OutboxRow
  <2>2. Held(e)' <=> Held(e)
    BY <1>2 DEF BecomesAvailable, Held
  <2> QED
    BY <2>1, <2>2 DEF DeliveryStep, StateOf
<1>3. ASSUME NEW w \in Relays, Claim(w) PROVE DeliveryStep(e)
  <2>1. /\ rows'[e].emitted = rows[e].emitted /\ rows'[e].processed = rows[e].processed
        /\ rows'[e].dead = rows[e].dead
    BY <1>3, ClaimedRows
  <2>2. done' = done
    BY <1>3 DEF Claim
  <2>3. Held(e) => Held(e)'
    BY <1>3 DEF Claim, Held, TypeOK
  <2>4. Held(e)' => Held(e) \/ e \in Due
    BY <1>3, ClaimedCopies DEF Held
  <2> QED
    BY <2>1, <2>2, <2>3, <2>4 DEF DeliveryStep, StateOf, Due
<1>4. ASSUME NEW w \in Relays, NEW c \in claims[w], Handle(w, c) PROVE DeliveryStep(e)
  <2>1. /\ rows' = rows /\ claims' = claims
        /\ rows[c.event].emitted
    BY <1>4 DEF Handle, DeliveryInv
  <2>2. StateOf(e)' = StateOf(e)
    BY <2>1 DEF StateOf, Held
  <2>3. CASE e = c.event
    <3>1. StateOf(e) = "pending"
      BY <2>1, <2>3 DEF StateOf, Held
    <3>2. done[e] \subseteq done'[e] /\ \E n \in 0..HandlersOf(e) : done'[e] = 1..n
      BY <1>4, <2>3, HandleExtends
    <3> QED
      BY <2>2, <3>1, <3>2 DEF DeliveryStep
  <2>4. CASE e # c.event
    <3>1. done'[e] = done[e]
      BY <1>4, <2>4, HandleExtends
    <3> QED
      BY <2>2, <3>1 DEF DeliveryStep
  <2> QED
    BY <2>3, <2>4
<1>5. ASSUME NEW w \in Relays, NEW c \in claims[w], Finish(w, c) \/ Fail(w, c)
      PROVE  DeliveryStep(e)
  <2>1. DispatchEffect(w, c) /\ rows[c.event].emitted
    BY <1>5, DispatchRow DEF DeliveryInv
  <2>2. CASE e = c.event
    <3>1. Held(e) /\ rows[e].emitted /\ rows'[e].emitted /\ done'[e] = done[e]
      BY <2>1, <2>2 DEF DispatchEffect, Held
    <3> QED
      BY <3>1, PutDown
  <2>3. CASE e # c.event
    <3>1. rows'[e] = rows[e] /\ done'[e] = done[e]
      BY <2>1, <2>3 DEF DispatchEffect
    <3>2. Held(e)' <=> Held(e)
      BY <2>1, <2>3 DEF DispatchEffect, Held
    <3> QED
      BY <3>1, <3>2 DEF DeliveryStep, StateOf
  <2> QED
    BY <2>2, <2>3
<1>6. ASSUME NEW w \in Relays, Crash(w) PROVE DeliveryStep(e)
  <2>1. /\ rows' = rows /\ done' = done
        /\ \A v \in Relays : claims'[v] \subseteq claims[v]
    BY <1>6 DEF Crash, TypeOK
  <2>2. CASE Held(e)
    <3>1. rows[e].emitted
      BY <2>2 DEF Held, DeliveryInv
    <3> QED
      BY <2>1, <2>2, <3>1, PutDown
  <2>3. CASE ~Held(e)
    <3>1. ~Held(e)'
      BY <2>1, <2>3 DEF Held
    <3> QED
      BY <2>1, <2>3, <3>1 DEF DeliveryStep, StateOf
  <2> QED
    BY <2>2, <2>3
<1>7. CASE UNCHANGED vars
  BY <1>7 DEF vars, DeliveryStep, StateOf, Held
<1> QED
  BY <1>1, <1>2, <1>3, <1>4, <1>5, <1>6, <1>7 DEF Next, Dispatch

(* Such steps are the steps of Delivery under the refinement mapping.      *)
LEMMA RelayRefines ==
    TypeOK /\ DeliveryInv /\ DeliveryInv' /\ [Next]_vars => Abstract!Next
<1> SUFFICES ASSUME TypeOK, DeliveryInv, DeliveryInv', [Next]_vars, NEW e \in Events
             PROVE  \/ Abstract!Rest(e) \/ Abstract!Emit(e) \/ Abstract!Run(e)
                    \/ Abstract!Process(e) \/ Abstract!GiveUp(e)
  BY DEF Abstract!Next
<1>1. DeliveryStep(e)
  BY DeliverySteps
<1> QED
  BY <1>1 DEF DeliveryStep, Abstract!Rest, Abstract!Emit, Abstract!Run, Abstract!Process,
     Abstract!GiveUp

(* The relay keeps the promise the other modules rely on, for any number   *)
(* of relays whose leases lapse and which crash as they like.              *)
THEOREM RelayKeepsDelivery == Spec => DeliveryKept
<1>1. Init => DeliveryInv
  <2> SUFFICES ASSUME Init PROVE DeliveryInv
    OBVIOUS
  <2>1. \A e \in Events : 0 \in 0..HandlersOf(e) /\ 1..0 = {}
    BY OutboxAssumption
  <2> QED
    BY <2>1 DEF Init, DeliveryInv, Prefix
<1>2. Init => Abstract!Init
  BY DEF Init, Abstract!Init, StateOf, Held
<1>3. Spec => []DeliveryInv
  BY <1>1, DeliveryInvStep, TypeCorrect, PTL DEF Spec
<1> QED
  BY <1>2, <1>3, RelayRefines, TypeCorrect, PTL DEF Spec, DeliveryKept, Abstract!Spec
=============================================================================
