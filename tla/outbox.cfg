\* Two rows claimed in one batch by two relays; an event may fail twice.
CONSTANTS
    Events = {1, 2}
    HandlersOf <- TwoHandlers
    Secret = {1}
    Relays = {w1, w2}
    BatchSize = 2
    MaxAttempts = 2
    MaxCrashes = 1
    w1 = w1
    w2 = w2
SPECIFICATION FairSpec
CHECK_DEADLOCK FALSE
INVARIANTS DeadOnlyAfterFailures NoRedactedDelivery
PROPERTIES EveryEventSettles DeliveryKept
