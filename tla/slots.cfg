\* Two bookings of one calendar slot; handlers repeat, an event may be lost.
CONSTANTS
    Bookings = {b1, b2}
    Overlaps <- SamePeriod
    Inventory = FALSE
    Stock = 0
    Deposit <- OneEach
    Final <- OneEach
    Methods = {card}
    Redeliver = TRUE
    Workers = {w1, w2}
    MaxDead = 1
    b1 = b1
    b2 = b2
    card = card
    w1 = w1
    w2 = w2
SPECIFICATION FairSpec
CHECK_DEADLOCK FALSE
INVARIANTS NeverOversold RefundDecisionIsFinal
PROPERTIES SweepsActOnFreshState CapturedMoneyIsServed WaitingIsBounded
