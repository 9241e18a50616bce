\* Two bookings of the only unit of an inventory listing.
CONSTANTS
    Bookings = {b1, b2}
    Overlaps <- SamePeriod
    Inventory = TRUE
    Stock = 1
    Deposit <- OneEach
    Final <- OneEach
    Methods = {card}
    Redeliver = TRUE
    Workers = {w1, w2}
    MaxDead = 1
    b1 = b1
    b2 = b2
    card = card
    w1 = w1
    w2 = w2
SPECIFICATION Spec
CHECK_DEADLOCK FALSE
INVARIANT NeverOversold
