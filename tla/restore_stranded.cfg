\* One discounted booking that expires and is paid late.
CONSTANTS
    Bookings = {b1}
    Overlaps <- SamePeriod
    Inventory = FALSE
    Stock = 0
    Deposit <- OneEach
    Final <- OneEach
    Methods = {card}
    Redeliver = FALSE
    Workers = {w1}
    MaxDead = 0
    Limit = 1
    b1 = b1
    b2 = b2
    card = card
    w1 = w1
SPECIFICATION PromotionFairSpec
CHECK_DEADLOCK FALSE
PROPERTY CapturedMoneyIsServed
