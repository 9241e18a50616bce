\* Two bookings of one period compete for the last use of a promotion.
CONSTANTS
    Bookings = {b1, b2}
    Overlaps <- SamePeriod
    Inventory = FALSE
    Stock = 0
    Deposit <- OneEach
    Final <- ThreeForFirst
    Methods = {card}
    Redeliver = FALSE
    Workers = {w1}
    MaxDead = 0
    Limit = 1
    b1 = b1
    b2 = b2
    card = card
    w1 = w1
SPECIFICATION PromotionSpec
CHECK_DEADLOCK FALSE
INVARIANTS PromotionTypeOK UsesAreCounted HeldDiscountIsCounted
