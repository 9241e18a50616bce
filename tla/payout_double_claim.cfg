\* A run is marked paid while the next one is being created.
CONSTANTS
    PayeeType = "affiliate"
    s1 = s1
    s2 = s2
    a1 = a1
    a2 = a2
    Settlements = {s1}
    Earnings <- EarnedOnline
    Balances <- NoBalance
    Tax = 0
    MinAmount = 1
    Admins = {a1}
    MaxPayouts = 2
    MaxRefunds = 0
SPECIFICATION Spec
CHECK_DEADLOCK FALSE
INVARIANTS NoDoubleClaim
