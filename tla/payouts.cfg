\* A partner's runs while its settlements are released, refunded, clawed back.
CONSTANTS
    PayeeType = "partner"
    s1 = s1
    s2 = s2
    a1 = a1
    a2 = a2
    Settlements = {s1, s2}
    Earnings <- Earned
    Balances <- LateBalances
    Tax = 1
    MinAmount = 2
    Admins = {a1, a2}
    MaxPayouts = 2
    MaxRefunds = 1
SYMMETRY Interchangeable
SPECIFICATION Spec
CHECK_DEADLOCK FALSE
INVARIANTS TypeOK AllocationsMatchPayouts NeverClaimedBeyondWorth PayableIsAllocatable
