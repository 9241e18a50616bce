\* An event is given up, the provider declines refunds, reconciliation repairs.
CONSTANTS
    Deposit = 2
    Final = 2
    Security = 1
    RefundPercents = {50}
    HoldingDays = 3
    BalanceLinks = FALSE
    Redeliver = FALSE
    Recover = TRUE
    RefundsMayFail = TRUE
    Workers = {w1}
    MaxDead = 1
    MaxJournals = 2
    w1 = w1
    w2 = w2
SPECIFICATION FairSpec
CHECK_DEADLOCK FALSE
INVARIANTS RefundTruth
PROPERTIES RefundsAreCarriedThrough
