\* Handlers run again, two workers overlap, the balance is paid at any time.
CONSTANTS
    Deposit = 1
    Final = 2
    Security = 0
    RefundPercents = {}
    HoldingDays = 3
    BalanceLinks = TRUE
    Redeliver = TRUE
    Recover = FALSE
    RefundsMayFail = FALSE
    Workers = {w1, w2}
    MaxDead = 0
    MaxJournals = 3
    w1 = w1
    w2 = w2
SPECIFICATION Spec
CHECK_DEADLOCK FALSE
INVARIANTS TypeOK RevenueNotBookedTwice TaxNeverOverReversed
PROPERTIES TerminalStatesStay OutboxIsDelivery
