\* Every handler runs exactly once; one relay or sweep at a time.
CONSTANTS
    Deposit = 4
    Final = 6
    Security = 2
    RefundPercents = {50}
    HoldingDays = 3
    BalanceLinks = FALSE
    Redeliver = FALSE
    Recover = FALSE
    RefundsMayFail = FALSE
    Workers = {w1}
    MaxDead = 0
    MaxJournals = 2
    w1 = w1
    w2 = w2
SPECIFICATION FairSpec
CHECK_DEADLOCK FALSE
INVARIANTS LedgerMatchesCustody RefundsMatchCustody TaxFollowsRefunds DisputeFreezesPayout RefundPendingIsBacked
PROPERTIES CustodyIsEscrow SettlesUnlessWaiting
