\* A cancellation and a deposit return contend for the deposit of one booking.
CONSTANTS
    deposit = deposit
    balance = balance
    w1 = w1
    w2 = w2
    Payments = {deposit, balance}
    Captured <- Capture
    Age <- CaptureAge
    DepositSource = deposit
    Wallets = {balance}
    Cards = {deposit}
    Reasons = {"booking_cancellation", "security_deposit"}
    Deposit = "security_deposit"
    Amounts = {2}
    Workers = {w1, w2}
    MaxConfirming = 1
    MaxTransfers = 1
SPECIFICATION FairSpec
CHECK_DEADLOCK FALSE
INVARIANTS TypeOK CapacityKept AnnouncedOnceInFull ProviderAgrees OperationClosesBatch
PROPERTIES PromisesKept EveryRefundSettles
