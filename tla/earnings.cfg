\* One booking at a time; the system rests when it is released or refunded.
CONSTANTS
    Bookings <- MCBookings
    Amounts <- MCAmounts
SPECIFICATION Spec
INVARIANTS LedgerMatchesRows PayableIsBacked
CHECK_DEADLOCK FALSE
