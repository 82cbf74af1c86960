SPECIFICATION BillSpec
CONSTANTS
    Request = {r1, r2}
    Timeout = 1
    Grace = 1
    Stall = 0
    MaxTime = 5
    MaxAttempt = 3
    MaxChange = 2
SYMMETRY Interchangeable
INVARIANTS
    OpenAttemptIsExplained
    SentIsOnRecord
    BillIsOfItsAttempt
CHECK_DEADLOCK FALSE
