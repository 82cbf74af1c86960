SPECIFICATION FairSpec
CONSTANTS
    Attempt = {a1, a2}
    Key = {k1, k2}
    Body = {"both", "first", "second"}
    Pool = {1, 2}
    Demand <- OnePieceEach
    MaxStock = 2
    NoAttempt = NoAttempt
INVARIANTS
    NoOverAllocation
    OneOrderPerKey
    NumbersAreGapless
PROPERTIES
    ReservationIsAtomic
    EveryRequestSettles
CHECK_DEADLOCK FALSE
