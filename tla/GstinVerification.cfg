SPECIFICATION Spec
CONSTANTS
    Intent = {i1, i2, i3}
    Request = {r1, r2}
    Choices <- BothLevels
    Life = 1
    Fresh <- OneTick
    Limit = 2
    MaxTime = 1
    MaxSettings = 2
SYMMETRY Interchangeable
INVARIANTS
    OneWorkerPerKey
    UncertainKeepsItsKey
PROPERTIES
    KnownIsNotPaidForAgain
CHECK_DEADLOCK FALSE
