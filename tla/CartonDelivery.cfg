SPECIFICATION DeliverySpec
CONSTANTS
    Desk = {k1, k2}
    Person = {p1}
    ValidFor = 1
    MaxTime = 1
    MaxVersion = 2
    MaxToken = 2
SYMMETRY Interchangeable
INVARIANTS
    OneLiveCredential
    AnswersAreTrue
PROPERTIES
    DeliveredByAGoodLabel
CHECK_DEADLOCK FALSE
