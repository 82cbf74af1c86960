SPECIFICATION Spec
CONSTANTS
    Carton = {1, 2, 3, 4}
    Line = {"a", "b"}
    Goods <- OneStore
    NoStore = "unlinked"
    MaxList = 2
    PageLimit = 1
    ScanBudget = 2
INVARIANTS
    OneOwnerPerList
    DispatchIsItsSnapshot
    ListingMissesNothing
CHECK_DEADLOCK FALSE
