SPECIFICATION FairSpec
CONSTANTS
    Clerk = {c1, c2}
    Pair = {1, 2}
    Dispatched = 1
    MaxReturn = 1
PROPERTIES EachLineIsCovered CreditNotesStayCovered RequestsFinish
CHECK_DEADLOCK FALSE
