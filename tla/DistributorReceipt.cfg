SPECIFICATION ReceiptSpec
CONSTANTS
    Line = {"a", "b"}
    Group <- TwoGroups
    Packed <- Pieces
    User = {u1, u2}
    MaxVersion = 5
SYMMETRY Interchangeable
INVARIANTS
    LedgerHasOneSource
    ReceiptIsWhatWasEntered
    AnswersAreTrue
CHECK_DEADLOCK FALSE
