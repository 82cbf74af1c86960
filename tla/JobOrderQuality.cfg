SPECIFICATION Spec
CONSTANTS
    Batch = {b1, b2}
    Request = {r1, r2}
    Stages = 2
    InlineAt = 1
    FinalAt = 2
    Ordered = 2
SYMMETRY Symmetry
INVARIANTS
    PreparedCoversBatches
    
    DispositionIsEarned
    CompleteIsResolved
PROPERTIES
    UndoneBeforeInspection
CHECK_DEADLOCK FALSE
