SPECIFICATION Spec
CONSTANTS
    Order = {o1}
    Factory = {f1}
    Dest = {1, 2}
    Style = {s1}
    Size = {z1}
    Configured <- AllSizes
    Inspector = {i1}
    Total = {1, 2}
    ReleaseQty = {2}
    MaxRelease = 2
    MaxLine = 2
    MaxCarton = 1
    MaxVersion = 2
INVARIANTS
    AttributionExact
    PackedIsReserved
    ReadyIsComplete
PROPERTIES
    OnlyReleasingEditsOverAllocate
CHECK_DEADLOCK FALSE
