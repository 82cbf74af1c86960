SPECIFICATION Spec
CONSTANTS
    Order = {o1, o2}
    Factory = {f1, f2}
    Dest = {1, 2}
    Style = {s1, s2}
    Size = {z1}
    Configured <- AllSizes
    Inspector = {i1}
    Total = {1}
    ReleaseQty = {1}
    MaxRelease = 2
    MaxLine = 2
    MaxCarton = 1
    MaxVersion = 2
SYMMETRY Interchangeable
INVARIANTS
    ReservedFromItsPool
    AuditedCartonMatches
CHECK_DEADLOCK FALSE
