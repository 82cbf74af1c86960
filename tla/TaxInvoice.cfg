SPECIFICATION Spec
CONSTANTS
    List = {x}
    Issuer = {r1, r2}
    Accountant = {a1}
    MaxInvoice = 3
    MaxEdit = 2
SYMMETRY Interchangeable
INVARIANTS
    NumbersAreGapless
    IssuedKeepsItsImage
PROPERTIES
    IssuedAsPrepared
CHECK_DEADLOCK FALSE
