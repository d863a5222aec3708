SPECIFICATION Spec
CONSTANTS
    p1 = p1
    p2 = p2
    c1 = c1
    c2 = c2
    c3 = c3
    w1 = w1
    w2 = w2
    Purchases = {p1, p2}
    Charges = {c1, c2, c3}
    PurchaseOf <- Pages
    Workers = {w1, w2}
    MaxCrashes = 1
    NoPurchase = NoPurchase
    NoCharge = NoCharge
SYMMETRY Symmetry
CONSTRAINTS
    RestartsAreEarly
    SecondPageIsPlain
    PendingIsAlone
INVARIANTS
    RowsAgree
    AcknowledgedIsDecided
PROPERTY
    ImplementsPlan
