SPECIFICATION SpecInScene
CONSTANTS
    j1 = j1
    x = x
    y = y
    e1 = e1
    Jobs = {j1}
    Applications = {a1, a2}
    JobOf <- SameJob
    MaxAttempts = 2
    Workers = {p1, p2}
    NoApplication = NoApplication
    Payments = {x, y}
    Events = {e1, e2}
    PaymentOf <- Checkouts
    PaystackEvents = {e1}
    MAX_WEBHOOK_ATTEMPTS = 3
    Recoverers = {w1, w2}
    Pages = {v1}
    NoEvent = NoEvent
SYMMETRY Symmetry
CONSTRAINT PaymentsAreAlone
INVARIANTS
    OneContractOfEachType
    FundedByOnePaidAttempt
    ReleasedOnce
    CancelledTakesNoMoney
    AcknowledgedIsFunded
    RetriedOrGivenUp
PROPERTIES
    ArchivedKeepsStill
    ImplementsPromise
    ProcessedIsFinal
CHECK_DEADLOCK FALSE
