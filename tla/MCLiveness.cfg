SPECIFICATION FairSpecInScene
CONSTANTS
    p1 = p1
    p2 = p2
    c1 = c1
    c3 = c3
    Wallets = {w1}
    Withdrawals = {d1, d2}
    d1 = d1
    r1 = r1
    Amounts = {1}
    LegacyAmount = 1
    ScriptBatch = 1
    MaxCredited = 2
    NoWithdrawal = NoWithdrawal
    Payments = {x}
    Events = {e1, e2}
    PaystackEvents = {e2}
    MAX_WEBHOOK_ATTEMPTS = 2
    Pages = {}
    NoEvent = NoEvent
    Purchases = {p1, p2}
    Charges = {c1, c3}
    PurchaseOf <- OnePage
    MaxCrashes = 1
    NoPurchase = NoPurchase
    NoCharge = NoCharge
    Requests = {r1, r2}
    Readers = {h1}
PROPERTIES
    SettledTransferIsApplied
    EveryEventIsDecided
    SuccessIsDecided
CHECK_DEADLOCK FALSE
