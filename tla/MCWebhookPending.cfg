SPECIFICATION WebhookSpec
CONSTANTS
    x = x
    y = y
    e1 = e1
    e2 = e2
    e3 = e3
    w1 = w1
    w2 = w2
    v1 = v1
    Payments = {x}
    Events = {e1, e2}
    PaymentOf <- Checkouts
    PaystackEvents = {}
    MAX_WEBHOOK_ATTEMPTS = 2
    Recoverers = {w1}
    Pages = {}
    NoEvent = NoEvent
INVARIANT
    PendingStaysRetryable
CHECK_DEADLOCK FALSE
