SPECIFICATION Spec
CONSTANTS
    w1 = w1
    d1 = d1
    d2 = d2
    p1 = p1
    p2 = p2
    Wallets = {w1}
    Withdrawals = {d1, d2}
    Workers = {p1, p2}
    Amounts = {1, 2}
    WalletOf <- OneWallet
    ProviderOf <- OneLegacy
    LegacyAmount = 1
    ScriptBatch = 1
    MaxCredited = 3
    NoWithdrawal = NoWithdrawal
SYMMETRY WorkerSymmetry
INVARIANTS
    PendingIsReserved
    CreditIsConserved
    AtMostOneTransferRequest
    NoRefundOfLivePayout
PROPERTIES
    ImplementsLedger
