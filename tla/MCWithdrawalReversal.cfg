SPECIFICATION Spec
CONSTANTS
    w1 = w1
    d1 = d1
    d2 = d2
    p1 = p1
    p2 = p2
    Wallets = {w1}
    Withdrawals = {d1, d2}
    Workers = {p1, p2}
    Amounts = {1, 2}
    WalletOf <- OneWallet
    ProviderOf <- AllFlutterwave
    LegacyAmount = 1
    ScriptBatch = 1
    MaxCredited = 3
    NoWithdrawal = NoWithdrawal
INVARIANT
    ReversedAfterSuccess
