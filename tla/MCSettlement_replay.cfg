SPECIFICATION Spec
CONSTANTS
    Users = {"ann", "bob"}
    Assets = {"BTC", "ETH", "USDT"}
    Pairs = {"btc", "eth"}
    Orders <- TradesOrders
    Ticket <- Trades
    Base <- BaseOf
    Quote <- QuoteOf
    Opening <- Wallets
    Funded <- WalletRows
    Scale = 2
    TakerRate = 1
    MakerRate = 0
    FillsCap = 1
    Tries = 1
    Deposits <- DepositRequests
    Deposit <- SomeDeposits
    Workloads <- Mixed
    MaxTrouble = 2
INVARIANT ReplayIsNoOp
CHECK_DEADLOCK FALSE
