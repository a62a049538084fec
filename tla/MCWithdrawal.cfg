CONSTANTS
    w1 = w1
    w2 = w2
    NoWithdrawal = NoWithdrawal
    Withdrawals = {w1, w2}
    Amount <- Asked
    Opening = 3
    Threshold = 2
    DailyLimit = 2
    Gateways = {g1}
    Admins = {a1}
    Workers = {k1, k2}
    Stores <- TwoStores
    MaxDecisions = 2
    MaxTrouble = 1
SPECIFICATION Spec
INVARIANTS TypeOK LockedCoversOpen BooksAgree LimitKept
CHECK_DEADLOCK FALSE
