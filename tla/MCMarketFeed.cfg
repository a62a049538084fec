SPECIFICATION Spec
CONSTANTS
    Clients = {"c1", "c2"}
    SignedIn = {"c1"}
    SendCap = 1
    ShoutsCap = 1
    MaxShouts = 1
    Users = {"ann", "bob"}
    Requests <- OrderRequests
    Request <- Orders
    Prices = {1, 3}
    Band = 1
    MaxQty = 2
    MaxPosition = 1
    Limits <- FreeAndTight
    Minute = 1
    Day = 2
    Intervals <- OneAndTwo
    MaxTape = 2
    MaxCandles = 2
    DefaultPage = 1
    LargestPage = 2
    TradesPage = 1
    TradesCap = 1
    Streams = {"s1", "s2"}
    Workloads <- Several
INVARIANTS TypeOK   RateLimitHolds NothingSkipped 
CHECK_DEADLOCK FALSE
