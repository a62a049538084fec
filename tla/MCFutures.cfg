CONSTANTS
    Users <- MCUsers
    Pairs <- MCPairs
    Positions <- MCPositions
    Orders <- MCOrders
    Ticket <- MCTicket
    Requests <- MCRequests
    Ask <- MCAsk
    Loops <- MCLoops
    Hourly <- MCHourly
    Prices <- MCPrices
    Opening <- MCOpening
    Unit = 1
    FundingRate <- MCFundingRate
    Workloads <- MCWorkloads
    MaxTrouble = 2
SPECIFICATION FairSpec
INVARIANTS TypeOK MarginLocked DoneOnce 
 
CHECK_DEADLOCK FALSE
