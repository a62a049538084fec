CONSTANTS
    Users <- MCUsers
    Pools <- MCPools
    Tokens <- MCTokens
    Token0 <- MCToken0
    Token1 <- MCToken1
    FeeNum = 1
    FeeDen = 4
    Opening <- MCOpening
    Funded <- MCFunded
    Seed <- MCSeed
    SeedShares <- MCSeedShares
    Gateways <- MCGateways
    Requests <- MCRequests
    Ask <- MCAsk
    Workloads <- MCWorkloads
    MaxTrouble = 2
SPECIFICATION Spec
INVARIANTS TypeOK 
 
CHECK_DEADLOCK FALSE
