SPECIFICATION Spec
CONSTANTS
    Orders <- MixedOrders
    Ticket <- MixedTickets
    NoOrder = NoOrder
    EngineStp = "Disabled"
    RingCap = 3
    Cancellers = {"", "ann"}
    MaxOrders = 3
    MaxCancels = 1
INVARIANTS
    TypeOK BookConsistent NoCrossedBook FillsRespectTickets QuantityConserved
    FillsAccountForOrders OpenOrdersReachable
PROPERTIES PriceTimePriority CancelIsFinal
CHECK_DEADLOCK FALSE
