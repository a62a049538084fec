SPECIFICATION Spec
CONSTANTS
    Orders <- FokOrders
    Ticket <- FokTickets
    NoOrder = NoOrder
    EngineStp = "Disabled"
    RingCap = 3
    Cancellers = {"bob"}
    MaxOrders = 3
    MaxCancels = 1
INVARIANT FokAllOrNothing
CHECK_DEADLOCK FALSE
