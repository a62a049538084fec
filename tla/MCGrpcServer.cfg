SPECIFICATION ServerSpec
CONSTANTS
    Orders <- RequestOrders
    Request <- Requests
    Ticket <- PlacedTickets
    NoOrder = NoOrder
    EngineStp = "Disabled"
    RingCap = 3
    Cancellers = {""}
    MaxOrders = 3
    MaxCancels = 1
    Limit = 2
INVARIANT StreamShowsBook
PROPERTY RequestsAreServed
CHECK_DEADLOCK FALSE
