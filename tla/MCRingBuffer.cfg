SPECIFICATION RingSpec
CONSTANTS
    p1 = p1
    p2 = p2
    Producers = {p1, p2}
    Empty = Empty
    Size = 4
    MaxCalls <- FiveCalls
INVARIANTS TypeOK QueueUntilSkip
PROPERTY AcceptedIsDelivered
CHECK_DEADLOCK FALSE
