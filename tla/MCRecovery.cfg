SPECIFICATION Spec
CONSTANTS
    Ops = {o1, o2, o3}
    NoOp = NoOp
    Savers = {ticker, admin}
    MaxCrashes = 2
    MaxSaves = 2
INVARIANT RecoveredExactly
CHECK_DEADLOCK FALSE
