SPECIFICATION Spec
CONSTANTS
    MaxTaskId = 2
    Events = {e1}
    NoEvent = NoEvent
    Ops <- RemoveOps
    MaxDepth = 2
    MaxSends = 2
    MaxWaiters = 2
    MaxCbs = 1
    MaxRemovals = 3
INVARIANTS
    TypeOK
    CurrTaskIsInnermost
    RemovalCounted
CHECK_DEADLOCK FALSE
