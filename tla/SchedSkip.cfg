SPECIFICATION Spec
CONSTANTS
    MaxTaskId = 2
    Events = {e1, e2}
    NoEvent = NoEvent
    Ops <- SkipOps
    MaxDepth = 3
    MaxSends = 2
    MaxWaiters = 3
    MaxCbs = 1
    MaxRemovals = 2
INVARIANT StartNotSkipped
CHECK_DEADLOCK FALSE
