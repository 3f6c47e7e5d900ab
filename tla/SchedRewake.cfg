SPECIFICATION Spec
CONSTANTS
    MaxTaskId = 3
    Events = {e1, e2}
    NoEvent = NoEvent
    Ops <- RewakeOps
    MaxDepth = 3
    MaxSends = 2
    MaxWaiters = 3
    MaxCbs = 1
    MaxRemovals = 2
INVARIANT WaitQueuedForNextSend
CHECK_DEADLOCK FALSE
