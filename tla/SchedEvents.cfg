SPECIFICATION Spec
CONSTANTS
    MaxTaskId = 3
    Events = {e1, e2}
    NoEvent = NoEvent
    Ops <- EventOps
    MaxDepth = 3
    MaxSends = 2
    MaxWaiters = 3
    MaxCbs = 1
    MaxRemovals = 0
INVARIANTS
    NoLostWakeup
    WakeSourceUnique
    RunningTasksExact
    ResumedNotForgotten
VIEW WithoutRemoval
SYMMETRY EventSymmetry
CHECK_DEADLOCK FALSE
