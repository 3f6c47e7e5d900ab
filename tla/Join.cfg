SPECIFICATION JSpec
CONSTANTS
    MaxTaskId = 4
    Events = {h1, h2, x}
    Handles = {h1, h2}
    NoEvent = NoEvent
    Ops <- JoinOps
    MaxDepth = 3
    MaxSends = 2
    MaxWaiters = 2
    MaxCbs = 1
    MaxRemovals = 0
    MaxUserWaiters = 1
    Sharing = "joins"
    PendingInJoin = FALSE
INVARIANTS
    JoinTypeOK
    JoinWokenByHandle
    JoinNotStuck
PROPERTIES
    JoinAfterEnd
    GroupComplete
VIEW View
SYMMETRY HandleSymmetry
CHECK_DEADLOCK FALSE
