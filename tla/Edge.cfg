SPECIFICATION Spec
CONSTANTS
    Tasks = {t1, t2, t3}
    Builds = {"merge", "chunk", "direct"}
    ChunkSize = 2
    MaxChanges = 2
    MergeChanges = 1
CHECK_DEADLOCK FALSE
INVARIANTS
    TypeOK
    WaitsCovered
    CountExact
PROPERTIES
    ImplementsEdgeWaits
