SPECIFICATION Spec
CONSTANTS
    ByteBits = 2
    WordBytes = 2
    Waves = {"w1", "w2", "w3"}
    Contents <- MCContents
    Names <- MCNames
    Threshold = 2
    Steps = {"main", "posedge"}
    Hosts = {"wave", "embed", "vcs"}
    MaxTime = 4
    MaxEvents = 2
CHECK_DEADLOCK FALSE
INVARIANTS
    TypeOK
    CacheFresh
    HandlesLoaded
    ReadsRight
    HierarchyExact
    TreeRooted
    CallbacksOnce
    FinishedOnce
