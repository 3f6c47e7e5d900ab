SPECIFICATION Spec
CONSTANTS
    ByteBits = 2
    WordBytes = 2
    Waves = {"w1", "w2"}
    Contents <- MCContents
    Names <- MCNames
    Threshold = 2
    Steps = {"main", "posedge"}
    Hosts = {"wave"}
    MaxTime = 4
    MaxEvents = 3
CHECK_DEADLOCK FALSE
INVARIANTS
    SignalsLoaded
