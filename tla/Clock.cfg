SPECIFICATION Spec
CONSTANTS
    clk = clk
    Clocks = {a, b}
    Signals = {clk}
    SignalOf <- OnOneSignal
    MaxPeriod = 4
    DestroyForeign = FALSE
    MayFail = TRUE
INVARIANTS
    TypeOK
    NoDanglingCallback
    OneDriver
    RegistryExact
    PhaseLength
PROPERTY KeepsToggling
CHECK_DEADLOCK FALSE
