SPECIFICATION Spec
CONSTANTS
    clk = clk
    Clocks = {a, b, c}
    Signals = {clk}
    SignalOf <- OnOneSignal
    MaxPeriod = 2
    DestroyForeign = TRUE
    MayFail = FALSE
INVARIANT OneDriver
CHECK_DEADLOCK FALSE
