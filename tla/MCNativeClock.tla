--------------------------- MODULE MCNativeClock ---------------------------
(* Instances of NativeClock for TLC: two or three clocks on one signal. *)
EXTENDS NativeClock

CONSTANT clk

OnOneSignal == [c \in Clocks |-> clk]
=============================================================================
