---------------------------- MODULE NativeClock ----------------------------
(* The native clock driver, translated from
   src/libverilua/src/native_clock.rs and its Lua wrapper
   src/src/lua/verilua/utils/NativeClock.lua.

   A NativeClock drives a signal from a chain of cbAfterDelay callbacks: each
   one sets the signal and registers the next.  The registry ACTIVE_SIGNALS is
   meant to keep two instances from driving one signal.

   The toggle callback runs no Lua code (the value goes through the deferred
   set path), so it is one step here and in_callback, destroy_pending are
   FALSE whenever another step begins.                                    *)
EXTENDS Integers, FiniteSets

CONSTANTS
    Clocks,       \* NativeClock instances
    Signals,      \* the signals that can be driven
    SignalOf,     \* SignalOf[c]: signal_hdl of instance c
    MaxPeriod,    \* bound on the clock period, in steps
    DestroyForeign, \* user code destroys an instance that is not running while
                  \* another one drives its signal
    MayFail       \* vpi_register_cb may return NULL

ASSUME ClockAssumption ==
    /\ SignalOf \in [Clocks -> Signals]
    /\ MaxPeriod \in Nat
    /\ DestroyForeign \in BOOLEAN
    /\ MayFail \in BOOLEAN

VARIABLES
    live,         \* instances created and not destroyed
    lua_running,  \* instances whose Lua field _running is true
    cb_handle,    \* steps until the callback of cb_handle; None without one
    timers,       \* the simulator's side: steps until each callback with the
                  \* instance as user_data
    current_val, period_steps, high_steps,
    active,       \* ACTIVE_SIGNALS
    level,        \* value of the signal; Unknown until a clock drives it
    held          \* history: steps since a clock last set the signal

vars == <<live, lua_running, cb_handle, timers, current_val, period_steps,
          high_steps, active, level, held>>

None == -1

Unknown == 2

Delays == 0 .. MaxPeriod

Init ==
    /\ live = {} /\ lua_running = {}
    /\ cb_handle = [c \in Clocks |-> None]
    /\ timers = [c \in Clocks |-> {}]
    /\ current_val = [c \in Clocks |-> 0]
    /\ period_steps = [c \in Clocks |-> 0]
    /\ high_steps = [c \in Clocks |-> 0]
    /\ active = {}
    /\ level = [s \in Signals |-> Unknown]
    /\ held = [s \in Signals |-> 0]

\* Mutant: current_val is not flipped.
MutNoFlip(c, v) ==
    /\ level' = [level EXCEPT ![SignalOf[c]] = v]
    /\ held' = [held EXCEPT ![SignalOf[c]] = 0]
    /\ current_val' = [current_val EXCEPT ![c] = v]

----------------------------------------------------------------------------
\* The part of toggle that sets the signal to v and flips current_val
SetLevel(c, v) ==
    /\ level' = [level EXCEPT ![SignalOf[c]] = v]
    /\ held' = [held EXCEPT ![SignalOf[c]] = 0]
    /\ current_val' = [current_val EXCEPT ![c] = 1 - v]

\* The delay that toggle computes after setting the signal to v
Delay(v, period, high) == IF v = 1 THEN high ELSE period - high

\* vpi_register_cb for instance c, whose timers are ts
RegisterCb(c, ts, d) ==
    /\ timers' = [timers EXCEPT ![c] = ts \cup {d}]
    /\ cb_handle' = [cb_handle EXCEPT ![c] = d]

NativeNew(c) ==
    /\ c \notin live
    /\ live' = live \cup {c}
    /\ lua_running' = lua_running \ {c}
    /\ cb_handle' = [cb_handle EXCEPT ![c] = None]
    /\ current_val' = [current_val EXCEPT ![c] = 0]
    /\ period_steps' = [period_steps EXCEPT ![c] = 0]
    /\ high_steps' = [high_steps EXCEPT ![c] = 0]
    /\ UNCHANGED <<timers, active, level, held>>

\* Mutant: start does not look whether the signal is driven already.
MutIgnoreActive(c, period, high) ==
    /\ c \in live /\ c \notin lua_running
    /\ cb_handle[c] = None
    /\ period >= 2 /\ high >= 1 /\ high < period

\* Mutant: a period of one step is accepted, and a high time of a whole period.
MutAnyPeriod(c, period, high) ==
    /\ c \in live /\ c \notin lua_running
    /\ cb_handle[c] = None
    /\ SignalOf[c] \notin active
    /\ period >= 1 /\ high >= 1

\* The checks of start, in Lua and in Rust
Startable(c, period, high) ==
    /\ c \in live /\ c \notin lua_running
    /\ cb_handle[c] = None                          \* else EBUSY
    /\ SignalOf[c] \notin active                    \* else EEXIST
    /\ period >= 2 /\ high >= 1 /\ high < period    \* else EINVAL

Start(c, period, high, v) ==
    /\ Startable(c, period, high)
    /\ active' = active \cup {SignalOf[c]}
    /\ lua_running' = lua_running \cup {c}
    /\ period_steps' = [period_steps EXCEPT ![c] = period]
    /\ high_steps' = [high_steps EXCEPT ![c] = high]
    /\ SetLevel(c, v)
    /\ RegisterCb(c, timers[c], Delay(v, period, high))
    /\ UNCHANGED live

\* Mutant: the signal stays registered when start fails.
MutFailKeepsSignal(c, period, high, v) ==
    /\ MayFail
    /\ Startable(c, period, high)
    /\ active' = active \cup {SignalOf[c]}
    /\ period_steps' = [period_steps EXCEPT ![c] = period]
    /\ high_steps' = [high_steps EXCEPT ![c] = high]
    /\ SetLevel(c, v)
    /\ UNCHANGED <<live, lua_running, cb_handle, timers>>

\* start when vpi_register_cb fails: EIO
StartFails(c, period, high, v) ==
    /\ MayFail
    /\ Startable(c, period, high)
    /\ active' = active \ {SignalOf[c]}
    /\ period_steps' = [period_steps EXCEPT ![c] = period]
    /\ high_steps' = [high_steps EXCEPT ![c] = high]
    /\ SetLevel(c, v)
    /\ UNCHANGED <<live, lua_running, cb_handle, timers>>

\* Mutant: stop leaves the callback registered.
MutStopKeepsCallback(c) ==
    /\ active' = active \ {SignalOf[c]}
    /\ cb_handle' = [cb_handle EXCEPT ![c] = None]
    /\ UNCHANGED timers

\* stop of the Rust side
Unregister(c) ==
    /\ active' = active \ {SignalOf[c]}
    /\ timers' = [timers EXCEPT ![c] = @ \ {cb_handle[c]}]
    /\ cb_handle' = [cb_handle EXCEPT ![c] = None]

Stop(c) ==
    /\ c \in live /\ c \in lua_running
    /\ Unregister(c)
    /\ lua_running' = lua_running \ {c}
    /\ UNCHANGED <<live, current_val, period_steps, high_steps, level, held>>

\* destroy frees the instance, mostly after stop; Drop stops it.
Destroy(c) ==
    /\ c \in live
    /\ DestroyForeign \/ c \in lua_running \/ SignalOf[c] \notin active
    /\ Unregister(c)
    /\ live' = live \ {c}
    /\ lua_running' = lua_running \ {c}
    /\ UNCHANGED <<current_val, period_steps, high_steps, level, held>>

\* Mutant: the delay is that of the level being left.
MutSwappedDelay(c) ==
    /\ 0 \in timers[c]
    /\ SetLevel(c, current_val[c])
    /\ RegisterCb(c, timers[c] \ {0},
                  Delay(1 - current_val[c], period_steps[c], high_steps[c]))
    /\ UNCHANGED <<live, lua_running, period_steps, high_steps, active>>

\* native_clock_toggle_callback
ToggleCallback(c) ==
    /\ 0 \in timers[c]
    /\ SetLevel(c, current_val[c])
    /\ RegisterCb(c, timers[c] \ {0},
                  Delay(current_val[c], period_steps[c], high_steps[c]))
    /\ UNCHANGED <<live, lua_running, period_steps, high_steps, active>>

\* ... when vpi_register_cb fails: the clock stands still and stays registered.
ToggleFails(c) ==
    /\ MayFail
    /\ 0 \in timers[c]
    /\ SetLevel(c, current_val[c])
    /\ timers' = [timers EXCEPT ![c] = @ \ {0}]
    /\ cb_handle' = [cb_handle EXCEPT ![c] = None]
    /\ UNCHANGED <<live, lua_running, period_steps, high_steps, active>>

\* Simulation time advances by one step, once the callbacks due have run.
Tick ==
    /\ \A c \in Clocks : 0 \notin timers[c]
    /\ \E c \in Clocks : timers[c] # {}
    /\ timers' = [c \in Clocks |-> {d - 1 : d \in timers[c]}]
    /\ cb_handle' = [c \in Clocks |-> IF cb_handle[c] = None THEN None
                                      ELSE cb_handle[c] - 1]
    /\ held' = [s \in Signals |-> IF held[s] < MaxPeriod THEN held[s] + 1
                                  ELSE held[s]]
    /\ UNCHANGED <<live, lua_running, current_val, period_steps, high_steps,
                   active, level>>

Simulator == Tick \/ \E c \in Clocks : ToggleCallback(c)

Next ==
    \/ Simulator
    \/ \E c \in Clocks :
          \/ NativeNew(c) \/ Stop(c) \/ Destroy(c) \/ ToggleFails(c)
          \/ \E period, high \in Delays, v \in {0, 1} :
                Start(c, period, high, v) \/ StartFails(c, period, high, v)

\* The simulator keeps advancing time and running the callbacks that are due.
Spec == Init /\ [][Next]_vars /\ WF_vars(Simulator)

----------------------------------------------------------------------------
(* Properties *)

\* Type correctness of the instances' fields and of the registry.
TypeOK ==
    /\ live \subseteq Clocks /\ lua_running \subseteq live
    /\ cb_handle \in [Clocks -> Delays \cup {None}]
    /\ timers \in [Clocks -> SUBSET Delays]
    /\ current_val \in [Clocks -> {0, 1}]
    /\ period_steps \in [Clocks -> Delays]
    /\ high_steps \in [Clocks -> Delays]
    /\ active \subseteq Signals
    /\ level \in [Signals -> {0, 1, Unknown}]
    /\ held \in [Signals -> Delays]

\* The simulator holds no callback whose user_data is a freed instance, and
\* for a live one only the callback that cb_handle names: stop and destroy
\* leave nothing behind that would run on freed memory or drive the signal.
NoDanglingCallback ==
    \A c \in Clocks :
        timers[c] = IF c \in live /\ cb_handle[c] # None THEN {cb_handle[c]}
                                                       ELSE {}

\* "Only one NativeClock can drive a signal at a time": no two instances hold
\* callbacks that set the same signal.
OneDriver ==
    \A c, d \in Clocks :
        cb_handle[c] # None /\ cb_handle[d] # None /\ SignalOf[c] = SignalOf[d]
            => c = d

\* A signal in the registry is held by exactly one instance that the user can
\* still stop, also after a toggle failed to register its successor, and a
\* running instance always has its signal registered: start is refused exactly
\* while another instance holds the signal.
RegistryExact ==
    /\ \A s \in active : \E c \in lua_running : SignalOf[c] = s
    /\ \A c \in lua_running : SignalOf[c] \in active
    /\ \A c, d \in lua_running : SignalOf[c] = SignalOf[d] => c = d
    /\ \A c \in Clocks : cb_handle[c] # None => c \in lua_running

\* Duty cycle: while a clock runs, the time the signal has spent at its level
\* and the time to the next edge add up to high_steps at level 1 and to the
\* rest of the period at level 0, and the next edge flips the level.
PhaseLength ==
    \A c \in Clocks : cb_handle[c] # None =>
        LET s == SignalOf[c] IN
        /\ level[s] = 1 - current_val[c]
        /\ held[s] + cb_handle[c] = Delay(level[s], period_steps[c], high_steps[c])

\* A clock that runs and is left alone keeps toggling its signal.
KeepsToggling ==
    \A c \in Clocks, v \in {0, 1} :
        (cb_handle[c] # None /\ level[SignalOf[c]] = v)
            ~> (cb_handle[c] = None \/ level[SignalOf[c]] # v)
=============================================================================
