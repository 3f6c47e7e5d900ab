------------------------- MODULE NativeClockProofs -------------------------
(* Proofs about NativeClock, for every set of instances and signals and every
   bound on the period.                                                   *)
EXTENDS NativeClock, TLAPS

----------------------------------------------------------------------------
(* What holds whichever instances user code destroys *)

\* A clock that is scheduled runs, and has a high and a low phase.
PhasesInv ==
    \A c \in Clocks : cb_handle[c] # None =>
        /\ c \in lua_running
        /\ high_steps[c] >= 1 /\ high_steps[c] < period_steps[c]

MemoryInv == TypeOK /\ NoDanglingCallback /\ PhasesInv

\* Parameters that start accepts give delays within the period.
LEMMA DelayLemma ==
    ASSUME NEW v \in {0, 1}, NEW period \in Delays, NEW high \in Delays,
           high >= 1, high < period
    PROVE  Delay(v, period, high) \in Delays /\ Delay(v, period, high) # None
  BY ClockAssumption DEF Delays, Delay, None

\* Setting the signal keeps the types.
LEMMA SetLevelType ==
    ASSUME TypeOK, NEW c \in Clocks, NEW v \in {0, 1}, SetLevel(c, v)
    PROVE  /\ level' \in [Signals -> {0, 1, Unknown}]
           /\ held' \in [Signals -> Delays]
           /\ current_val' \in [Clocks -> {0, 1}]
  <1>1. 1 - v \in {0, 1} /\ v \in {0, 1, Unknown} /\ 0 \in Delays
    BY ClockAssumption DEF Delays
  <1>2. SignalOf[c] \in Signals
    BY ClockAssumption
  <1> QED
    BY <1>1, <1>2 DEF TypeOK, SetLevel

\* Nothing is scheduled at first.
LEMMA MemoryInit == Init => MemoryInv
  BY ClockAssumption
     DEF Init, MemoryInv, TypeOK, NoDanglingCallback, PhasesInv, Delays, None,
         Unknown

\* A successful start of an instance that had no callback.
LEMMA StartMemory ==
    ASSUME MemoryInv, NEW c \in Clocks, NEW period \in Delays,
           NEW high \in Delays, NEW v \in {0, 1}, Start(c, period, high, v)
    PROVE  MemoryInv'
  <1> DEFINE d == Delay(v, period, high)
  <1>1. d \in Delays /\ d # None
    BY DelayLemma DEF Start, Startable
  <1>2. timers[c] = {} /\ c \in live
    BY DEF MemoryInv, NoDanglingCallback, Start, Startable
  <1>3. /\ timers' = [timers EXCEPT ![c] = {d}]
        /\ cb_handle' = [cb_handle EXCEPT ![c] = d] /\ live' = live
        /\ period_steps' = [period_steps EXCEPT ![c] = period]
        /\ high_steps' = [high_steps EXCEPT ![c] = high]
        /\ high >= 1 /\ high < period
        /\ active' = active \cup {SignalOf[c]}
        /\ lua_running' = lua_running \cup {c}
    BY <1>2 DEF Start, RegisterCb, Startable
  <1>4. /\ level' \in [Signals -> {0, 1, Unknown}]
        /\ held' \in [Signals -> Delays]
        /\ current_val' \in [Clocks -> {0, 1}]
    BY SetLevelType DEF MemoryInv, Start
  <1> HIDE DEF d
  <1>5. TypeOK'
    BY <1>1, <1>2, <1>3, <1>4, ClockAssumption DEF MemoryInv, TypeOK
  <1>6. NoDanglingCallback' /\ PhasesInv'
    BY <1>1, <1>2, <1>3 DEF MemoryInv, TypeOK, NoDanglingCallback, PhasesInv
  <1> QED
    BY <1>5, <1>6 DEF MemoryInv

\* stop and destroy take the one callback of the instance away.
LEMMA UnregisterMemory ==
    ASSUME MemoryInv, NEW c \in Clocks, Unregister(c),
           live' \in {live, live \ {c}}, lua_running' = lua_running \ {c},
           UNCHANGED <<current_val, period_steps, high_steps, level, held>>
    PROVE  MemoryInv'
  <1>1. /\ timers' = [timers EXCEPT ![c] = {}]
        /\ cb_handle' = [cb_handle EXCEPT ![c] = None]
    BY DEF MemoryInv, TypeOK, NoDanglingCallback, Unregister
  <1>2. TypeOK'
    BY <1>1 DEF MemoryInv, TypeOK, Unregister
  <1>3. NoDanglingCallback' /\ PhasesInv'
    BY <1>1 DEF MemoryInv, TypeOK, NoDanglingCallback, PhasesInv
  <1> QED
    BY <1>2, <1>3 DEF MemoryInv

\* A callback that fires is the instance's only one.
LEMMA FiringFacts ==
    ASSUME MemoryInv, NEW c \in Clocks, 0 \in timers[c]
    PROVE  /\ c \in live /\ cb_handle[c] = 0 /\ timers[c] = {0}
           /\ current_val[c] \in {0, 1}
           /\ period_steps[c] \in Delays /\ high_steps[c] \in Delays
           /\ high_steps[c] >= 1 /\ high_steps[c] < period_steps[c]
  <1>1. c \in live /\ cb_handle[c] # None /\ timers[c] = {cb_handle[c]}
    BY DEF MemoryInv, NoDanglingCallback
  <1> QED
    BY <1>1 DEF MemoryInv, TypeOK, PhasesInv

\* A toggle replaces the callback that fired by the next one.
LEMMA ToggleMemory ==
    ASSUME MemoryInv, NEW c \in Clocks, ToggleCallback(c)
    PROVE  MemoryInv'
  <1> DEFINE d == Delay(current_val[c], period_steps[c], high_steps[c])
  <1>1. /\ c \in live /\ cb_handle[c] = 0 /\ timers[c] = {0}
        /\ current_val[c] \in {0, 1}
        /\ period_steps[c] \in Delays /\ high_steps[c] \in Delays
        /\ high_steps[c] >= 1 /\ high_steps[c] < period_steps[c]
    BY FiringFacts DEF ToggleCallback
  <1>2. d \in Delays /\ d # None
    BY <1>1, DelayLemma
  <1>3. /\ timers' = [timers EXCEPT ![c] = {d}]
        /\ cb_handle' = [cb_handle EXCEPT ![c] = d]
        /\ UNCHANGED <<live, lua_running, period_steps, high_steps, active>>
    BY <1>1 DEF ToggleCallback, RegisterCb
  <1>4. /\ level' \in [Signals -> {0, 1, Unknown}]
        /\ held' \in [Signals -> Delays]
        /\ current_val' \in [Clocks -> {0, 1}]
    BY <1>1, SetLevelType DEF MemoryInv, ToggleCallback
  <1> HIDE DEF d
  <1>5. TypeOK'
    BY <1>2, <1>3, <1>4 DEF MemoryInv, TypeOK
  <1>6. NoDanglingCallback' /\ PhasesInv'
    BY <1>1, <1>2, <1>3 DEF MemoryInv, TypeOK, NoDanglingCallback, PhasesInv
  <1> QED
    BY <1>5, <1>6 DEF MemoryInv

\* A toggle that cannot register its successor leaves none.
LEMMA ToggleFailsMemory ==
    ASSUME MemoryInv, NEW c \in Clocks, ToggleFails(c)
    PROVE  MemoryInv'
  <1>1. timers[c] = {0} /\ current_val[c] \in {0, 1}
    BY FiringFacts DEF ToggleFails
  <1>2. /\ timers' = [timers EXCEPT ![c] = {}]
        /\ cb_handle' = [cb_handle EXCEPT ![c] = None]
        /\ UNCHANGED <<live, lua_running, period_steps, high_steps, active>>
    BY <1>1 DEF ToggleFails
  <1>3. /\ level' \in [Signals -> {0, 1, Unknown}]
        /\ held' \in [Signals -> Delays]
        /\ current_val' \in [Clocks -> {0, 1}]
    BY <1>1, SetLevelType DEF MemoryInv, ToggleFails
  <1>4. TypeOK'
    BY <1>2, <1>3 DEF MemoryInv, TypeOK
  <1>5. NoDanglingCallback' /\ PhasesInv'
    BY <1>2 DEF MemoryInv, TypeOK, NoDanglingCallback, PhasesInv
  <1> QED
    BY <1>4, <1>5 DEF MemoryInv

\* Time brings every callback one step closer, the handles' included.
LEMMA TickMemory ==
    ASSUME MemoryInv, Tick
    PROVE  MemoryInv'
  <1>1. ASSUME NEW c \in Clocks
        PROVE  /\ timers'[c] \in SUBSET Delays
               /\ cb_handle'[c] \in Delays \cup {None}
               /\ cb_handle'[c] # None <=> cb_handle[c] # None
               /\ timers'[c] = IF c \in live' /\ cb_handle'[c] # None
                               THEN {cb_handle'[c]} ELSE {}
    <2>1. timers[c] = IF c \in live /\ cb_handle[c] # None THEN {cb_handle[c]}
                                                           ELSE {}
      BY DEF MemoryInv, NoDanglingCallback
    <2>2. /\ timers'[c] = {d - 1 : d \in timers[c]} /\ 0 \notin timers[c]
          /\ cb_handle'[c] = IF cb_handle[c] = None THEN None ELSE cb_handle[c] - 1
          /\ live' = live
      BY DEF Tick
    <2>3. cb_handle[c] \in Delays \cup {None} /\ timers[c] \subseteq Delays
      BY DEF MemoryInv, TypeOK
    <2>4. \A d \in timers[c] : d - 1 \in Delays
      BY <2>2, <2>3, ClockAssumption DEF Delays
    <2>5. CASE cb_handle[c] = None
      BY <2>1, <2>2, <2>3, <2>5
    <2>6. CASE cb_handle[c] # None /\ c \in live
      <3>1. cb_handle[c] - 1 \in Delays /\ cb_handle[c] - 1 # None
        BY <2>1, <2>4, <2>6, ClockAssumption DEF Delays, None
      <3> QED
        BY <2>1, <2>2, <2>6, <3>1
    <2>7. c \in live \/ cb_handle[c] = None
      BY DEF MemoryInv, TypeOK, PhasesInv
    <2> QED
      BY <2>5, <2>6, <2>7
  <1>2. held' \in [Signals -> Delays]
    BY ClockAssumption DEF MemoryInv, TypeOK, Tick, Delays
  <1>3. TypeOK'
    <2>1. timers' \in [Clocks -> SUBSET Delays]
      BY <1>1 DEF Tick
    <2>2. cb_handle' \in [Clocks -> Delays \cup {None}]
      BY <1>1 DEF Tick
    <2> QED
      BY <1>2, <2>1, <2>2 DEF MemoryInv, TypeOK, Tick
  <1>4. NoDanglingCallback' /\ PhasesInv'
    <2>1. NoDanglingCallback'
      BY <1>1 DEF NoDanglingCallback
    <2>2. PhasesInv'
      BY <1>1 DEF MemoryInv, PhasesInv, Tick
    <2> QED
      BY <2>1, <2>2
  <1> QED
    BY <1>3, <1>4 DEF MemoryInv

\* A new instance is not scheduled.
LEMMA NewMemory ==
    ASSUME MemoryInv, NEW c \in Clocks, NativeNew(c)
    PROVE  MemoryInv'
  <1>0. 0 \in Delays
    BY ClockAssumption DEF Delays
  <1>1. timers[c] = {}
    BY DEF MemoryInv, NoDanglingCallback, NativeNew
  <1>2. TypeOK'
    <2>1. live' \subseteq Clocks /\ lua_running' \subseteq live'
      BY DEF MemoryInv, TypeOK, NativeNew
    <2> QED
      BY <1>0, <2>1 DEF MemoryInv, TypeOK, NativeNew
  <1>3. NoDanglingCallback' /\ PhasesInv'
    BY <1>1 DEF MemoryInv, TypeOK, NoDanglingCallback, PhasesInv, NativeNew
  <1> QED
    BY <1>2, <1>3 DEF MemoryInv

\* A start that cannot register its callback changes the signal and no timer.
LEMMA StartFailsMemory ==
    ASSUME MemoryInv, NEW c \in Clocks, NEW period \in Delays,
           NEW high \in Delays, NEW v \in {0, 1}, StartFails(c, period, high, v)
    PROVE  MemoryInv'
  <1>1. /\ level' \in [Signals -> {0, 1, Unknown}]
        /\ held' \in [Signals -> Delays]
        /\ current_val' \in [Clocks -> {0, 1}]
    BY SetLevelType DEF MemoryInv, StartFails
  <1>2. TypeOK'
    BY <1>1 DEF MemoryInv, TypeOK, StartFails
  <1>3. NoDanglingCallback' /\ PhasesInv'
    BY DEF MemoryInv, TypeOK, NoDanglingCallback, PhasesInv, StartFails, Startable
  <1> QED
    BY <1>2, <1>3 DEF MemoryInv

\* Every step keeps the invariant.
LEMMA MemoryStep == MemoryInv /\ [Next]_vars => MemoryInv'
  <1> SUFFICES ASSUME MemoryInv, [Next]_vars PROVE MemoryInv'
    OBVIOUS
  <1>1. CASE Tick
    BY <1>1, TickMemory
  <1>2. ASSUME NEW c \in Clocks, ToggleCallback(c) PROVE MemoryInv'
    BY <1>2, ToggleMemory
  <1>3. ASSUME NEW c \in Clocks, NativeNew(c) PROVE MemoryInv'
    BY <1>3, NewMemory
  <1>4. ASSUME NEW c \in Clocks, Stop(c) PROVE MemoryInv'
    BY <1>4, UnregisterMemory DEF Stop
  <1>5. ASSUME NEW c \in Clocks, Destroy(c) PROVE MemoryInv'
    BY <1>5, UnregisterMemory DEF Destroy
  <1>6. ASSUME NEW c \in Clocks, ToggleFails(c) PROVE MemoryInv'
    BY <1>6, ToggleFailsMemory
  <1>7. ASSUME NEW c \in Clocks, NEW period \in Delays, NEW high \in Delays,
               NEW v \in {0, 1},
               Start(c, period, high, v) \/ StartFails(c, period, high, v)
        PROVE  MemoryInv'
    BY <1>7, StartMemory, StartFailsMemory
  <1>8. CASE UNCHANGED vars
    BY <1>8 DEF MemoryInv, TypeOK, NoDanglingCallback, PhasesInv, vars
  <1> QED
    BY <1>1, <1>2, <1>3, <1>4, <1>5, <1>6, <1>7, <1>8 DEF Next, Simulator

\* The fields keep their types: in particular no delay is negative.
THEOREM ClockTypes == Spec => []TypeOK
  <1>1. MemoryInv => TypeOK
    BY DEF MemoryInv
  <1> QED
    BY <1>1, MemoryInit, MemoryStep, PTL DEF Spec

\* No callback ever refers to a freed instance or outlives stop, whichever
\* instances user code starts, stops and destroys, and whichever
\* registrations fail.
THEOREM NoDangling == Spec => []NoDanglingCallback
  <1>1. MemoryInv => NoDanglingCallback
    BY DEF MemoryInv
  <1> QED
    BY <1>1, MemoryInit, MemoryStep, PTL DEF Spec

----------------------------------------------------------------------------
(* What holds as long as user code destroys no idle instance whose signal
   another instance drives *)

\* The registry names the signals of the running instances.
LEMMA RegistryStep ==
    ASSUME ~DestroyForeign, MemoryInv, RegistryExact, [Next]_vars
    PROVE  RegistryExact'
  <1>s. \A c \in Clocks : SignalOf[c] \in Signals
    BY ClockAssumption
  <1>t. /\ lua_running \subseteq Clocks /\ cb_handle \in [Clocks -> Delays \cup {None}]
    BY DEF MemoryInv, TypeOK
  <1>1. CASE Tick
    <2>1. \A c \in Clocks : cb_handle'[c] # None => cb_handle[c] # None
      BY <1>1 DEF Tick
    <2> QED
      BY <1>1, <1>t, <2>1 DEF Tick, RegistryExact
  <1>2. ASSUME NEW c \in Clocks, ToggleCallback(c) PROVE RegistryExact'
    <2>1. cb_handle[c] # None
      BY <1>2, FiringFacts DEF ToggleCallback, None
    <2> QED
      BY <1>2, <1>t, <2>1 DEF ToggleCallback, RegisterCb, RegistryExact
  <1>3. ASSUME NEW c \in Clocks, NativeNew(c) PROVE RegistryExact'
    <2>1. c \notin lua_running
      BY <1>3 DEF NativeNew, MemoryInv, TypeOK
    <2> QED
      BY <1>3, <1>t, <2>1 DEF NativeNew, RegistryExact
  <1>4. ASSUME NEW c \in Clocks, c \in lua_running \/ SignalOf[c] \notin active,
               Unregister(c),
               lua_running' = lua_running \ {c}
        PROVE  RegistryExact'
    <2>1. CASE c \in lua_running
      BY <1>4, <1>t, <2>1 DEF Unregister, RegistryExact
    <2>2. CASE c \notin lua_running
      <3>1. cb_handle[c] = None /\ SignalOf[c] \notin active
        BY <1>4, <2>2 DEF RegistryExact
      <3>2. active' = active /\ lua_running' = lua_running
            /\ \A d \in Clocks : cb_handle'[d] = cb_handle[d]
        BY <1>4, <1>t, <2>2, <3>1 DEF Unregister
      <3> QED
        BY <3>2 DEF RegistryExact
    <2> QED
      BY <2>1, <2>2
  <1>5. ASSUME NEW c \in Clocks, Stop(c) \/ Destroy(c) PROVE RegistryExact'
    BY <1>4, <1>5 DEF Stop, Destroy
  <1>6. ASSUME NEW c \in Clocks, ToggleFails(c) PROVE RegistryExact'
    BY <1>6, <1>t DEF ToggleFails, RegistryExact
  <1>7. ASSUME NEW c \in Clocks, NEW period, NEW high, NEW v,
               Start(c, period, high, v)
        PROVE  RegistryExact'
    BY <1>7, <1>t DEF Start, Startable, RegisterCb, RegistryExact
  <1>8. ASSUME NEW c \in Clocks, NEW period, NEW high, NEW v,
               StartFails(c, period, high, v)
        PROVE  RegistryExact'
    BY <1>8, <1>t DEF StartFails, Startable, RegistryExact
  <1>9. CASE UNCHANGED vars
    BY <1>9 DEF RegistryExact, vars
  <1> QED
    BY <1>1, <1>2, <1>3, <1>5, <1>6, <1>7, <1>8, <1>9 DEF Next, Simulator

\* Another clock that is scheduled drives another signal.
LEMMA OthersElsewhere ==
    ASSUME MemoryInv, RegistryExact, NEW c \in Clocks, NEW d \in Clocks,
           d # c, cb_handle[d] # None,
           cb_handle[c] # None \/ SignalOf[c] \notin active
    PROVE  SignalOf[d] # SignalOf[c]
  BY DEF RegistryExact

\* Setting the level of one signal disturbs no clock of another signal.
LEMMA PhaseOther ==
    ASSUME MemoryInv, RegistryExact, PhaseLength, NEW c \in Clocks,
           NEW v \in {0, 1}, SetLevel(c, v),
           cb_handle[c] # None \/ SignalOf[c] \notin active,
           NEW d \in Clocks, d # c, cb_handle'[d] = cb_handle[d],
           cb_handle[d] # None,
           period_steps'[d] = period_steps[d], high_steps'[d] = high_steps[d]
    PROVE  /\ level'[SignalOf[d]] = 1 - current_val'[d]
           /\ held'[SignalOf[d]] + cb_handle'[d]
                = Delay(level'[SignalOf[d]], period_steps'[d], high_steps'[d])
  <1>1. SignalOf[d] # SignalOf[c] /\ SignalOf[d] \in Signals
    BY OthersElsewhere, ClockAssumption
  <1>2. /\ level'[SignalOf[d]] = level[SignalOf[d]]
        /\ held'[SignalOf[d]] = held[SignalOf[d]]
        /\ current_val'[d] = current_val[d]
    BY <1>1 DEF SetLevel, MemoryInv, TypeOK
  <1> QED
    BY <1>2 DEF PhaseLength

\* The clock whose level is set starts a phase of the right length.
LEMMA PhaseSelf ==
    ASSUME MemoryInv, NEW c \in Clocks, NEW v \in {0, 1}, SetLevel(c, v),
           NEW d \in Delays, cb_handle'[c] = d,
           d = Delay(v, period_steps'[c], high_steps'[c])
    PROVE  /\ level'[SignalOf[c]] = 1 - current_val'[c]
           /\ held'[SignalOf[c]] + cb_handle'[c]
                = Delay(level'[SignalOf[c]], period_steps'[c], high_steps'[c])
  <1>1. /\ level'[SignalOf[c]] = v /\ held'[SignalOf[c]] = 0
        /\ current_val'[c] = 1 - v
    BY ClockAssumption DEF SetLevel, MemoryInv, TypeOK
  <1>2. v = 1 - (1 - v) /\ 0 + d = d
    BY ClockAssumption DEF Delays
  <1> QED
    BY <1>1, <1>2

\* Every step keeps the phases right.
LEMMA PhaseStep ==
    ASSUME MemoryInv, RegistryExact, PhaseLength, [Next]_vars
    PROVE  PhaseLength'
  <1>1. CASE Tick
    <2> SUFFICES ASSUME NEW c \in Clocks, cb_handle'[c] # None
                 PROVE  LET s == SignalOf[c] IN
                        /\ level'[s] = 1 - current_val'[c]
                        /\ held'[s] + cb_handle'[c]
                             = Delay(level'[s], period_steps'[c], high_steps'[c])
      BY DEF PhaseLength
    <2> DEFINE s == SignalOf[c]
               d == Delay(level[s], period_steps[c], high_steps[c])
    <2>1. cb_handle[c] # None /\ cb_handle'[c] = cb_handle[c] - 1
      BY <1>1 DEF Tick
    <2>2. cb_handle[c] \in Delays /\ cb_handle[c] # 0
      <3>1. cb_handle[c] \in timers[c]
        BY <2>1 DEF MemoryInv, TypeOK, NoDanglingCallback, PhasesInv
      <3> QED
        BY <1>1, <3>1 DEF Tick, MemoryInv, TypeOK
    <2>3. /\ level[s] = 1 - current_val[c] /\ held[s] + cb_handle[c] = d
      BY <2>1 DEF PhaseLength
    <2>4. s \in Signals /\ held[s] \in Delays
      BY ClockAssumption DEF MemoryInv, TypeOK
    <2>5. d \in Delays
      <3>1. /\ level[s] \in {0, 1}
            /\ period_steps[c] \in Delays /\ high_steps[c] \in Delays
            /\ high_steps[c] >= 1 /\ high_steps[c] < period_steps[c]
        BY <2>1, <2>3 DEF MemoryInv, TypeOK, PhasesInv
      <3> QED
        BY <3>1, DelayLemma
    <2>6. held'[s] = IF held[s] < MaxPeriod THEN held[s] + 1 ELSE held[s]
      BY <1>1, <2>4 DEF Tick
    <2> HIDE DEF d
    <2>7. held'[s] + cb_handle'[c] = d
      BY <2>1, <2>2, <2>3, <2>4, <2>5, <2>6, ClockAssumption DEF Delays
    <2> QED
      BY <1>1, <2>3, <2>7 DEF Tick, d
  <1>2. ASSUME NEW c \in Clocks, ToggleCallback(c) PROVE PhaseLength'
    <2> DEFINE d == Delay(current_val[c], period_steps[c], high_steps[c])
    <2>1. /\ cb_handle[c] # None /\ current_val[c] \in {0, 1}
          /\ d \in Delays
      BY <1>2, FiringFacts, DelayLemma DEF ToggleCallback, None
    <2>2. /\ SetLevel(c, current_val[c])
          /\ cb_handle' = [cb_handle EXCEPT ![c] = d]
          /\ period_steps' = period_steps /\ high_steps' = high_steps
      BY <1>2 DEF ToggleCallback, RegisterCb
    <2>3. cb_handle'[c] = d /\ \A x \in Clocks : x # c => cb_handle'[x] = cb_handle[x]
      BY <2>2 DEF MemoryInv, TypeOK
    <2>4. d = Delay(current_val[c], period_steps'[c], high_steps'[c])
      BY <2>2
    <2> HIDE DEF d
    <2> SUFFICES ASSUME NEW x \in Clocks, cb_handle'[x] # None
                 PROVE  /\ level'[SignalOf[x]] = 1 - current_val'[x]
                        /\ held'[SignalOf[x]] + cb_handle'[x]
                             = Delay(level'[SignalOf[x]], period_steps'[x], high_steps'[x])
      BY DEF PhaseLength
    <2>5. CASE x = c
      BY <2>1, <2>2, <2>3, <2>4, <2>5, PhaseSelf
    <2>6. CASE x # c
      BY <2>1, <2>2, <2>3, <2>6, PhaseOther
    <2> QED
      BY <2>5, <2>6
  <1>3. ASSUME NEW c \in Clocks, ToggleFails(c) PROVE PhaseLength'
    <2>1. cb_handle[c] # None /\ current_val[c] \in {0, 1}
      BY <1>3, FiringFacts DEF ToggleFails, None
    <2>2. /\ SetLevel(c, current_val[c])
          /\ cb_handle' = [cb_handle EXCEPT ![c] = None]
          /\ period_steps' = period_steps /\ high_steps' = high_steps
      BY <1>3 DEF ToggleFails
    <2>3. /\ cb_handle'[c] = None
          /\ \A x \in Clocks : x # c => cb_handle'[x] = cb_handle[x]
      BY <2>2 DEF MemoryInv, TypeOK
    <2> QED
      BY <2>1, <2>2, <2>3, PhaseOther DEF PhaseLength
  <1>4. ASSUME NEW c \in Clocks, NEW period \in Delays, NEW high \in Delays,
               NEW v \in {0, 1}, Start(c, period, high, v)
        PROVE  PhaseLength'
    <2> DEFINE d == Delay(v, period, high)
    <2>1. d \in Delays /\ SignalOf[c] \notin active
      BY <1>4, DelayLemma DEF Start, Startable
    <2>2. /\ SetLevel(c, v)
          /\ cb_handle' = [cb_handle EXCEPT ![c] = d]
          /\ period_steps' = [period_steps EXCEPT ![c] = period]
          /\ high_steps' = [high_steps EXCEPT ![c] = high]
      BY <1>4 DEF Start, RegisterCb
    <2>3. /\ cb_handle'[c] = d /\ period_steps'[c] = period /\ high_steps'[c] = high
          /\ \A x \in Clocks : x # c => /\ cb_handle'[x] = cb_handle[x]
                                        /\ period_steps'[x] = period_steps[x]
                                        /\ high_steps'[x] = high_steps[x]
      BY <2>2 DEF MemoryInv, TypeOK
    <2>4. d = Delay(v, period_steps'[c], high_steps'[c])
      BY <2>3
    <2> HIDE DEF d
    <2> SUFFICES ASSUME NEW x \in Clocks, cb_handle'[x] # None
                 PROVE  /\ level'[SignalOf[x]] = 1 - current_val'[x]
                        /\ held'[SignalOf[x]] + cb_handle'[x]
                             = Delay(level'[SignalOf[x]], period_steps'[x], high_steps'[x])
      BY DEF PhaseLength
    <2>5. CASE x = c
      BY <2>1, <2>2, <2>3, <2>4, <2>5, PhaseSelf
    <2>6. CASE x # c
      BY <2>1, <2>2, <2>3, <2>6, PhaseOther
    <2> QED
      BY <2>5, <2>6
  <1>5. ASSUME NEW c \in Clocks, NEW period \in Delays, NEW high \in Delays,
               NEW v \in {0, 1}, StartFails(c, period, high, v)
        PROVE  PhaseLength'
    <2>1. /\ SignalOf[c] \notin active /\ SetLevel(c, v)
          /\ cb_handle' = cb_handle /\ cb_handle[c] = None
          /\ \A x \in Clocks : x # c => /\ period_steps'[x] = period_steps[x]
                                        /\ high_steps'[x] = high_steps[x]
      BY <1>5 DEF StartFails, Startable, MemoryInv, TypeOK
    <2> QED
      BY <2>1, PhaseOther DEF PhaseLength
  <1>6. ASSUME NEW c \in Clocks, Stop(c) \/ Destroy(c) \/ NativeNew(c)
        PROVE  PhaseLength'
    <2>1. /\ cb_handle' = [cb_handle EXCEPT ![c] = None]
          /\ level' = level /\ held' = held
          /\ \A x \in Clocks : x # c => /\ period_steps'[x] = period_steps[x]
                                        /\ high_steps'[x] = high_steps[x]
                                        /\ current_val'[x] = current_val[x]
      BY <1>6 DEF Stop, Destroy, NativeNew, Unregister, MemoryInv, TypeOK
    <2>2. /\ cb_handle'[c] = None
          /\ \A x \in Clocks : x # c => cb_handle'[x] = cb_handle[x]
      BY <2>1 DEF MemoryInv, TypeOK
    <2> QED
      BY <2>1, <2>2 DEF PhaseLength
  <1>7. CASE UNCHANGED vars
    BY <1>7 DEF PhaseLength, vars
  <1> QED
    BY <1>1, <1>2, <1>3, <1>4, <1>5, <1>6, <1>7 DEF Next, Simulator

\* One invariant for the three facts, which need one another.
ClockInv == MemoryInv /\ RegistryExact /\ PhaseLength

\* The invariant holds in every reachable state, if no idle instance is
\* destroyed while another one drives its signal.
LEMMA ClockInvHolds ==
    ASSUME ~DestroyForeign
    PROVE  Spec => []ClockInv
  <1>1. Init => ClockInv
    BY MemoryInit DEF Init, ClockInv, RegistryExact, PhaseLength
  <1>2. ClockInv /\ [Next]_vars => ClockInv'
    BY MemoryStep, RegistryStep, PhaseStep DEF ClockInv
  <1> QED
    BY <1>1, <1>2, PTL DEF Spec

\* "Only one NativeClock can drive a signal at a time".  User code may stop an
\* instance and destroy it later, as documented, but not after another instance
\* has started to drive the signal: its Drop would take that signal out of the
\* registry (native_clock.rs:186-199).
THEOREM OnlyOneDriver ==
    ASSUME ~DestroyForeign
    PROVE  Spec => []OneDriver
  <1>1. ClockInv => OneDriver
    BY DEF ClockInv, RegistryExact, OneDriver
  <1> QED
    BY <1>1, ClockInvHolds, PTL

\* Under the same condition the registry of active signals is exact, failures
\* of vpi_register_cb included.
THEOREM RegistryIsExact ==
    ASSUME ~DestroyForeign
    PROVE  Spec => []RegistryExact
  <1>1. ClockInv => RegistryExact
    BY DEF ClockInv
  <1> QED
    BY <1>1, ClockInvHolds, PTL

\* Under the same condition every phase of every clock has the length that
\* start was given, for every period and high time.
THEOREM DutyCycle ==
    ASSUME ~DestroyForeign
    PROVE  Spec => []PhaseLength
  <1>1. ClockInv => PhaseLength
    BY DEF ClockInv
  <1> QED
    BY <1>1, ClockInvHolds, PTL
=============================================================================
