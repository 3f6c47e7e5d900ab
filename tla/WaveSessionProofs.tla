------------------------- MODULE WaveSessionProofs -------------------------
(* Proofs about WaveSession.tla: the life of VeriluaEnv in every process (its
   callbacks are registered once, finish_callback is called once), the signal
   caches that processes hand to each other in two files, and the hierarchy
   that is walked or taken from a third one.                                *)
EXTENDS WaveSession, ListProofs

----------------------------------------------------------------------------
(* The environment                                                         *)

Flags == DOMAIN NoEnv
Cbs == DOMAIN NoneRegistered

\* The flags and the callbacks of the environment.
LEMMA DomainFacts ==
    /\ Flags = {"exists", "initialized", "finalized", "ready", "has_start_cb",
                "has_final_cb", "has_next_sim_time_cb"}
    /\ Cbs = {"start", "final", "next_sim_time"}
  BY DEF Flags, Cbs, NoEnv, NoneRegistered

States == [env : [Flags -> BOOLEAN], registered : [Cbs -> Nat]]

\* A callback is registered once when its flag is set, and not before.
Counted(s) ==
    /\ s.registered.start = IF s.env.has_start_cb THEN 1 ELSE 0
    /\ s.registered.final = IF s.env.has_final_cb THEN 1 ELSE 0
    /\ s.registered.next_sim_time = IF s.env.has_next_sim_time_cb THEN 1 ELSE 0

\* Only an initialized environment is ready or finalized, and it exists and has
\* its callbacks.
Ordered(s) ==
    /\ s.env.ready => s.env.initialized
    /\ s.env.finalized => s.env.initialized
    /\ s.env.initialized => /\ s.env.exists /\ s.env.has_final_cb
                            /\ s.env.has_next_sim_time_cb

\* What every operation of the environment preserves
EnvInv ==
    /\ EnvTypeOK /\ Counted(State) /\ Ordered(State)
    /\ finishes = IF env.finalized THEN 1 ELSE 0

\* A process exits, and the end of a wave is reached, after finalize.
EndInv ==
    /\ process = "exited" => (env.initialized => env.finalized)
    /\ host = "wave" /\ closing = "done" /\ process = "running" =>
         (env.initialized => env.finalized)

\* The environment and its callbacks as one record.
LEMMA StateType ==
    ASSUME EnvTypeOK
    PROVE  /\ State \in States /\ State.env = env /\ State.registered = registered
           /\ env \in [Flags -> BOOLEAN] /\ registered \in [Cbs -> Nat]
  BY DEF EnvTypeOK, State, States, Flags, Cbs

Pairs == {<<"has_start_cb", "start">>, <<"has_final_cb", "final">>,
          <<"has_next_sim_time_cb", "next_sim_time">>}

\* A callback is registered unless its flag is set, and the flag is set then.
LEMMA RegisterOnceFacts ==
    ASSUME NEW s \in States, NEW flag, NEW cb, <<flag, cb>> \in Pairs, Counted(s)
    PROVE  LET r == RegisterOnce(s, flag, cb)
           IN  /\ r \in States /\ Counted(r) /\ r.env[flag]
               /\ \A f \in Flags : f # flag => r.env[f] = s.env[f]
  <1>0. flag \in Flags /\ cb \in Cbs
    BY DomainFacts DEF Pairs
  <1>1. CASE s.env[flag]
    BY <1>0, <1>1 DEF RegisterOnce, States
  <1>2. CASE ~ s.env[flag]
    <2> DEFINE e == [s.env EXCEPT ![flag] = TRUE]
               g == [s.registered EXCEPT ![cb] = @ + 1]
               r == [env |-> e, registered |-> g]
    <2>0. s.env \in [Flags -> BOOLEAN] /\ s.registered \in [Cbs -> Nat]
      BY DEF States
    <2>1. RegisterOnce(s, flag, cb) = r
      BY <1>2 DEF RegisterOnce
    <2>2. r \in States
      BY <1>0, <2>0 DEF States
    <2>3. e[flag] /\ \A f \in Flags : f # flag => e[f] = s.env[f]
      BY <1>0, <2>0
    <2>4. /\ g[cb] = s.registered[cb] + 1
          /\ \A f \in Cbs : f # cb => g[f] = s.registered[f]
      BY <1>0, <2>0
    <2>5. r.env = e /\ r.registered = g
      OBVIOUS
    <2> HIDE DEF e, g, r
    <2>6. Counted(r)
      <3>1. CASE flag = "has_start_cb" /\ cb = "start"
        BY <3>1, <1>2, <2>3, <2>4, <2>5, DomainFacts DEF Counted
      <3>2. CASE flag = "has_final_cb" /\ cb = "final"
        BY <3>2, <1>2, <2>3, <2>4, <2>5, DomainFacts DEF Counted
      <3>3. CASE flag = "has_next_sim_time_cb" /\ cb = "next_sim_time"
        BY <3>3, <1>2, <2>3, <2>4, <2>5, DomainFacts DEF Counted
      <3> QED
        BY <3>1, <3>2, <3>3 DEF Pairs
    <2> QED
      BY <2>1, <2>2, <2>3, <2>5, <2>6
  <1> QED
    BY <1>1, <1>2

\* VeriluaEnv::initialize.
LEMMA InitializeFacts ==
    ASSUME NEW s \in States, NEW ok \in BOOLEAN, Counted(s), Ordered(s)
    PROVE  LET r == Initialize(s, ok)
           IN  /\ r \in States /\ Counted(r) /\ Ordered(r)
               /\ r.env.initialized /\ r.env.finalized = s.env.finalized
  <1>1. CASE s.env.initialized
    BY <1>1 DEF Initialize
  <1>2. CASE ~ s.env.initialized
    <2> DEFINE e == [s.env EXCEPT !.exists = TRUE, !.initialized = TRUE, !.ready = ok]
               a == [s EXCEPT !.env = e]
               b == RegisterOnce(a, "has_final_cb", "final")
               r == RegisterOnce(b, "has_next_sim_time_cb", "next_sim_time")
    <2>0. s.env \in [Flags -> BOOLEAN] /\ s.registered \in [Cbs -> Nat]
      BY DEF States
    <2>1. /\ e \in [Flags -> BOOLEAN] /\ e["exists"] /\ e["initialized"] /\ e["ready"] = ok
          /\ \A f \in Flags \ {"exists", "initialized", "ready"} : e[f] = s.env[f]
      BY <2>0, DomainFacts
    <2> HIDE DEF e
    <2>2. a \in States /\ a.env = e /\ a.registered = s.registered
      BY <2>0, <2>1 DEF States
    <2> HIDE DEF a
    <2>3. Counted(a)
      BY <2>1, <2>2, DomainFacts DEF Counted
    <2>4. /\ b \in States /\ Counted(b) /\ b.env["has_final_cb"]
          /\ \A f \in Flags : f # "has_final_cb" => b.env[f] = a.env[f]
      BY <2>2, <2>3, RegisterOnceFacts DEF Pairs
    <2> HIDE DEF b
    <2>5. /\ r \in States /\ Counted(r) /\ r.env["has_next_sim_time_cb"]
          /\ \A f \in Flags : f # "has_next_sim_time_cb" => r.env[f] = b.env[f]
      BY <2>4, RegisterOnceFacts DEF Pairs
    <2>6. Initialize(s, ok) = r
      BY <1>2 DEF Initialize, a, b, e
    <2> HIDE DEF r
    <2>7. /\ r.env["exists"] /\ r.env["initialized"] /\ r.env["has_final_cb"]
          /\ r.env["finalized"] = s.env["finalized"]
      BY <2>1, <2>2, <2>4, <2>5, DomainFacts
    <2>8. Ordered(r)
      BY <2>5, <2>7 DEF Ordered
    <2> QED
      BY <2>5, <2>6, <2>7, <2>8
  <1> QED
    BY <1>1, <1>2

\* get_verilua_env creates the environment if there is none.
LEMMA GetEnvFacts ==
    ASSUME NEW s \in States, NEW ok \in BOOLEAN, Counted(s), Ordered(s)
    PROVE  LET r == GetEnv(s, ok)
           IN  /\ r \in States /\ Counted(r) /\ Ordered(r)
               /\ r.env.finalized = s.env.finalized
  BY InitializeFacts DEF GetEnv

\* Nothing is finalized here, so finish_callback is not called.
LEMMA BecomesInv ==
    ASSUME EnvInv, NEW s \in States, Counted(s), Ordered(s),
           s.env.finalized = env.finalized, Becomes(s),
           has_error' \subseteq Steps, finishes' = finishes,
           process' \in {"running", "aborting", "exited", "left", "killed"}
    PROVE  EnvInv'
  <1>1. env' = s.env /\ registered' = s.registered
    BY DEF Becomes
  <1>2. s.env \in [Flags -> BOOLEAN] /\ s.registered \in [Cbs -> Nat]
    BY DEF States
  <1>3. EnvTypeOK'
    BY <1>1, <1>2 DEF EnvInv, EnvTypeOK, Flags, Cbs
  <1>4. Counted(State)'
    BY <1>1 DEF Counted, State
  <1>5. Ordered(State)'
    BY <1>1 DEF Ordered, State
  <1>6. (finishes = IF env.finalized THEN 1 ELSE 0)'
    BY <1>1 DEF EnvInv
  <1> QED
    BY <1>3, <1>4, <1>5, <1>6 DEF EnvInv

\* The start-up routine.
LEMMA BootstrapInv ==
    ASSUME EnvInv, Bootstrap
    PROVE  EnvInv' /\ process' = process
  <1> DEFINE e == [env EXCEPT !.exists = TRUE]
             a == [State EXCEPT !.env = e]
             b == RegisterOnce(a, "has_start_cb", "start")
             r == RegisterOnce(b, "has_final_cb", "final")
  <1>0. /\ State \in States /\ State.env = env /\ State.registered = registered
        /\ env \in [Flags -> BOOLEAN] /\ registered \in [Cbs -> Nat]
        /\ Counted(State) /\ Ordered(State)
    BY StateType DEF EnvInv
  <1>1. e \in [Flags -> BOOLEAN] /\ e["exists"] /\ \A f \in Flags \ {"exists"} : e[f] = env[f]
    BY <1>0, DomainFacts
  <1> HIDE DEF e
  <1>2. a \in States /\ a.env = e /\ a.registered = registered
    BY <1>0, <1>1 DEF States, State
  <1> HIDE DEF a
  <1>3. Counted(a)
    BY <1>0, <1>1, <1>2, DomainFacts DEF Counted
  <1>4. /\ b \in States /\ Counted(b) /\ b.env["has_start_cb"]
        /\ \A f \in Flags : f # "has_start_cb" => b.env[f] = a.env[f]
    BY <1>2, <1>3, RegisterOnceFacts DEF Pairs
  <1> HIDE DEF b
  <1>5. /\ r \in States /\ Counted(r) /\ r.env["has_final_cb"]
        /\ \A f \in Flags : f # "has_final_cb" => r.env[f] = b.env[f]
    BY <1>4, RegisterOnceFacts DEF Pairs
  <1>6. Becomes(r) /\ process' = process /\ has_error' = has_error /\ finishes' = finishes
    BY <1>0 DEF Bootstrap, a, b, e
  <1> HIDE DEF r
  <1>7. /\ r.env["exists"]
        /\ \A f \in {"initialized", "finalized", "ready", "has_next_sim_time_cb"} :
             r.env[f] = env[f]
    BY <1>1, <1>2, <1>4, <1>5, DomainFacts
  <1>8. Ordered(r)
    BY <1>0, <1>5, <1>7 DEF Ordered
  <1>9. /\ has_error' \subseteq Steps
        /\ process' \in {"running", "aborting", "exited", "left", "killed"}
    BY <1>6 DEF EnvInv, EnvTypeOK
  <1> QED
    BY <1>5, <1>6, <1>7, <1>8, <1>9, BecomesInv

\* The start-of-simulation callback.
LEMMA StartCallbackInv ==
    ASSUME EnvInv, NEW ok \in BOOLEAN, StartCallback(ok)
    PROVE  EnvInv' /\ process' \in {"running", "aborting"}
  <1> DEFINE g == GetEnv(State, ok)
             s == Initialize(g, ok)
             r == RegisterOnce(s, "has_next_sim_time_cb", "next_sim_time")
  <1>0. /\ State \in States /\ State.env = env /\ Counted(State) /\ Ordered(State)
    BY StateType DEF EnvInv
  <1>1. /\ g \in States /\ Counted(g) /\ Ordered(g) /\ g.env.finalized = env.finalized
    BY <1>0, GetEnvFacts
  <1> HIDE DEF g
  <1>2. /\ s \in States /\ Counted(s) /\ Ordered(s) /\ s.env.finalized = env.finalized
        /\ s.env.initialized
    BY <1>1, InitializeFacts
  <1> HIDE DEF s
  <1>3. /\ r \in States /\ Counted(r) /\ r.env["has_next_sim_time_cb"]
        /\ \A f \in Flags : f # "has_next_sim_time_cb" => r.env[f] = s.env[f]
    BY <1>2, RegisterOnceFacts DEF Pairs
  <1>4. /\ Becomes(r) /\ has_error' = has_error /\ finishes' = finishes
        /\ process' \in {"running", "aborting"}
    BY DEF StartCallback, r, s, g
  <1> HIDE DEF r
  <1>5. Ordered(r) /\ r.env.finalized = env.finalized
    BY <1>2, <1>3, DomainFacts DEF Ordered
  <1>6. has_error' \subseteq Steps
    BY <1>4 DEF EnvInv, EnvTypeOK
  <1> QED
    BY <1>3, <1>4, <1>5, <1>6, BecomesInv

\* verilua_init.
LEMMA VeriluaInitInv ==
    ASSUME EnvInv, NEW ok \in BOOLEAN, verilua_init(ok)
    PROVE  EnvInv' /\ process' \in {"running", "aborting"}
  <1> DEFINE g == GetEnv(State, ok)
             s == Initialize(g, ok)
  <1>0. /\ State \in States /\ State.env = env /\ Counted(State) /\ Ordered(State)
    BY StateType DEF EnvInv
  <1>1. /\ g \in States /\ Counted(g) /\ Ordered(g) /\ g.env.finalized = env.finalized
    BY <1>0, GetEnvFacts
  <1> HIDE DEF g
  <1>2. /\ s \in States /\ Counted(s) /\ Ordered(s) /\ s.env.finalized = env.finalized
    BY <1>1, InitializeFacts
  <1>3. /\ Becomes(s) /\ has_error' = has_error /\ finishes' = finishes
        /\ process' \in {"running", "aborting"}
    BY DEF verilua_init, g
  <1> HIDE DEF s
  <1>4. has_error' \subseteq Steps
    BY <1>3 DEF EnvInv, EnvTypeOK
  <1> QED
    BY <1>2, <1>3, <1>4, BecomesInv

\* The step functions and their safe forms.
LEMMA StepInv ==
    ASSUME EnvInv, NEW f \in Steps, NEW init_ok \in BOOLEAN, NEW ok \in BOOLEAN,
           Step(f, init_ok, ok) \/ StepSafe(f, init_ok, ok)
    PROVE  EnvInv' /\ process' \in {"running", "aborting"}
  <1> DEFINE s == GetEnv(State, init_ok)
  <1>0. /\ State \in States /\ State.env = env /\ Counted(State) /\ Ordered(State)
    BY StateType DEF EnvInv
  <1>1. /\ s \in States /\ Counted(s) /\ Ordered(s) /\ s.env.finalized = env.finalized
    BY <1>0, GetEnvFacts
  <1>2. /\ Becomes(s) /\ finishes' = finishes
        /\ process' \in {"running", "aborting"}
        /\ has_error' \in {has_error, has_error \cup {f}}
    BY DEF Step, StepSafe
  <1> HIDE DEF s
  <1>3. has_error' \subseteq Steps
    BY <1>2 DEF EnvInv, EnvTypeOK
  <1> QED
    BY <1>1, <1>2, <1>3, BecomesInv

\* finish_callback is called by the first finalize after initialize, and an
\* initialized environment is finalized when it returns.
LEMMA FinalizeInv ==
    ASSUME EnvInv, NEW s \in States, Counted(s), Ordered(s),
           s.env.finalized = env.finalized, NEW ok \in BOOLEAN, Finalize(s, ok),
           has_error' = has_error
    PROVE  /\ EnvInv' /\ process' \in {process, "aborting"}
           /\ env'.initialized => env'.finalized
  <1>0. s.env \in [Flags -> BOOLEAN] /\ s.registered \in [Cbs -> Nat]
    BY DEF States
  <1>1. CASE ~ s.env.initialized \/ s.env.finalized
    <2>1. Becomes(s) /\ finishes' = finishes /\ process' = process
      BY <1>1 DEF Finalize, Becomes
    <2>2. EnvInv'
      BY <2>1, BecomesInv DEF EnvInv, EnvTypeOK
    <2>3. env'.initialized => env'.finalized
      BY <2>1, <1>1 DEF Becomes
    <2> QED
      BY <2>1, <2>2, <2>3
  <1>2. CASE ~ (~ s.env.initialized \/ s.env.finalized)
    <2> DEFINE e == [s.env EXCEPT !.finalized = TRUE]
    <2>1. /\ env' = e /\ registered' = s.registered /\ finishes' = finishes + 1
          /\ process' \in {process, "aborting"}
      BY <1>2 DEF Finalize
    <2>2. /\ e \in [Flags -> BOOLEAN] /\ e["finalized"]
          /\ \A f \in Flags \ {"finalized"} : e[f] = s.env[f]
      BY <1>0, DomainFacts
    <2> HIDE DEF e
    <2>3. finishes = 0
      BY <1>2 DEF EnvInv
    <2>4. EnvTypeOK'
      BY <1>0, <2>1, <2>2, <2>3 DEF EnvInv, EnvTypeOK, Flags, Cbs
    <2>5. Counted(State)'
      BY <2>1, <2>2, DomainFacts DEF Counted, State
    <2>6. Ordered(State)'
      BY <1>2, <2>1, <2>2, DomainFacts DEF Ordered, State
    <2>7. (finishes = IF env.finalized THEN 1 ELSE 0)'
      BY <2>1, <2>2, <2>3
    <2> QED
      BY <2>1, <2>2, <2>4, <2>5, <2>6, <2>7 DEF EnvInv
  <1> QED
    BY <1>1, <1>2

\* The end-of-simulation callback, and a step after an error.
LEMMA FinalCallbackInv ==
    ASSUME EnvInv, NEW ok \in BOOLEAN,
           FinalCallback(ok) \/ \E f \in Steps : StepAfterError(f, ok)
    PROVE  /\ EnvInv' /\ process' \in {process, "aborting"}
           /\ env'.initialized => env'.finalized
           /\ process \in {"running", "aborting"}
  <1>1. /\ Finalize(State, ok) /\ has_error' = has_error
        /\ process \in {"running", "aborting"}
    BY DEF FinalCallback, StepAfterError
  <1>2. /\ State \in States /\ State.env = env /\ Counted(State) /\ Ordered(State)
    BY StateType DEF EnvInv
  <1> QED
    BY <1>1, <1>2, FinalizeInv

\* A callback whose task has failed.
LEMMA TaskFailsInv ==
    ASSUME EnvInv, TaskFails
    PROVE  EnvInv' /\ process' \in {"running", "aborting"}
  <1>1. process = "running" /\ has_error' = has_error
    BY DEF TaskFails
  <1>2. /\ State \in States /\ State.env = env /\ Counted(State) /\ Ordered(State)
    BY StateType DEF EnvInv
  <1>3. CASE env.finalized
    <2>1. process' = "aborting" /\ UNCHANGED <<env, registered, has_error, finishes>>
      BY <1>1, <1>3 DEF TaskFails
    <2>2. EnvTypeOK'
      BY <2>1 DEF EnvInv, EnvTypeOK
    <2> QED
      BY <2>1, <2>2 DEF EnvInv, Counted, Ordered, State
  <1>4. CASE ~ env.finalized
    <2>1. Finalize(State, FALSE)
      BY <1>4 DEF TaskFails
    <2> QED
      BY <1>1, <1>2, <2>1, FinalizeInv
  <1> QED
    BY <1>3, <1>4

\* verilua_final.
LEMMA VeriluaFinalInv ==
    ASSUME EnvInv, NEW init_ok \in BOOLEAN, NEW ok \in BOOLEAN,
           verilua_final(init_ok, ok)
    PROVE  EnvInv' /\ process' \in {"running", "aborting"}
  <1> DEFINE s == GetEnv(State, init_ok)
  <1>0. /\ State \in States /\ State.env = env /\ Counted(State) /\ Ordered(State)
    BY StateType DEF EnvInv
  <1>1. /\ s \in States /\ Counted(s) /\ Ordered(s) /\ s.env.finalized = env.finalized
    BY <1>0, GetEnvFacts
  <1>2. /\ process = "running" /\ has_error' = has_error
        /\ IF Panics(s)
           THEN Becomes(s) /\ process' = "aborting" /\ UNCHANGED finishes
           ELSE Finalize(s, ok)
    BY DEF verilua_final
  <1> HIDE DEF s
  <1>3. CASE Panics(s)
    <2>1. has_error' \subseteq Steps
      BY <1>2 DEF EnvInv, EnvTypeOK
    <2> QED
      BY <1>1, <1>2, <1>3, <2>1, BecomesInv
  <1>4. CASE ~ Panics(s)
    BY <1>1, <1>2, <1>4, FinalizeInv
  <1> QED
    BY <1>3, <1>4

\* The destructor of the environment.
LEMMA ExitRunsDestructorsInv ==
    ASSUME EnvInv, ExitRunsDestructors
    PROVE  EnvInv' /\ process' = "exited" /\ (env'.initialized => env'.finalized)
  <1>0. /\ State \in States /\ State.env = env /\ State.registered = registered
        /\ env \in [Flags -> BOOLEAN] /\ registered \in [Cbs -> Nat]
        /\ Counted(State) /\ Ordered(State)
    BY StateType DEF EnvInv
  <1>1. process' = "exited" /\ registered' = registered /\ has_error' = has_error
    BY DEF ExitRunsDestructors
  <1>2. CASE env.initialized /\ ~ env.finalized
    <2> DEFINE e == [env EXCEPT !.finalized = TRUE]
    <2>1. env' = e /\ finishes' = finishes + 1
      BY <1>2 DEF ExitRunsDestructors
    <2>2. /\ e \in [Flags -> BOOLEAN] /\ e["finalized"]
          /\ \A f \in Flags \ {"finalized"} : e[f] = env[f]
      BY <1>0, DomainFacts
    <2> HIDE DEF e
    <2>3. finishes = 0
      BY <1>2 DEF EnvInv
    <2>4. EnvTypeOK'
      BY <1>0, <1>1, <2>1, <2>2, <2>3 DEF EnvInv, EnvTypeOK, Flags, Cbs
    <2>5. Counted(State)'
      BY <1>0, <1>1, <2>1, <2>2, DomainFacts DEF Counted, State
    <2>6. Ordered(State)'
      BY <1>0, <1>2, <2>1, <2>2, DomainFacts DEF Ordered, State
    <2>7. (finishes = IF env.finalized THEN 1 ELSE 0)'
      BY <2>1, <2>2, <2>3
    <2> QED
      BY <1>1, <2>1, <2>2, <2>4, <2>5, <2>6, <2>7 DEF EnvInv
  <1>3. CASE ~ (env.initialized /\ ~ env.finalized)
    <2>1. env' = env /\ finishes' = finishes
      BY <1>3 DEF ExitRunsDestructors
    <2>2. EnvTypeOK'
      BY <1>1, <2>1 DEF EnvInv, EnvTypeOK
    <2> QED
      BY <1>1, <1>3, <2>1, <2>2 DEF EnvInv, Counted, Ordered, State
  <1> QED
    BY <1>2, <1>3

\* Steps that leave the environment alone, but may end the process
LEMMA SameEnvInv ==
    ASSUME EnvInv, UNCHANGED <<env, registered, has_error, finishes>>,
           process' \in {"running", "aborting", "exited", "left", "killed"}
    PROVE  EnvInv'
  BY DEF EnvInv, EnvTypeOK, Counted, Ordered, State

\* The environment of a new process has its types.
LEMMA NoEnvType ==
    /\ NoEnv \in [DOMAIN NoEnv -> BOOLEAN]
    /\ NoneRegistered \in [DOMAIN NoneRegistered -> Nat]
  BY DEF NoEnv, NoneRegistered

\* A new process has no environment.
LEMMA NoEnvInv ==
    ASSUME env = NoEnv, registered = NoneRegistered, has_error = {}, finishes = 0,
           process = "running"
    PROVE  EnvInv
  <1>1. /\ env \in [DOMAIN NoEnv -> BOOLEAN]
        /\ registered \in [DOMAIN NoneRegistered -> Nat]
    BY NoEnvType
  <1> QED
    BY <1>1 DEF EnvInv, EnvTypeOK, Counted, Ordered, State, NoEnv, NoneRegistered

\* The steps of a wave process and between processes
LEMMA EnvWaveStep ==
    ASSUME EnvInv, EndInv,
           \/ \E only \in BOOLEAN : Open(only)
           \/ Stat \/ Startup
           \/ \E ok \in BOOLEAN : StartOfSimulation(ok) \/ EndCallback(ok)
           \/ \E n \in Names : Find(n) \/ \E t \in 1 .. MaxTime : ReadFails(n, t)
           \/ Query \/ Fail
           \/ EndOfSimulation \/ WellenFinalizeEnds \/ Exit \/ SaveFails
           \/ Interrupt \/ Kill
           \/ NextProcess \/ LoseFile
           \/ \E w \in Waves : Dump(w)
    PROVE  EnvInv' /\ EndInv'
  <1>0. process \in {"running", "aborting", "exited", "left", "killed"}
    BY DEF EnvInv, EnvTypeOK
  <1>1. CASE \/ \E only \in BOOLEAN : Open(only)
             \/ Stat \/ EndOfSimulation \/ WellenFinalizeEnds \/ LoseFile
             \/ \E w \in Waves : Dump(w)
    <2>1. /\ UNCHANGED <<env, registered, has_error, finishes, process, host>>
          /\ closing' = closing \/ closing' = "wellen"
      BY <1>1 DEF Open, Stat, EndOfSimulation, WellenFinalizeEnds, LoseFile, Dump, envVars
    <2>2. EnvInv'
      BY <2>1, <1>0, SameEnvInv
    <2>3. EndInv'
      BY <2>1 DEF EndInv
    <2> QED
      BY <2>2, <2>3
  <1>2. CASE Startup
    <2>1. /\ Bootstrap /\ closing = "no" /\ process = "running"
          /\ closing' = closing
      BY <1>2 DEF Startup, InWave
    <2>2. EnvInv' /\ process' = process
      BY <2>1, BootstrapInv
    <2> QED
      BY <2>1, <2>2 DEF EndInv
  <1>3. CASE \E ok \in BOOLEAN : StartOfSimulation(ok)
    <2>0. PICK ok \in BOOLEAN : StartOfSimulation(ok)
      BY <1>3
    <2>1. StartCallback(ok) /\ closing = "no" /\ closing' = closing
      BY <2>0 DEF StartOfSimulation, InWave
    <2>2. EnvInv' /\ process' \in {"running", "aborting"}
      BY <2>1, StartCallbackInv
    <2> QED
      BY <2>1, <2>2 DEF EndInv
  <1>4. CASE \E ok \in BOOLEAN : EndCallback(ok)
    <2>0. PICK ok \in BOOLEAN : EndCallback(ok)
      BY <1>4
    <2>1. FinalCallback(ok)
      BY <2>0 DEF EndCallback
    <2>2. /\ EnvInv' /\ process' \in {process, "aborting"}
          /\ env'.initialized => env'.finalized
      BY <2>1, FinalCallbackInv
    <2> QED
      BY <2>2 DEF EndInv
  <1>5. CASE (\E n \in Names : Find(n) \/ \E t \in 1 .. MaxTime : ReadFails(n, t)) \/ Query
    <2>1. /\ process = "running" /\ process' \in {"running", "aborting"}
          /\ UNCHANGED <<env, registered, has_error, finishes, host, closing>>
      BY <1>5 DEF Find, ReadFails, Query, LuaRuns
    <2>2. EnvInv'
      BY <2>1, SameEnvInv
    <2> QED
      BY <2>1, <2>2 DEF EndInv
  <1>6. CASE Exit
    <2>1. CASE process = "running" /\ ExitAtOnce("exited")
      <3>1. /\ process' = "exited" /\ host = "wave" /\ closing = "done"
            /\ UNCHANGED <<env, registered, has_error, finishes>>
        BY <1>6, <2>1 DEF Exit, ExitAtOnce
      <3>2. EnvInv'
        BY <3>1, SameEnvInv
      <3> QED
        BY <2>1, <3>1, <3>2 DEF EndInv
    <2>2. CASE ExitRunsDestructors
      BY <2>2, ExitRunsDestructorsInv DEF EndInv
    <2> QED
      BY <1>6, <2>1, <2>2 DEF Exit
  <1>7. CASE SaveFails \/ Interrupt \/ Kill
    <2>1. /\ process' \in {"aborting", "left", "killed"}
          /\ UNCHANGED <<env, registered, has_error, finishes>>
      BY <1>7 DEF SaveFails, Interrupt, Kill, ExitAtOnce
    <2>2. EnvInv'
      BY <2>1, SameEnvInv
    <2> QED
      BY <2>1, <2>2 DEF EndInv
  <1>8. CASE NextProcess
    <2>1. /\ env' = NoEnv /\ registered' = NoneRegistered /\ has_error' = {}
          /\ finishes' = 0 /\ process' = "running" /\ closing' = "no"
      BY <1>8 DEF NextProcess
    <2>2. EnvTypeOK'
      BY <2>1, NoEnvType DEF EnvTypeOK
    <2>3. EnvInv'
      BY <2>1, <2>2 DEF EnvInv, Counted, Ordered, State, NoEnv, NoneRegistered
    <2> QED
      BY <2>1, <2>3 DEF EndInv
  <1>9. CASE Fail
    <2>1. TaskFails /\ process = "running" /\ UNCHANGED <<host, closing>>
      BY <1>9 DEF Fail, LuaRuns
    <2>2. EnvInv' /\ (process' = "aborting")
      <3>1. process' = "aborting"
        BY <2>1, StateType DEF TaskFails, Finalize, EnvInv, Ordered
      <3> QED
        BY <2>1, <3>1, TaskFailsInv
    <2> QED
      BY <2>2 DEF EndInv
  <1> QED
    BY <1>1, <1>2, <1>3, <1>4, <1>5, <1>6, <1>7, <1>8, <1>9

\* The steps of a simulation that embeds Verilua
LEMMA EnvEmbedStep ==
    ASSUME EnvInv, EndInv,
           \/ \E ok, init_ok \in BOOLEAN, f \in Steps :
                \/ Embed(verilua_init(init_ok))
                \/ Embed(Step(f, init_ok, ok))
                \/ Embed(StepSafe(f, init_ok, ok))
                \/ Embed(StepAfterError(f, ok))
                \/ Embed(verilua_final(init_ok, ok))
                \/ Embed(process = "running" /\ FinalCallback(ok))
           \/ Embed(TaskFails) \/ Embed(EmbedExit)
    PROVE  EnvInv' /\ EndInv'
  <1>0. host \in {"embed", "vcs"} /\ host' = host
    BY DEF Embed
  <1>1. ASSUME EnvInv', process' \in {"running", "aborting", "left", "killed"}
        PROVE  EnvInv' /\ EndInv'
    BY <1>0, <1>1 DEF EndInv
  <1>2. ASSUME NEW ok \in BOOLEAN, NEW init_ok \in BOOLEAN, NEW f \in Steps,
               \/ Embed(verilua_init(init_ok))
               \/ Embed(Step(f, init_ok, ok))
               \/ Embed(StepSafe(f, init_ok, ok))
               \/ Embed(StepAfterError(f, ok))
               \/ Embed(verilua_final(init_ok, ok))
               \/ Embed(process = "running" /\ FinalCallback(ok))
        PROVE  EnvInv' /\ EndInv'
    <2>1. CASE Embed(verilua_init(init_ok))
      BY <2>1, <1>1, VeriluaInitInv DEF Embed
    <2>2. CASE Embed(Step(f, init_ok, ok)) \/ Embed(StepSafe(f, init_ok, ok))
      BY <2>2, <1>1, StepInv DEF Embed
    <2>3. CASE Embed(StepAfterError(f, ok)) \/ Embed(process = "running" /\ FinalCallback(ok))
      <3>1. FinalCallback(ok) \/ \E g \in Steps : StepAfterError(g, ok)
        BY <2>3 DEF Embed
      <3>2. /\ EnvInv' /\ process' \in {process, "aborting"}
            /\ process \in {"running", "aborting"}
        BY <3>1, FinalCallbackInv
      <3> QED
        BY <3>2, <1>1
    <2>4. CASE Embed(verilua_final(init_ok, ok))
      BY <2>4, <1>1, VeriluaFinalInv DEF Embed
    <2> QED
      BY <1>2, <2>1, <2>2, <2>3, <2>4
  <1>3. CASE Embed(EmbedExit)
    <2>1. CASE ExitRunsDestructors
      BY <2>1, <1>0, ExitRunsDestructorsInv DEF EndInv
    <2>2. CASE ExitAtOnce("killed") \/ ExitAtOnce("left")
      BY <2>2, <1>1, SameEnvInv DEF ExitAtOnce
    <2> QED
      BY <1>3, <2>1, <2>2 DEF Embed, EmbedExit
  <1>4. CASE Embed(TaskFails)
    BY <1>4, <1>1, TaskFailsInv DEF Embed
  <1> QED
    BY <1>2, <1>3, <1>4

\* Every step preserves the invariants of the environment.
LEMMA EnvStep ==
    ASSUME EnvInv, EndInv, [Next]_vars
    PROVE  EnvInv' /\ EndInv'
  <1>1. CASE Next
    BY <1>1, EnvWaveStep, EnvEmbedStep DEF Next
  <1>2. CASE UNCHANGED vars
    <2>1. UNCHANGED <<env, registered, has_error, finishes, process, host, closing>>
      BY <1>2 DEF vars, envVars
    <2>2. EnvInv'
      BY <2>1, SameEnvInv DEF EnvInv, EnvTypeOK
    <2> QED
      BY <2>1, <2>2 DEF EndInv
  <1> QED
    BY <1>1, <1>2

\* They hold in every reachable state.
LEMMA EnvInvariant == Spec => [](EnvInv /\ EndInv)
  <1>1. Init => EnvInv /\ EndInv
    BY NoEnvInv DEF Init, EnvInit, EndInv
  <1>2. (EnvInv /\ EndInv) /\ [Next]_vars => (EnvInv /\ EndInv)'
    BY EnvStep
  <1> QED
    BY <1>1, <1>2, PTL DEF Spec

\* However the environment is created and initialized, in every process the
\* simulator holds at most one callback of each kind, and exactly one for the
\* end and for the next sim time once verilua_init has returned.
THEOREM EnvCallbacksOnce == Spec => []CallbacksOnce
  <1>1. EnvInv => CallbacksOnce
    <2> SUFFICES ASSUME EnvInv
                 PROVE  CallbacksOnce
      OBVIOUS
    <2>1. DOMAIN registered = Cbs /\ State.env = env /\ State.registered = registered
      BY StateType DEF EnvInv
    <2>2. /\ registered.start <= 1 /\ registered.final <= 1
          /\ registered.next_sim_time <= 1
      BY <2>1 DEF EnvInv, Counted
    <2>3. env.ready => registered.final = 1 /\ registered.next_sim_time = 1
      BY <2>1 DEF EnvInv, Counted, Ordered
    <2> QED
      BY <2>1, <2>2, <2>3, DomainFacts DEF CallbacksOnce
  <1> QED
    BY <1>1, EnvInvariant, PTL

\* finish_callback is called at most once in a process, and an initialized
\* process that exits, with the destructor or after a complete endOfSimulation, has
\* called it, whatever sequence of callbacks, failed steps and tasks, aborts and
\* destructors takes it there.
THEOREM EnvFinishedOnce == Spec => []FinishedOnce
  <1>1. EnvInv /\ EndInv => FinishedOnce
    BY DEF EnvInv, EndInv, FinishedOnce
  <1> QED
    BY <1>1, EnvInvariant, PTL
----------------------------------------------------------------------------
(* The signal caches                                                       *)

IsCache(c) == c = [sigref |-> c.sigref, null |-> c.null, signals |-> c.signals,
                   names |-> c.names, newly |-> c.newly]

CacheTyped(c) ==
    /\ IsCache(c)
    /\ PartialFcn(c.sigref, Names, References)
    /\ c.null \subseteq Names
    /\ PartialFcn(c.signals, References, Waves)
    /\ PartialFcn(c.names, References, Names)
    /\ c.newly \in BOOLEAN

\* The references and the unknown names are those of wave w.
RefsOf(sigref, null, w) ==
    /\ \A n \in DOMAIN sigref : /\ n \in DOMAIN Contents[w].refs
                                /\ sigref[n] = Contents[w].refs[n]
    /\ null \cap DOMAIN Contents[w].refs = {}

OfWave(c, w) ==
    RefsOf(c.sigref, c.null, w) /\ \A r \in DOMAIN c.signals : c.signals[r] = w

\* The signals of all references are there.
Complete(sigref, signals) == \A n \in DOMAIN sigref : sigref[n] \in DOMAIN signals

\* Files are told apart by their stamps: two waves that the processes meet were
\* not written within one second with one size.
StampsDiffer == \A v, w \in Waves : Stamp(v) = Stamp(w) => v = w

\* What holds for the caches of a process that plays wave w, and is kept by every
\* lookup; fs are the faults so far.
CacheGood(c, w, fs) ==
    /\ CacheTyped(c)
    /\ StampsDiffer /\ fs = {} => OfWave(c, w)
    /\ "files" \notin fs => Complete(c.sigref, c.signals)

\* Types, and how phases fit together
SessionInv ==
    /\ wave \in Waves /\ loaded \in Waves /\ modified \in Waves
    /\ phase \in {"down", "opened", "up", "saving", "saved"}
    /\ hierarchy_only \in BOOLEAN /\ faults \subseteq {"files", "race"}
    /\ closing \in {"no", "wellen", "done"} /\ hdl_cache \subseteq Names
    /\ phase \in {"saving", "saved"} => closing # "no"
    /\ process \in {"exited", "left", "killed"} \/ host # "wave" => phase = "down"
    /\ phase = "down" => loaded = wave /\ modified = wave /\ cache = NoCache
    /\ "race" \notin faults => modified = loaded

\* The references in the meta file are those of the wave with its stamp.
MetaInv ==
    meta.readable =>
      /\ PartialFcn(meta.sigref, Names, References) /\ meta.null \subseteq Names
      /\ \E w \in Waves :
           /\ meta.modified = Stamp(w)
           /\ StampsDiffer /\ faults = {} => RefsOf(meta.sigref, meta.null, w)

\* Between two saves the signal file holds the signals of the meta file, read
\* from the same wave.
BinInv ==
    /\ bin.readable => PartialFcn(bin.signals, References, Waves)
    /\ meta.readable /\ phase # "saving" =>
         /\ "files" \notin faults =>
              bin.readable /\ Complete(meta.sigref, bin.signals)
         /\ StampsDiffer /\ faults = {} =>
              \A r \in DOMAIN bin.signals : Stamp(bin.signals[r]) = meta.modified

\* In the middle of a save
SavingInv ==
    phase = "saving" =>
      /\ meta = NewMeta
      /\ closing = "done" => "files" \in faults

CacheInv ==
    /\ SessionInv /\ CacheGood(cache, loaded, faults)
    /\ MetaInv /\ BinInv /\ SavingInv

\* What the assumption says of one wave.
LEMMA WaveFacts ==
    ASSUME NEW w \in Waves
    PROVE  /\ DOMAIN Contents[w].refs \subseteq Names
           /\ \A n \in DOMAIN Contents[w].refs : Contents[w].refs[n] \in References
           /\ IsList(Contents[w].modules)
           /\ \A i \in DOMAIN Contents[w].modules :
                /\ IsList(Contents[w].modules[i].vars)
                /\ \A j \in DOMAIN Contents[w].modules[i].vars :
                     Contents[w].modules[i].vars[j].name \in Names
  BY WaveAssumption DEF References

\* The empty caches are right for every wave.
LEMMA NoCacheGood ==
    ASSUME NEW w, NEW fs
    PROVE  CacheGood(NoCache, w, fs)
  <1>1. DOMAIN (<<>>) = {}
    OBVIOUS
  <1>2. CacheTyped(NoCache)
    BY <1>1 DEF CacheTyped, IsCache, NoCache, PartialFcn
  <1>3. OfWave(NoCache, w) /\ Complete(NoCache.sigref, NoCache.signals)
    BY <1>1 DEF OfWave, RefsOf, Complete, NoCache
  <1> QED
    BY <1>2, <1>3 DEF CacheGood

\* Inserting into a map.
LEMMA PutFacts ==
    ASSUME NEW f, NEW k, NEW v
    PROVE  /\ DOMAIN Put(f, k, v) = DOMAIN f \cup {k}
           /\ Put(f, k, v)[k] = v
           /\ \A x \in DOMAIN f : x # k => Put(f, k, v)[x] = f[x]
  BY DEF Put

\* Inserting into a map keeps its types.
LEMMA PutTyped ==
    ASSUME NEW f, NEW D, NEW R, NEW k \in D, NEW v \in R, PartialFcn(f, D, R)
    PROVE  PartialFcn(Put(f, k, v), D, R)
  BY DEF PartialFcn, Put

\* The caches with other entries for names that were not found.
LEMMA CacheNulls ==
    ASSUME NEW c, IsCache(c), NEW null, NEW newly
    PROVE  [c EXCEPT !.null = null, !.newly = newly]
             = [sigref |-> c.sigref, null |-> null, signals |-> c.signals,
                names |-> c.names, newly |-> newly]
  <1> DEFINE a == c.sigref  b == c.null  s == c.signals  m == c.names  w == c.newly
  <1>1. c = [sigref |-> a, null |-> b, signals |-> s, names |-> m, newly |-> w]
    BY DEF IsCache
  <1> HIDE DEF a, b, s, m, w
  <1>2. DOMAIN c = {"sigref", "null", "signals", "names", "newly"}
    BY <1>1
  <1>3. [c EXCEPT !.null = null, !.newly = newly]
          = [x \in {"sigref", "null", "signals", "names", "newly"} |->
               IF x = "newly" THEN newly ELSE IF x = "null" THEN null ELSE c[x]]
    BY <1>2
  <1>4. [c EXCEPT !.null = null, !.newly = newly]
          = [sigref |-> a, null |-> null, signals |-> s, names |-> m, newly |-> newly]
    BY <1>1, <1>3
  <1> QED
    BY <1>4 DEF a, s, m

\* A lookup keeps what is known about the caches.
LEMMA HandleByNameGood ==
    ASSUME NEW c, NEW n \in Names, loaded \in Waves, NEW fs,
           CacheGood(c, loaded, fs)
    PROVE  CacheGood(handle_by_name(c, n), loaded, fs)
  <1>0. /\ IsCache(c) /\ CacheTyped(c)
        /\ PartialFcn(c.sigref, Names, References) /\ c.null \subseteq Names
        /\ PartialFcn(c.signals, References, Waves)
        /\ PartialFcn(c.names, References, Names) /\ c.newly \in BOOLEAN
    BY DEF CacheGood, CacheTyped
  <1>1. CASE n \in DOMAIN c.sigref
    <2> DEFINE d == [c EXCEPT !.names = Put(@, c.sigref[n], n)]
    <2>1. d = [sigref |-> c.sigref, null |-> c.null, signals |-> c.signals,
               names |-> Put(c.names, c.sigref[n], n), newly |-> c.newly]
      BY <1>0 DEF IsCache
    <2>2. PartialFcn(Put(c.names, c.sigref[n], n), References, Names)
      <3>1. c.sigref[n] \in References
        BY <1>0, <1>1 DEF PartialFcn
      <3> QED
        BY <3>1, <1>0, PutTyped
    <2>3. handle_by_name(c, n) = d
      BY <1>1 DEF handle_by_name
    <2> HIDE DEF d
    <2>4. /\ d.sigref = c.sigref /\ d.null = c.null /\ d.signals = c.signals
          /\ d.names = Put(c.names, c.sigref[n], n) /\ d.newly = c.newly
      BY <2>1
    <2>5. CacheTyped(d)
      BY <1>0, <2>1, <2>2, <2>4 DEF CacheTyped, IsCache
    <2>6. (OfWave(c, loaded) => OfWave(d, loaded))
          /\ (Complete(c.sigref, c.signals) => Complete(d.sigref, d.signals))
      BY <2>4 DEF OfWave
    <2> QED
      BY <2>3, <2>5, <2>6 DEF CacheGood
  <1>2. CASE n \notin DOMAIN c.sigref /\ n \in c.null
    BY <1>2 DEF handle_by_name
  <1>3. CASE /\ n \notin DOMAIN c.sigref /\ n \notin c.null
             /\ n \notin DOMAIN Contents[loaded].refs
    <2> DEFINE d == [c EXCEPT !.null = @ \cup {n}, !.newly = TRUE]
    <2>1. d = [sigref |-> c.sigref, null |-> c.null \cup {n}, signals |-> c.signals,
               names |-> c.names, newly |-> TRUE]
      BY <1>0, CacheNulls, Zenon
    <2>3. handle_by_name(c, n) = d
      BY <1>3 DEF handle_by_name
    <2> HIDE DEF d
    <2>4. /\ d.sigref = c.sigref /\ d.null = c.null \cup {n} /\ d.signals = c.signals
          /\ d.names = c.names /\ d.newly = TRUE
      BY <2>1
    <2>5. CacheTyped(d)
      <3>1. IsCache(d)
        BY <2>1, <2>4 DEF IsCache
      <3> QED
        BY <1>0, <2>4, <3>1 DEF CacheTyped
    <2>6. OfWave(c, loaded) => OfWave(d, loaded)
      BY <1>3, <2>4 DEF OfWave, RefsOf
    <2> QED
      BY <2>3, <2>4, <2>5, <2>6 DEF CacheGood
  <1>4. CASE /\ n \notin DOMAIN c.sigref /\ n \notin c.null
             /\ n \in DOMAIN Contents[loaded].refs
    <2> DEFINE r == Contents[loaded].refs[n]
               d == [c EXCEPT !.signals = Put(@, r, loaded), !.names = Put(@, r, n),
                              !.sigref = Put(@, n, r), !.newly = TRUE]
    <2>0. r \in References
      BY <1>4, WaveFacts
    <2>1. d = [sigref |-> Put(c.sigref, n, r), null |-> c.null,
               signals |-> Put(c.signals, r, loaded), names |-> Put(c.names, r, n),
               newly |-> TRUE]
      <3> DEFINE t == TRUE
                 e == [c EXCEPT !.signals = Put(c.signals, r, loaded),
                                !.names = Put(c.names, r, n),
                                !.sigref = Put(c.sigref, n, r), !.newly = t]
      <3>1. e = [sigref |-> Put(c.sigref, n, r), null |-> c.null,
                 signals |-> Put(c.signals, r, loaded),
                 names |-> Put(c.names, r, n), newly |-> t]
        <4> DEFINE p == Put(c.sigref, n, r)
                   q == Put(c.signals, r, loaded)
                   m == Put(c.names, r, n)
        <4> HIDE DEF t, p, q, m
        <4>1. [c EXCEPT !.signals = q, !.names = m, !.sigref = p, !.newly = t]
                = [sigref |-> p, null |-> c.null, signals |-> q, names |-> m,
                   newly |-> t]
          <5> DEFINE Fields == {"sigref", "null", "signals", "names", "newly"}
          <5>1. DOMAIN c = Fields
            BY <1>0 DEF IsCache
          <5>2. [c EXCEPT !.signals = q, !.names = m, !.sigref = p, !.newly = t]
                  = [x \in Fields |->
                       IF x = "newly" THEN t ELSE IF x = "sigref" THEN p
                       ELSE IF x = "names" THEN m ELSE IF x = "signals" THEN q
                       ELSE c[x]]
            BY <5>1
          <5> QED
            BY <5>2
        <4> QED
          BY <4>1 DEF p, q, m
      <3>2. d = e
        OBVIOUS
      <3> QED
        BY <3>1, <3>2
    <2>3. handle_by_name(c, n) = d
      BY <1>4 DEF handle_by_name
    <2> HIDE DEF d
    <2>4. /\ d.sigref = Put(c.sigref, n, r) /\ d.null = c.null
          /\ d.signals = Put(c.signals, r, loaded)
          /\ d.names = Put(c.names, r, n) /\ d.newly = TRUE
      BY <2>1
    <2>5. CacheTyped(d)
      <3>1. IsCache(d)
        BY <2>1, <2>4 DEF IsCache
      <3>2. PartialFcn(d.sigref, Names, References)
        BY <1>0, <2>0, <2>4, PutTyped
      <3>3. PartialFcn(d.signals, References, Waves)
        BY <1>0, <2>0, <2>4, PutTyped
      <3>4. PartialFcn(d.names, References, Names)
        BY <1>0, <2>0, <2>4, PutTyped
      <3> QED
        BY <1>0, <2>4, <3>1, <3>2, <3>3, <3>4 DEF CacheTyped
    <2>6. ASSUME OfWave(c, loaded) PROVE OfWave(d, loaded)
      <3>1. RefsOf(d.sigref, d.null, loaded)
        <4> DEFINE p == Put(c.sigref, n, r)
        <4>1. DOMAIN p = DOMAIN c.sigref \cup {n} /\ p[n] = r
              /\ \A x \in DOMAIN c.sigref : x # n => p[x] = c.sigref[x]
          BY DEF Put
        <4> HIDE DEF p
        <4>2. RefsOf(p, c.null, loaded)
          BY <1>4, <2>6, <4>1 DEF OfWave, RefsOf
        <4> QED
          BY <2>4, <4>2 DEF p
      <3>2. \A x \in DOMAIN d.signals : d.signals[x] = loaded
        <4> DEFINE p == Put(c.signals, r, loaded)
        <4>1. DOMAIN p = DOMAIN c.signals \cup {r} /\ p[r] = loaded
              /\ \A x \in DOMAIN c.signals : x # r => p[x] = c.signals[x]
          BY DEF Put
        <4> HIDE DEF p
        <4>2. \A x \in DOMAIN p : p[x] = loaded
          BY <2>6, <4>1 DEF OfWave
        <4> QED
          BY <2>4, <4>2 DEF p
      <3> QED
        BY <3>1, <3>2 DEF OfWave
    <2>7. ASSUME Complete(c.sigref, c.signals) PROVE Complete(d.sigref, d.signals)
      <3> DEFINE p == Put(c.sigref, n, r)
                 q == Put(c.signals, r, loaded)
      <3>1. /\ DOMAIN p = DOMAIN c.sigref \cup {n} /\ p[n] = r
            /\ \A x \in DOMAIN c.sigref : x # n => p[x] = c.sigref[x]
            /\ DOMAIN q = DOMAIN c.signals \cup {r}
        BY DEF Put
      <3> HIDE DEF p, q
      <3>2. Complete(p, q)
        BY <2>7, <3>1 DEF Complete
      <3> QED
        BY <2>4, <3>2 DEF p, q
    <2> QED
      BY <2>3, <2>5, <2>6, <2>7 DEF CacheGood
  <1> QED
    BY <1>1, <1>2, <1>3, <1>4

\* The recursive function of OpenAll exists ...
Opened(f, c, names, N) ==
    [i \in 0 .. N |-> IF i = 0 THEN c ELSE handle_by_name(f[i - 1], names[i])]

\* The loop that opens one name after the other is well defined.
LEMMA OpenedExists ==
    ASSUME NEW c, NEW names, NEW N \in Nat
    PROVE  \E f : f = Opened(f, c, names, N)
  <1> DEFINE Unfold(f, k) == Opened(f, c, names, k)
             S == {k \in Nat : \E f : f = Unfold(f, k)}
  <1>1. 0 \in S
    <2> DEFINE f == [i \in 0 .. 0 |-> c]
    <2>1. f = Unfold(f, 0)
      BY DEF Opened
    <2> QED
      BY <2>1
  <1>2. ASSUME NEW k \in 1 .. N, k - 1 \in S
        PROVE  k \in S
    <2>1. PICK f : f = Unfold(f, k - 1)
      BY <1>2
    <2> DEFINE g == [i \in 0 .. k |->
                       IF i = k THEN handle_by_name(f[k - 1], names[k]) ELSE f[i]]
    <2>2. \A i \in 0 .. k :
            g[i] = IF i = 0 THEN c ELSE handle_by_name(g[i - 1], names[i])
      <3> SUFFICES ASSUME NEW i \in 0 .. k
                   PROVE  g[i] = IF i = 0 THEN c ELSE handle_by_name(g[i - 1], names[i])
        OBVIOUS
      <3>1. CASE i = 0
        BY <3>1, <2>1 DEF Opened
      <3>2. CASE i = k
        <4>1. g[k - 1] = f[k - 1]
          OBVIOUS
        <4> QED
          BY <3>2, <4>1
      <3>3. CASE i # 0 /\ i # k
        <4>1. i \in 0 .. k - 1 /\ i - 1 \in 0 .. k - 1
          BY <3>3
        <4>2. g[i - 1] = f[i - 1] /\ g[i] = f[i]
          BY <4>1, <3>3
        <4>3. f[i] = handle_by_name(f[i - 1], names[i])
          BY <2>1, <4>1, <3>3 DEF Opened
        <4> QED
          BY <4>2, <4>3, <3>3
      <3> QED
        BY <3>1, <3>2, <3>3
    <2>3. DOMAIN g = 0 .. k
      OBVIOUS
    <2>4. g = [i \in DOMAIN g |-> g[i]]
      OBVIOUS
    <2> HIDE DEF g
    <2>5. g = Unfold(g, k)
      BY <2>2, <2>3, <2>4 DEF Opened
    <2> QED
      BY <2>5
  <1> HIDE DEF S
  <1>3. N \in S
    BY <1>1, <1>2, UpTo
  <1> QED
    BY <1>3 DEF S

\* ... and all its values are good.
LEMMA OpenAllGood ==
    ASSUME NEW c, loaded \in Waves, NEW fs, CacheGood(c, loaded, fs),
           NEW names \in Seq(Names)
    PROVE  CacheGood(OpenAll(c, names), loaded, fs)
  <1> DEFINE N == Len(names)
             opened == CHOOSE f : f = Opened(f, c, names, N)
             S == {i \in 0 .. N : CacheGood(opened[i], loaded, fs)}
  <1>0. N \in Nat /\ \A i \in 1 .. N : names[i] \in Names
    OBVIOUS
  <1>1. OpenAll(c, names) = opened[N]
    BY DEF OpenAll, Opened
  <1>2. opened = Opened(opened, c, names, N)
    <2>1. \E f : f = Opened(f, c, names, N)
      <3> HIDE DEF N
      <3> QED
        BY <1>0, OpenedExists
    <2> QED
      BY <2>1
  <1> HIDE DEF opened, N
  <1>3. 0 \in S
    <2>1. opened[0] = c
      BY <1>0, <1>2 DEF Opened
    <2> QED
      BY <1>0, <2>1
  <1>4. \A i \in 1 .. N : i - 1 \in S => i \in S
    <2> SUFFICES ASSUME NEW i \in 1 .. N, i - 1 \in S
                 PROVE  i \in S
      OBVIOUS
    <2>1. opened[i] = handle_by_name(opened[i - 1], names[i])
      BY <1>0, <1>2 DEF Opened
    <2>2. CacheGood(opened[i - 1], loaded, fs)
      OBVIOUS
    <2>3. CacheGood(opened[i], loaded, fs)
      BY <1>0, <2>1, <2>2, HandleByNameGood
    <2> QED
      BY <1>0, <2>3
  <1>5. N \in 0 .. N
    BY <1>0
  <1>6. N \in S
    <2> HIDE DEF S
    <2> QED
      BY <1>0, <1>3, <1>4, <1>5, UpTo
  <1> QED
    BY <1>1, <1>6

\* A module whose variables can be looked up
IsModule(m) ==
    IsList(m.vars) /\ \A j \in DOMAIN m.vars : m.vars[j].name \in Names

\* The indices of a list.
LEMMA ListDomain ==
    ASSUME NEW s, IsList(s)
    PROVE  Len(s) \in Nat /\ DOMAIN s = 1 .. Len(s)
  BY DEF IsList

\* The names of the signals of a module.
LEMMA SignalNamesType ==
    ASSUME NEW m, IsModule(m), NEW kind
    PROVE  SignalNames(m, kind) \in Seq(Names)
  <1> DEFINE ref == Contents[loaded].refs
             I == {i \in DOMAIN m.vars :
                    /\ m.vars[i].kind = kind
                    /\ \A j \in 1 .. i - 1 : m.vars[j].kind = kind =>
                         ref[m.vars[j].name] # ref[m.vars[i].name]}
             first == AtIndices(m.vars, I)
             N == Cardinality(I)
  <1>1. Len(m.vars) \in Nat /\ DOMAIN m.vars = 1 .. Len(m.vars)
    BY ListDomain DEF IsModule
  <1>2. I \in SUBSET (1 .. Len(m.vars))
    BY <1>1
  <1>3. SignalNames(m, kind) = [i \in DOMAIN first |-> first[i].name]
    BY DEF SignalNames
  <1>4. \A j \in I : m.vars[j].name \in Names
    BY DEF IsModule
  <1> HIDE DEF I
  <1>5. /\ N \in Nat /\ DOMAIN first = 1 .. N
        /\ \A i \in 1 .. N : \E j \in I : first[i] = m.vars[j]
    BY <1>1, <1>2, AtIndicesFacts
  <1> HIDE DEF first, N
  <1>6. \A i \in 1 .. N : first[i].name \in Names
    BY <1>4, <1>5
  <1> QED
    BY <1>3, <1>5, <1>6

AccGood(acc, fs) == "cache" \in DOMAIN acc /\ CacheGood(acc.cache, loaded, fs)

\* Collecting the signals of one kind keeps the caches right.
LEMMA CollectSignalsGood ==
    ASSUME NEW acc, NEW fs, AccGood(acc, fs), NEW m, IsModule(m), NEW kind,
           loaded \in Waves
    PROVE  AccGood(CollectSignals(acc, m, kind), fs)
  <1> DEFINE asked == SignalNames(m, kind)
             c == OpenAll(acc.cache, asked)
             r == CollectSignals(acc, m, kind)
  <1>1. CacheGood(c, loaded, fs)
    BY SignalNamesType, OpenAllGood DEF AccGood
  <1>2. r = acc \/ (DOMAIN r = DOMAIN acc /\ r.cache = c)
    <2> HIDE DEF c
    <2> QED
      BY DEF CollectSignals, AccGood, c
  <1> HIDE DEF r, c
  <1>3. AccGood(r, fs)
    BY <1>1, <1>2 DEF AccGood
  <1> QED
    BY <1>3 DEF r

Scanned(f, entered, m) ==
    [i \in 0 .. 3 |-> IF i = 0 THEN entered
                      ELSE CollectSignals(f[i - 1], m, ObjectTypes[i])]

\* The entry of a module
ModuleEntry(m) == [path |-> m.path, type |-> "module", level |-> Len(m.path) - 1,
                   width |-> -1]

\* The module is entered: its own entry comes first.
Entered(acc, m) == [acc EXCEPT !.entries = PushEntry(@, ModuleEntry(m)), !.visited = {}]

\* A module is scanned for nets, registers and memories, in this order.
LEMMA CollectModuleSteps ==
    ASSUME NEW acc, NEW m
    PROVE  LET nets == CollectSignals(Entered(acc, m), m, "net")
               regs == CollectSignals(nets, m, "reg")
           IN  CollectModule(acc, m) = IF acc.panics THEN acc
                                       ELSE CollectSignals(regs, m, "memory")
  <1> DEFINE entered == Entered(acc, m)
             nets == CollectSignals(entered, m, "net")
             regs == CollectSignals(nets, m, "reg")
             mems == CollectSignals(regs, m, "memory")
             g == [i \in 0 .. 3 |-> IF i = 0 THEN entered ELSE IF i = 1 THEN nets
                                    ELSE IF i = 2 THEN regs ELSE mems]
             scan == CHOOSE f : f = Scanned(f, entered, m)
  <1>1. CollectModule(acc, m) = IF acc.panics THEN acc ELSE scan[3]
    BY DEF CollectModule, Scanned, Entered, ModuleEntry
  <1>2. ObjectTypes[1] = "net" /\ ObjectTypes[2] = "reg" /\ ObjectTypes[3] = "memory"
    BY DEF ObjectTypes
  <1> HIDE DEF entered
  <1>3. g = Scanned(g, entered, m)
    <2>1. /\ DOMAIN g = 0 .. 3 /\ g = [i \in 0 .. 3 |-> g[i]]
          /\ g[0] = entered /\ g[1] = nets /\ g[2] = regs /\ g[3] = mems
      OBVIOUS
    <2>2. /\ g[1] = CollectSignals(g[0], m, ObjectTypes[1])
          /\ g[2] = CollectSignals(g[1], m, ObjectTypes[2])
          /\ g[3] = CollectSignals(g[2], m, ObjectTypes[3])
      BY <1>2, <2>1
    <2> HIDE DEF g
    <2>3. \A i \in 0 .. 3 : g[i] = IF i = 0 THEN entered
                                   ELSE CollectSignals(g[i - 1], m, ObjectTypes[i])
      <3> SUFFICES ASSUME NEW i \in 0 .. 3
                   PROVE  g[i] = IF i = 0 THEN entered
                                 ELSE CollectSignals(g[i - 1], m, ObjectTypes[i])
        OBVIOUS
      <3>1. i = 0 \/ i = 1 \/ i = 2 \/ i = 3
        OBVIOUS
      <3> QED
        BY <2>1, <2>2, <3>1
    <2> QED
      BY <2>1, <2>3 DEF Scanned
  <1>4. scan = Scanned(scan, entered, m)
    BY <1>3
  <1> HIDE DEF g, scan
  <1>5. /\ scan[0] = entered
        /\ scan[1] = CollectSignals(scan[0], m, ObjectTypes[1])
        /\ scan[2] = CollectSignals(scan[1], m, ObjectTypes[2])
        /\ scan[3] = CollectSignals(scan[2], m, ObjectTypes[3])
    BY <1>4 DEF Scanned
  <1>6. scan[3] = mems
    BY <1>2, <1>5
  <1> QED
    BY <1>1, <1>6 DEF entered

\* Visiting a module keeps the caches right.
LEMMA CollectModuleGood ==
    ASSUME NEW acc, NEW fs, AccGood(acc, fs), NEW m, IsModule(m), loaded \in Waves
    PROVE  AccGood(CollectModule(acc, m), fs)
  <1> DEFINE nets == CollectSignals(Entered(acc, m), m, "net")
             regs == CollectSignals(nets, m, "reg")
             mems == CollectSignals(regs, m, "memory")
  <1>1. AccGood(Entered(acc, m), fs)
    BY DEF AccGood, Entered
  <1>2. AccGood(nets, fs)
    BY <1>1, CollectSignalsGood
  <1> HIDE DEF nets
  <1>3. AccGood(regs, fs)
    BY <1>2, CollectSignalsGood
  <1> HIDE DEF regs
  <1>4. AccGood(mems, fs)
    BY <1>3, CollectSignalsGood
  <1> HIDE DEF mems
  <1>5. CollectModule(acc, m) = IF acc.panics THEN acc ELSE mems
    BY CollectModuleSteps DEF mems, regs, nets
  <1> QED
    BY <1>4, <1>5

\* The walk over the modules, in the same way
Walked(f, ms, N) ==
    [i \in 0 .. N |->
       IF i = 0
       THEN [cache |-> cache, entries |-> {}, visited |-> {}, panics |-> FALSE]
       ELSE CollectModule(f[i - 1], ms[i])]

\* The walk over the modules is well defined.
LEMMA WalkedExists ==
    ASSUME NEW ms, NEW N \in Nat
    PROVE  \E f : f = Walked(f, ms, N)
  <1> DEFINE c == [cache |-> cache, entries |-> {}, visited |-> {}, panics |-> FALSE]
             S == {k \in Nat : \E f : f = Walked(f, ms, k)}
  <1>0. \A f, k : Walked(f, ms, k) =
          [i \in 0 .. k |-> IF i = 0 THEN c ELSE CollectModule(f[i - 1], ms[i])]
    BY DEF Walked
  <1> HIDE DEF c
  <1>1. 0 \in S
    <2> DEFINE f == [i \in 0 .. 0 |-> c]
    <2>1. f = Walked(f, ms, 0)
      BY <1>0
    <2> QED
      BY <2>1
  <1>2. ASSUME NEW k \in 1 .. N, k - 1 \in S
        PROVE  k \in S
    <2>1. PICK f : f = Walked(f, ms, k - 1)
      BY <1>2
    <2> DEFINE g == [i \in 0 .. k |->
                       IF i = k THEN CollectModule(f[k - 1], ms[k]) ELSE f[i]]
    <2>2. \A i \in 0 .. k :
            g[i] = IF i = 0 THEN c ELSE CollectModule(g[i - 1], ms[i])
      <3> SUFFICES ASSUME NEW i \in 0 .. k
                   PROVE  g[i] = IF i = 0 THEN c ELSE CollectModule(g[i - 1], ms[i])
        OBVIOUS
      <3>0. f = [j \in 0 .. k - 1 |->
                   IF j = 0 THEN c ELSE CollectModule(f[j - 1], ms[j])]
        BY <1>0, <2>1
      <3>1. CASE i = 0
        BY <3>1, <3>0
      <3>2. CASE i = k
        <4>1. g[k - 1] = f[k - 1]
          OBVIOUS
        <4> QED
          BY <3>2, <4>1
      <3>3. CASE i # 0 /\ i # k
        <4>1. i \in 0 .. k - 1 /\ i - 1 \in 0 .. k - 1
          BY <3>3
        <4>2. g[i - 1] = f[i - 1] /\ g[i] = f[i]
          BY <4>1, <3>3
        <4>3. f[i] = CollectModule(f[i - 1], ms[i])
          BY <3>0, <4>1, <3>3
        <4> QED
          BY <4>2, <4>3, <3>3
      <3> QED
        BY <3>1, <3>2, <3>3
    <2>3. DOMAIN g = 0 .. k
      OBVIOUS
    <2>4. g = [i \in DOMAIN g |-> g[i]]
      OBVIOUS
    <2> HIDE DEF g
    <2>5. g = [i \in 0 .. k |-> IF i = 0 THEN c ELSE CollectModule(g[i - 1], ms[i])]
      BY <2>2, <2>3, <2>4
    <2>6. g = Walked(g, ms, k)
      BY <1>0, <2>5
    <2> QED
      BY <2>6
  <1> HIDE DEF S
  <1>3. N \in S
    BY <1>1, <1>2, UpTo
  <1> QED
    BY <1>3 DEF S

VarsOf(m) == {m.vars[j] : j \in DOMAIN m.vars}

\* What HierarchyAssumption and WaveAssumption say of a module of wave w
IsScope(w, m) ==
    /\ IsModule(m)
    /\ IsList(m.path) /\ m.path # <<>>
    /\ \A v \in VarsOf(m) :
         /\ v.name \in DOMAIN Contents[w].refs
         /\ v.kind \in {"net", "reg", "memory"}
         /\ IsList(v.name) /\ Len(v.name) = Len(m.path) + 1
         /\ SubSeq(v.name, 1, Len(m.path)) = m.path

\* What is assumed of the modules of one wave.
LEMMA ScopeFacts ==
    ASSUME NEW w \in Waves
    PROVE  /\ Len(Visited(w)) \in Nat /\ DOMAIN Visited(w) = 1 .. Len(Visited(w))
           /\ \A i \in 1 .. Len(Visited(w)) : IsScope(w, Visited(w)[i])
           /\ \A i \in 1 .. Len(Visited(w)) :
                \A k \in 1 .. Len(Visited(w)[i].path) :
                  \E j \in 1 .. Len(Visited(w)) :
                    Visited(w)[j].path = SubSeq(Visited(w)[i].path, 1, k)
  <1> DEFINE ms == Contents[w].modules
             Listed(path) == \E i \in DOMAIN ms : ms[i].path = path /\ ms[i].listed
             I == {i \in DOMAIN ms : \A k \in 1 .. Len(ms[i].path) :
                     Listed(SubSeq(ms[i].path, 1, k))}
             v == AtIndices(ms, I)
             N == Cardinality(I)
  <1>1. Len(ms) \in Nat /\ DOMAIN ms = 1 .. Len(ms)
    BY WaveFacts, ListDomain
  <1>2. \A i \in DOMAIN ms : IsScope(w, ms[i])
    <2> SUFFICES ASSUME NEW i \in DOMAIN ms
                 PROVE  IsScope(w, ms[i])
      OBVIOUS
    <2>1. IsModule(ms[i])
      BY WaveFacts DEF IsModule
    <2>2. /\ IsList(ms[i].path) /\ ms[i].path # <<>>
          /\ \A j \in DOMAIN ms[i].vars :
               LET x == ms[i].vars[j]
               IN  /\ x.kind \in {"net", "reg", "memory"}
                   /\ IsList(x.name) /\ Len(x.name) = Len(ms[i].path) + 1
                   /\ SubSeq(x.name, 1, Len(ms[i].path)) = ms[i].path
      BY HierarchyAssumption
    <2>3. \A j \in DOMAIN ms[i].vars : ms[i].vars[j].name \in DOMAIN Contents[w].refs
      BY WaveAssumption
    <2> QED
      BY <2>1, <2>2, <2>3 DEF IsScope, VarsOf
  <1>3. Visited(w) = v
    BY DEF Visited
  <1>4. I \in SUBSET (1 .. Len(ms))
    BY <1>1
  <1>5. ASSUME NEW i \in I, NEW k \in 1 .. Len(ms[i].path)
        PROVE  \E j \in I : ms[j].path = SubSeq(ms[i].path, 1, k)
    <2> DEFINE p == ms[i].path
               q == SubSeq(p, 1, k)
    <2>1. p \in Seq({p[l] : l \in DOMAIN p})
      BY <1>2 DEF IsScope, IsList
    <2>2. PICK j \in DOMAIN ms : ms[j].path = q
      OBVIOUS
    <2>3. ASSUME NEW l \in 1 .. Len(q)
          PROVE  Listed(SubSeq(q, 1, l))
      <3> DEFINE R == {p[x] : x \in DOMAIN p}
      <3>0. p \in Seq(R) /\ k \in 1 .. Len(p) /\ Len(p) \in Nat
        BY <2>1
      <3> HIDE DEF p, R
      <3>1. Len(q) = k /\ l \in 1 .. k
        BY <3>0
      <3>2. SubSeq(q, 1, l) = SubSeq(p, 1, l) /\ l \in 1 .. Len(p)
        BY <3>0, <3>1
      <3> QED
        BY <3>2 DEF p
    <2>4. \A l \in 1 .. Len(ms[j].path) : Listed(SubSeq(ms[j].path, 1, l))
      BY <2>2, <2>3
    <2> QED
      BY <2>2, <2>4
  <1> HIDE DEF I, ms
  <1>6. /\ N \in Nat /\ DOMAIN v = 1 .. N
        /\ \A i \in 1 .. N : \E j \in I : v[i] = ms[j]
        /\ \A j \in I : \E i \in 1 .. N : v[i] = ms[j]
    BY <1>1, <1>4, AtIndicesFacts
  <1>7. v = [i \in 1 .. N |-> v[i]]
    BY <1>6 DEF AtIndices
  <1> HIDE DEF v, N
  <1>8. Len(v) = N
    BY <1>6, <1>7
  <1>9. ASSUME NEW i \in 1 .. N, NEW k \in 1 .. Len(v[i].path)
        PROVE  \E j \in 1 .. N : v[j].path = SubSeq(v[i].path, 1, k)
    <2>1. PICK a \in I : v[i] = ms[a]
      BY <1>6
    <2>2. PICK b \in I : ms[b].path = SubSeq(ms[a].path, 1, k)
      BY <1>5, <2>1
    <2>3. PICK j \in 1 .. N : v[j] = ms[b]
      BY <1>6
    <2> QED
      BY <2>1, <2>2, <2>3
  <1>10. \A i \in 1 .. N : IsScope(w, v[i])
    BY <1>1, <1>2, <1>4, <1>6
  <1> QED
    BY <1>3, <1>6, <1>8, <1>9, <1>10

\* The walk visits modules of the wave.
LEMMA VisitedModules ==
    ASSUME NEW w \in Waves
    PROVE  /\ Len(Visited(w)) \in Nat
           /\ \A i \in 1 .. Len(Visited(w)) : IsModule(Visited(w)[i])
  BY ScopeFacts DEF IsScope

\* The walk over the hierarchy keeps the caches right.
LEMMA CollectGood ==
    ASSUME NEW fs, CacheGood(cache, loaded, fs), loaded \in Waves
    PROVE  CacheGood(collect_hierarchy_entries.cache, loaded, fs)
  <1> DEFINE ms == Visited(loaded)
             N == Len(ms)
             walk == CHOOSE f : f = Walked(f, ms, N)
             S == {i \in 0 .. N : AccGood(walk[i], fs)}
  <1>0. N \in Nat /\ \A i \in 1 .. N : IsModule(ms[i])
    BY VisitedModules
  <1>1. collect_hierarchy_entries = walk[N]
    BY DEF collect_hierarchy_entries, Walked
  <1> HIDE DEF ms
  <1>2. walk = Walked(walk, ms, N)
    <2>1. \E f : f = Walked(f, ms, N)
      <3> HIDE DEF N
      <3> QED
        BY <1>0, WalkedExists
    <2> QED
      BY <2>1
  <1> HIDE DEF walk, N
  <1>3. 0 \in S
    <2>1. walk[0] = [cache |-> cache, entries |-> {}, visited |-> {}, panics |-> FALSE]
      BY <1>0, <1>2 DEF Walked
    <2>2. AccGood(walk[0], fs)
      BY <2>1 DEF AccGood
    <2> QED
      BY <1>0, <2>2
  <1>4. \A i \in 1 .. N : i - 1 \in S => i \in S
    <2> SUFFICES ASSUME NEW i \in 1 .. N, i - 1 \in S
                 PROVE  i \in S
      OBVIOUS
    <2>1. walk[i] = CollectModule(walk[i - 1], ms[i])
      <3>1. i \in 0 .. N /\ i # 0
        BY <1>0
      <3> HIDE DEF S
      <3> QED
        BY <3>1, <1>2 DEF Walked
    <2>2. AccGood(walk[i - 1], fs)
      OBVIOUS
    <2>3. AccGood(walk[i], fs)
      BY <1>0, <2>1, <2>2, CollectModuleGood
    <2> QED
      BY <1>0, <2>3
  <1>5. N \in 0 .. N
    BY <1>0
  <1>6. N \in S
    <2> HIDE DEF S
    <2> QED
      BY <1>0, <1>3, <1>4, <1>5, UpTo
  <1> QED
    BY <1>1, <1>6 DEF AccGood

\* The caches that wellen_finalize saves are right.
LEMMA FinalizedGood ==
    ASSUME NEW c, NEW w, NEW fs, CacheGood(c, w, fs)
    PROVE  CacheGood(Finalized(c), w, fs)
  <1> DEFINE d == Finalized(c)
  <1>0. DOMAIN (<<>>) = {}
    OBVIOUS
  <1>1. d = [sigref |-> c.sigref, null |-> c.null, signals |-> c.signals,
             names |-> <<>>, newly |-> c.newly]
    BY DEF CacheGood, CacheTyped, IsCache, Finalized
  <1> HIDE DEF d
  <1>2. /\ d.sigref = c.sigref /\ d.null = c.null /\ d.signals = c.signals
        /\ d.names = <<>> /\ d.newly = c.newly
    BY <1>1
  <1>3. IsCache(d)
    BY <1>1, <1>2 DEF IsCache
  <1>4. CacheTyped(d)
    BY <1>0, <1>2, <1>3 DEF CacheGood, CacheTyped, PartialFcn
  <1>5. CacheGood(d, w, fs)
    BY <1>2, <1>4 DEF CacheGood, OfWave
  <1> QED
    BY <1>5 DEF d

\* There are no caches at the start.
LEMMA CacheInvInit == Init => CacheInv
  <1> SUFFICES ASSUME Init
               PROVE  CacheInv
    OBVIOUS
  <1>0. WaveInit /\ closing = "no" /\ hdl_cache = {} /\ process = "running"
    BY DEF Init, EnvInit
  <1>1. SessionInv
    BY <1>0 DEF SessionInv, WaveInit
  <1>2. CacheGood(cache, loaded, faults)
    BY <1>0, NoCacheGood DEF WaveInit
  <1>3. ~ meta.readable /\ ~ bin.readable /\ phase = "down"
    BY <1>0 DEF WaveInit, NoMeta, NoBin
  <1> QED
    BY <1>1, <1>2, <1>3 DEF CacheInv, MetaInv, BinInv, SavingInv

\* The files stay as they are, unless a fault has separated them.
LEMMA FilesKept ==
    ASSUME MetaInv, BinInv, UNCHANGED <<meta, bin>>, faults \subseteq faults',
           phase' # "saving" => phase # "saving" \/ "files" \in faults'
    PROVE  MetaInv' /\ BinInv'
  <1>1. MetaInv'
    BY DEF MetaInv
  <1>2. BinInv'
    BY DEF BinInv
  <1> QED
    BY <1>1, <1>2

\* Steps of the environment, and the next process
LEMMA SameWave ==
    ASSUME CacheInv, UNCHANGED <<waveVars, hdl_cache, host>>,
           closing' \in {"no", "wellen", "done"},
           phase \in {"saving", "saved"} => closing' # "no",
           phase = "saving" => closing' = closing,
           process' \in {"exited", "left", "killed"} => phase = "down"
    PROVE  CacheInv'
  <1>0. UNCHANGED <<wave, meta, bin, phase, loaded, hierarchy_only, modified, cache,
                    faults>>
    BY DEF waveVars
  <1>1. SessionInv'
    BY <1>0 DEF CacheInv, SessionInv
  <1>2. CacheGood(cache, loaded, faults)'
    BY <1>0 DEF CacheInv
  <1>3. MetaInv' /\ BinInv'
    BY <1>0, FilesKept DEF CacheInv
  <1>4. SavingInv'
    BY <1>0 DEF CacheInv, SavingInv, NewMeta
  <1> QED
    BY <1>1, <1>2, <1>3, <1>4 DEF CacheInv

\* Lookups and queries
LEMMA LookupStep ==
    ASSUME CacheInv, phase \in {"up", "saved"},
           UNCHANGED <<wave, meta, bin, phase, loaded, hierarchy_only, modified,
                       faults, host, closing>>,
           CacheGood(cache', loaded, faults), hdl_cache' \subseteq Names,
           process' \in {"running", "aborting"}, host = "wave"
    PROVE  CacheInv'
  <1>1. SessionInv'
    BY DEF CacheInv, SessionInv
  <1>2. CacheGood(cache, loaded, faults)'
    OBVIOUS
  <1>3. MetaInv' /\ BinInv'
    BY FilesKept DEF CacheInv
  <1>4. SavingInv'
    BY DEF SavingInv
  <1> QED
    BY <1>1, <1>2, <1>3, <1>4 DEF CacheInv

\* A lookup by name.
LEMMA FindInv ==
    ASSUME CacheInv, NEW n \in Names, Find(n)
    PROVE  CacheInv'
  <1>1. /\ phase \in {"up", "saved"} /\ host = "wave"
        /\ UNCHANGED <<wave, meta, bin, phase, loaded, hierarchy_only, modified,
                       faults, host, closing>>
        /\ cache' = IF SourcePanics(cache, n) THEN cache ELSE handle_by_name(cache, n)
        /\ process' \in {"running", "aborting"}
        /\ hdl_cache' \subseteq hdl_cache \cup {n}
    BY DEF Find, Lookup, LuaRuns
  <1>2. loaded \in Waves /\ hdl_cache \subseteq Names
        /\ CacheGood(cache, loaded, faults)
    BY DEF CacheInv, SessionInv
  <1>3. CacheGood(cache', loaded, faults)
    BY <1>1, <1>2, HandleByNameGood
  <1> QED
    BY <1>1, <1>2, <1>3, LookupStep

\* A query of the hierarchy.
LEMMA QueryInv ==
    ASSUME CacheInv, Query
    PROVE  CacheInv'
  <1>1. /\ host = "wave" /\ process = "running"
        /\ UNCHANGED <<hdl_cache, host, closing>>
    BY DEF Query, LuaRuns
  <1>2. CASE (\E id \in Identities : LoadHierarchy(id)) /\ UNCHANGED process
    <2>1. UNCHANGED waveVars
      BY <1>2 DEF LoadHierarchy
    <2> QED
      BY <1>1, <1>2, <2>1, SameWave DEF CacheInv, SessionInv
  <1>3. CASE \E id \in Identities :
               /\ CollectHierarchy(id)
               /\ process' = IF CollectPanics(id) THEN "aborting" ELSE process
    <2>1. /\ phase \in {"up", "saved"}
          /\ UNCHANGED <<wave, meta, bin, phase, loaded, hierarchy_only, modified,
                         faults>>
          /\ cache' = collect_hierarchy_entries.cache
          /\ process' \in {"running", "aborting"}
      BY <1>1, <1>3 DEF CollectHierarchy, Up
    <2>2. loaded \in Waves /\ hdl_cache \subseteq Names
          /\ CacheGood(cache, loaded, faults)
      BY DEF CacheInv, SessionInv
    <2>3. CacheGood(cache', loaded, faults)
      BY <2>1, <2>2, CollectGood
    <2> QED
      BY <1>1, <1>3, <2>1, <2>2, <2>3, LookupStep
  <1> QED
    BY <1>2, <1>3 DEF Query

\* wellen_initialize: the wave is read.
LEMMA OpenInv ==
    ASSUME CacheInv, NEW only \in BOOLEAN, Open(only)
    PROVE  CacheInv'
  <1>1. /\ phase = "down" /\ phase' \in {"up", "opened"} /\ loaded' = wave
        /\ hierarchy_only' = only /\ cache' = NoCache
        /\ UNCHANGED <<wave, meta, bin, modified, faults, hdl_cache, host, closing,
                       process>>
        /\ host = "wave" /\ process = "running" /\ closing = "no"
    BY DEF Open, ReadWave, InWave, envVars
  <1>2. SessionInv'
    BY <1>1 DEF CacheInv, SessionInv
  <1>3. CacheGood(cache, loaded, faults)'
    BY <1>1, NoCacheGood
  <1>4. MetaInv' /\ BinInv'
    BY <1>1, FilesKept DEF CacheInv
  <1>5. SavingInv'
    BY <1>1 DEF SavingInv
  <1> QED
    BY <1>2, <1>3, <1>4, <1>5 DEF CacheInv

\* The cached data are used if the stamp is that of the file on disk.  Without
\* faults this is the wave in memory.
LEMMA StatInv ==
    ASSUME CacheInv, Stat
    PROVE  CacheInv'
  <1>1. /\ phase = "opened" /\ phase' = "up" /\ modified' = wave
        /\ faults' = IF wave = loaded THEN faults ELSE faults \cup {"race"}
        /\ UNCHANGED <<wave, meta, bin, loaded, hierarchy_only, hdl_cache, host,
                       closing, process>>
        /\ host = "wave" /\ process = "running" /\ closing = "no"
    BY DEF Stat, LoadCaches, InWave, envVars
  <1>2. SessionInv'
    BY <1>1 DEF CacheInv, SessionInv
  <1>3. CacheGood(cache', loaded, faults')
    <2>1. CASE ~ UseCachedData
      <3>1. cache' = NoCache
        BY <2>1 DEF Stat, LoadCaches
      <3> QED
        BY <3>1, NoCacheGood
    <2>2. CASE UseCachedData
      <3> DEFINE s == IF bin.readable THEN bin.signals ELSE <<>>
      <3>1. cache' = [NoCache EXCEPT !.sigref = meta.sigref, !.null = meta.null,
                                     !.signals = s]
        BY <2>2 DEF Stat, LoadCaches
      <3>2. cache' = [sigref |-> meta.sigref, null |-> meta.null, signals |-> s,
                      names |-> <<>>, newly |-> FALSE]
        BY <3>1 DEF NoCache
      <3> HIDE DEF s
      <3>3. /\ cache'.sigref = meta.sigref /\ cache'.null = meta.null
            /\ cache'.signals = s /\ cache'.names = <<>> /\ cache'.newly = FALSE
        BY <3>2
      <3>4. meta.readable /\ meta.modified = Stamp(wave)
        BY <2>2 DEF UseCachedData
      <3>5. DOMAIN (<<>>) = {}
        OBVIOUS
      <3>6. CacheTyped(cache')
        <4>1. IsCache(cache')
          BY <3>2, <3>3 DEF IsCache
        <4>2. PartialFcn(s, References, Waves)
          BY <3>5 DEF s, CacheInv, BinInv, PartialFcn
        <4>3. PartialFcn(<<>>, References, Names)
          BY <3>5 DEF PartialFcn
        <4>4. PartialFcn(meta.sigref, Names, References) /\ meta.null \subseteq Names
          BY <3>4 DEF CacheInv, MetaInv
        <4> QED
          BY <3>3, <4>1, <4>2, <4>3, <4>4 DEF CacheTyped
      <3>7. ASSUME StampsDiffer, faults' = {}
            PROVE  OfWave(cache', loaded)
        <4>1. wave = loaded /\ faults = {} /\ wave \in Waves
          BY <1>1, <3>7 DEF CacheInv, SessionInv
        <4>2. PICK w \in Waves : meta.modified = Stamp(w)
                                 /\ RefsOf(meta.sigref, meta.null, w)
          BY <3>4, <3>7, <4>1 DEF CacheInv, MetaInv
        <4>3. w = wave
          BY <3>4, <3>7, <4>1, <4>2 DEF StampsDiffer
        <4>4. \A r \in DOMAIN s : s[r] = wave
          <5> SUFFICES ASSUME NEW r \in DOMAIN s
                       PROVE  s[r] = wave
            OBVIOUS
          <5>1. bin.readable /\ s = bin.signals
            BY <3>5 DEF s
          <5>2. Stamp(s[r]) = Stamp(wave)
            BY <1>1, <3>4, <3>7, <4>1, <5>1 DEF CacheInv, BinInv
          <5>3. s[r] \in Waves
            BY <5>1 DEF CacheInv, BinInv, PartialFcn
          <5> QED
            BY <3>7, <4>1, <5>2, <5>3 DEF StampsDiffer
        <4> QED
          BY <3>3, <4>1, <4>2, <4>3, <4>4 DEF OfWave
      <3>8. ASSUME "files" \notin faults'
            PROVE  Complete(cache'.sigref, cache'.signals)
        <4>1. "files" \notin faults
          BY <1>1, <3>8
        <4>2. bin.readable /\ Complete(meta.sigref, bin.signals)
          BY <1>1, <3>4, <4>1 DEF CacheInv, BinInv
        <4> QED
          BY <3>3, <4>2 DEF s
      <3> QED
        BY <3>6, <3>7, <3>8 DEF CacheGood
    <2> QED
      BY <2>1, <2>2
  <1>4. CacheGood(cache, loaded, faults)'
    BY <1>1, <1>3
  <1>5. MetaInv' /\ BinInv'
    BY <1>1, FilesKept DEF CacheInv
  <1>6. SavingInv'
    BY <1>1 DEF SavingInv
  <1> QED
    BY <1>2, <1>4, <1>5, <1>6 DEF CacheInv

\* The end of the simulation: saving begins.
LEMMA EndOfSimulationInv ==
    ASSUME CacheInv, EndOfSimulation
    PROVE  CacheInv'
  <1>1. /\ phase = "up" /\ closing = "no" /\ closing' = "wellen" /\ host = "wave"
        /\ UNCHANGED <<wave, bin, loaded, hierarchy_only, modified, faults,
                       hdl_cache, host, process>>
        /\ process \in {"running", "aborting"}
        /\ \/ phase' = "saved" /\ cache' = Finalized(cache) /\ meta' = meta
           \/ phase' = "saving" /\ cache' = cache /\ meta' = NewMeta
    BY DEF EndOfSimulation, Ends, FinalizeUnsaved, SaveMeta, envVars
  <1>2. SessionInv'
    BY <1>1 DEF CacheInv, SessionInv
  <1>3. CASE phase' = "saved" /\ cache' = Finalized(cache) /\ meta' = meta
    <2>1. CacheGood(cache, loaded, faults)'
      BY <1>1, <1>3, FinalizedGood DEF CacheInv
    <2>2. MetaInv' /\ BinInv'
      BY <1>1, <1>3, FilesKept DEF CacheInv
    <2>3. SavingInv'
      BY <1>3 DEF SavingInv
    <2> QED
      BY <1>2, <2>1, <2>2, <2>3 DEF CacheInv
  <1>4. CASE phase' = "saving" /\ cache' = cache /\ meta' = NewMeta
    <2>1. CacheGood(cache, loaded, faults)'
      BY <1>1, <1>4 DEF CacheInv
    <2>2. /\ meta'.sigref = cache.sigref /\ meta'.null = cache.null
          /\ meta'.modified = Stamp(modified)
      BY <1>4 DEF NewMeta
    <2>3. MetaInv'
      <3>1. PartialFcn(cache.sigref, Names, References) /\ cache.null \subseteq Names
            /\ modified \in Waves /\ ("race" \notin faults => modified = loaded)
        BY DEF CacheInv, CacheGood, CacheTyped, SessionInv
      <3>2. StampsDiffer /\ faults = {} => RefsOf(cache.sigref, cache.null, modified)
        BY <3>1 DEF CacheInv, CacheGood, OfWave
      <3> QED
        BY <1>1, <2>2, <3>1, <3>2 DEF MetaInv
    <2>4. BinInv'
      BY <1>1, <1>4 DEF CacheInv, BinInv
    <2>5. SavingInv'
      BY <1>1, <1>4 DEF SavingInv, NewMeta
    <2> QED
      BY <1>2, <2>1, <2>3, <2>4, <2>5 DEF CacheInv
  <1> QED
    BY <1>1, <1>3, <1>4

\* Saving ends.
LEMMA WellenFinalizeEndsInv ==
    ASSUME CacheInv, WellenFinalizeEnds
    PROVE  CacheInv'
  <1>1. /\ phase = "saving" /\ phase' = "saved" /\ closing = "wellen"
        /\ bin' = [readable |-> TRUE, signals |-> cache.signals]
        /\ cache' = Finalized(cache)
        /\ UNCHANGED <<wave, meta, loaded, hierarchy_only, modified, faults,
                       hdl_cache, host, process, closing>>
    BY DEF WellenFinalizeEnds, SaveSignals, envVars
  <1>2. SessionInv'
    BY <1>1 DEF CacheInv, SessionInv
  <1>3. CacheGood(cache, loaded, faults)'
    BY <1>1, FinalizedGood DEF CacheInv
  <1>4. bin'.readable /\ bin'.signals = cache.signals
    BY <1>1
  <1>5. meta.sigref = cache.sigref /\ meta.modified = Stamp(modified)
    BY <1>1 DEF CacheInv, SavingInv, NewMeta
  <1>6. MetaInv'
    BY <1>1 DEF CacheInv, MetaInv
  <1>7. BinInv'
    <2>1. PartialFcn(cache.signals, References, Waves)
      BY DEF CacheInv, CacheGood, CacheTyped
    <2>2. "files" \notin faults => Complete(meta.sigref, cache.signals)
      BY <1>5 DEF CacheInv, CacheGood
    <2>3. StampsDiffer /\ faults = {} =>
            \A r \in DOMAIN cache.signals : Stamp(cache.signals[r]) = meta.modified
      BY <1>5 DEF CacheInv, CacheGood, OfWave, SessionInv
    <2> QED
      BY <1>1, <1>4, <2>1, <2>2, <2>3 DEF BinInv
  <1>8. SavingInv'
    BY <1>1 DEF SavingInv
  <1> QED
    BY <1>2, <1>3, <1>6, <1>7, <1>8 DEF CacheInv

\* A save that is cut short leaves no meta file, or a fault.
LEMMA CutShortInv ==
    ASSUME CacheInv, SaveCutShort
    PROVE  /\ faults \subseteq faults' /\ faults' \subseteq {"files", "race"}
           /\ "race" \notin faults' => "race" \notin faults
           /\ phase \in {"up", "saving"}
           /\ \/ phase = "up" /\ ~ meta'.readable /\ bin' = bin /\ faults' = faults
              \/ /\ phase = "saving" /\ meta' = meta /\ "files" \in faults'
                 /\ bin' = bin \/ ~ bin'.readable
  <1>0. faults \subseteq {"files", "race"}
    BY DEF CacheInv, SessionInv
  <1>1. CASE phase = "up" /\ Saves /\ meta' = NoMeta /\ UNCHANGED <<bin, faults>>
    BY <1>0, <1>1 DEF NoMeta
  <1>2. CASE /\ phase = "saving" /\ bin' \in {bin, NoBin}
             /\ faults' = faults \cup {"files"} /\ UNCHANGED meta
    <2>1. bin' = bin \/ ~ bin'.readable
      BY <1>2 DEF NoBin
    <2> QED
      BY <1>0, <1>2, <2>1
  <1> QED
    BY <1>1, <1>2 DEF SaveCutShort

\* A save that is cut short leaves files that the invariant allows.
LEMMA CutShortFiles ==
    ASSUME CacheInv, SaveCutShort
    PROVE  MetaInv' /\ BinInv'
  <1>1. CASE phase = "up" /\ ~ meta'.readable /\ bin' = bin /\ faults' = faults
    BY <1>1 DEF CacheInv, MetaInv, BinInv
  <1>2. CASE /\ phase = "saving" /\ meta' = meta /\ "files" \in faults'
             /\ bin' = bin \/ ~ bin'.readable
    <2>1. faults' # {}
      BY <1>2
    <2> QED
      BY <1>2, <2>1 DEF CacheInv, MetaInv, BinInv
  <1> QED
    BY <1>1, <1>2, CutShortInv

\* The process is gone.
LEMMA GoneInv ==
    ASSUME CacheInv, Gone, host = "wave", MetaInv', BinInv',
           faults' \subseteq {"files", "race"}
    PROVE  CacheInv'
  <1>1. /\ phase' = "down" /\ cache' = NoCache /\ loaded' = wave /\ modified' = wave
        /\ hierarchy_only' = FALSE /\ wave' = wave /\ hdl_cache' = {}
        /\ host' = host /\ closing' = closing
    BY DEF Gone, WaveExit
  <1>2. SessionInv'
    BY <1>1 DEF CacheInv, SessionInv
  <1>3. CacheGood(cache, loaded, faults)'
    BY <1>1, NoCacheGood
  <1>4. SavingInv'
    BY <1>1 DEF SavingInv
  <1> QED
    BY <1>2, <1>3, <1>4 DEF CacheInv

\* A process exits, is interrupted or is killed.
LEMMA ExitKillInv ==
    ASSUME CacheInv, Exit \/ Interrupt \/ Kill
    PROVE  CacheInv'
  <1>0. Gone /\ host = "wave" /\ phase' = "down"
    BY DEF Exit, Interrupt, Kill, Gone, WaveExit
  <1>1. CASE NoSave /\ (phase # "saving" \/ "files" \in faults)
    <2>1. MetaInv' /\ BinInv' /\ faults' \subseteq {"files", "race"}
      BY <1>0, <1>1, FilesKept DEF NoSave, CacheInv, SessionInv
    <2> QED
      BY <1>0, <2>1, GoneInv
  <1>2. CASE SaveCutShort
    BY <1>0, <1>2, CutShortInv, CutShortFiles, GoneInv
  <1>3. \/ NoSave /\ (phase # "saving" \/ "files" \in faults)
        \/ SaveCutShort
    BY DEF Exit, Interrupt, Kill, SaveUntouched, SaveBreaksOff, CacheInv, SavingInv
  <1> QED
    BY <1>1, <1>2, <1>3

\* A file cannot be written.
LEMMA SaveFailsInv ==
    ASSUME CacheInv, SaveFails
    PROVE  CacheInv'
  <1>0. SaveCutShort
    BY DEF SaveFails
  <1>1. MetaInv' /\ BinInv'
    BY <1>0, CutShortFiles
  <1>2. /\ faults \subseteq faults' /\ faults' \subseteq {"files", "race"}
        /\ phase \in {"up", "saving"} /\ (phase = "saving" => meta' = meta /\ "files" \in faults')
    BY <1>0, CutShortInv
  <1>3. CASE process = "running"
    <2>1. /\ process' = "aborting" /\ closing' = "done"
          /\ UNCHANGED <<wave, phase, loaded, hierarchy_only, modified, cache,
                         hdl_cache, host>>
      BY <1>3 DEF SaveFails
    <2>2. SessionInv'
      BY <1>2, <2>1 DEF CacheInv, SessionInv
    <2>3. CacheGood(cache, loaded, faults)'
      BY <1>2, <2>1 DEF CacheInv, CacheGood
    <2>4. SavingInv'
      BY <1>2, <2>1 DEF CacheInv, SavingInv, NewMeta
    <2> QED
      BY <1>1, <2>2, <2>3, <2>4 DEF CacheInv
  <1>4. CASE process # "running"
    <2>1. Gone
      BY <1>4 DEF SaveFails
    <2>2. host = "wave"
      BY <1>2 DEF CacheInv, SessionInv, SaveFails, Ends
    <2> QED
      BY <1>1, <1>2, <2>1, <2>2, GoneInv
  <1> QED
    BY <1>3, <1>4

\* A cache file is deleted.
LEMMA LoseFileInv ==
    ASSUME CacheInv, LoseFile
    PROVE  CacheInv'
  <1>1. /\ phase = "down" /\ ~ bin'.readable /\ faults' = faults \cup {"files"}
        /\ UNCHANGED <<wave, meta, phase, loaded, hierarchy_only, modified, cache,
                       hdl_cache, host, closing, process>>
    BY DEF LoseFile, LoseSignalFile, NoBin, envVars
  <1>2. SessionInv'
    BY <1>1 DEF CacheInv, SessionInv
  <1>3. "files" \in faults' /\ faults' # {}
    BY <1>1
  <1>4. CacheGood(cache, loaded, faults)'
    BY <1>1, <1>3 DEF CacheInv, CacheGood
  <1>5. MetaInv' /\ BinInv'
    BY <1>1, <1>3 DEF CacheInv, MetaInv, BinInv
  <1>6. SavingInv'
    BY <1>1 DEF SavingInv
  <1> QED
    BY <1>2, <1>4, <1>5, <1>6 DEF CacheInv

\* The wave is dumped anew.
LEMMA DumpInv ==
    ASSUME CacheInv, NEW w \in Waves, Dump(w)
    PROVE  CacheInv'
  <1>1. /\ wave' = w
        /\ IF phase = "down" THEN loaded' = w /\ modified' = w
                             ELSE UNCHANGED <<loaded, modified>>
        /\ UNCHANGED <<meta, bin, phase, hierarchy_only, cache, faults,
                       hdl_cache, host, closing, process>>
    BY DEF Dump, NextWave, envVars
  <1>2. SessionInv'
    BY <1>1 DEF CacheInv, SessionInv
  <1>3. MetaInv' /\ BinInv'
    BY <1>1, FilesKept DEF CacheInv
  <1>4. CASE phase = "down"
    <2>1. cache' = NoCache
      BY <1>1, <1>4 DEF CacheInv, SessionInv
    <2> QED
      BY <1>1, <1>2, <1>3, <1>4, <2>1, NoCacheGood DEF CacheInv, SavingInv
  <1>5. CASE phase # "down"
    <2>1. CacheGood(cache, loaded, faults)'
      BY <1>1, <1>5 DEF CacheInv
    <2>2. SavingInv'
      BY <1>1, <1>5 DEF CacheInv, SavingInv, NewMeta
    <2> QED
      BY <1>2, <1>3, <2>1, <2>2 DEF CacheInv
  <1> QED
    BY <1>4, <1>5

\* Every step preserves the invariant of the caches.
LEMMA CacheStep ==
    ASSUME CacheInv, [Next]_vars
    PROVE  CacheInv'
  <1>1. CASE \/ \E only \in BOOLEAN : Open(only)
             \/ Stat \/ \E n \in Names : Find(n)
             \/ Query \/ EndOfSimulation \/ WellenFinalizeEnds \/ Exit \/ SaveFails
             \/ Interrupt \/ Kill \/ LoseFile \/ \E w \in Waves : Dump(w)
    BY <1>1, OpenInv, StatInv, FindInv, QueryInv, EndOfSimulationInv,
       WellenFinalizeEndsInv, ExitKillInv, SaveFailsInv, LoseFileInv, DumpInv
  <1>2. CASE Startup \/ \E ok \in BOOLEAN : StartOfSimulation(ok)
    <2>1. /\ UNCHANGED <<waveVars, hdl_cache, host, closing>>
          /\ process' \in {"running", "aborting"}
      BY <1>2 DEF Startup, StartOfSimulation, Bootstrap, StartCallback, InWave
    <2> QED
      BY <2>1, SameWave DEF CacheInv, SessionInv
  <1>3. CASE \E ok \in BOOLEAN : EndCallback(ok)
    <2>1. /\ UNCHANGED <<waveVars, hdl_cache, host>> /\ closing' = "done"
          /\ phase = "saved" /\ process' \in {"running", "aborting"}
      BY <1>3 DEF EndCallback, FinalCallback, Finalize
    <2> QED
      BY <2>1, SameWave
  <1>4. CASE \/ \E ok, init_ok \in BOOLEAN, f \in Steps :
                  \/ Embed(verilua_init(init_ok))
                  \/ Embed(Step(f, init_ok, ok))
                  \/ Embed(StepSafe(f, init_ok, ok))
                  \/ Embed(StepAfterError(f, ok))
                  \/ Embed(verilua_final(init_ok, ok))
                  \/ Embed(process = "running" /\ FinalCallback(ok))
             \/ Embed(TaskFails) \/ Embed(EmbedExit)
    <2>1. UNCHANGED <<waveVars, hdl_cache, host, closing>> /\ host \in {"embed", "vcs"}
      BY <1>4 DEF Embed
    <2>2. phase = "down" /\ closing \in {"no", "wellen", "done"}
      BY <2>1 DEF CacheInv, SessionInv
    <2> QED
      BY <2>1, <2>2, SameWave
  <1>5. CASE NextProcess
    <2>1. /\ UNCHANGED <<waveVars, hdl_cache, host>> /\ closing' = "no"
          /\ process' = "running" /\ process \in {"exited", "left", "killed"}
      BY <1>5 DEF NextProcess
    <2>2. phase = "down"
      BY <2>1 DEF CacheInv, SessionInv
    <2> QED
      BY <2>1, <2>2, SameWave
  <1>6. CASE UNCHANGED vars
    <2>1. UNCHANGED <<waveVars, hdl_cache, host, closing, process>>
      BY <1>6 DEF vars, envVars
    <2> QED
      BY <2>1, SameWave DEF CacheInv, SessionInv
  <1>7. CASE Fail \/ \E n \in Names, t \in 1 .. MaxTime : ReadFails(n, t)
    <2>1. /\ UNCHANGED <<waveVars, hdl_cache, host, closing>>
          /\ process' \in {"running", "aborting"}
      BY <1>7 DEF Fail, ReadFails, TaskFails, Finalize
    <2> QED
      BY <2>1, SameWave DEF CacheInv, SessionInv
  <1> QED
    BY <1>1, <1>2, <1>3, <1>4, <1>5, <1>6, <1>7 DEF Next

\* It holds in every reachable state.
LEMMA CacheInvariant == Spec => []CacheInv
  <1>1. CacheInv /\ [Next]_vars => CacheInv'
    BY CacheStep
  <1> QED
    BY <1>1, CacheInvInit, PTL DEF Spec

\* Waves, files, caches and the environment have their types in every process,
\* and the saving phases belong to endOfSimulation.
THEOREM WaveTypes == Spec => []TypeOK
  <1>1. CacheInv /\ EnvInv => TypeOK
    BY DEF CacheInv, SessionInv, CacheGood, CacheTyped, EnvInv, TypeOK, WaveTypeOK
  <1> QED
    BY <1>1, CacheInvariant, EnvInvariant, PTL

\* Caches that a process finds, builds and uses describe the wave it plays, for
\* all waves that their stamps tell apart, if no save was cut short and the wave
\* was not dumped anew while it was being read.
THEOREM WaveCacheFresh ==
    ASSUME StampsDiffer
    PROVE  Spec => []CacheFresh
  <1>1. CacheInv => CacheFresh
    BY DEF CacheInv, CacheGood, CacheFresh, OfWave, RefsOf, CacheOfWave
  <1> QED
    BY <1>1, CacheInvariant, PTL

\* The unwrap() on the signal of a handle does not panic as long as the two files
\* belong together: every reference in the caches has its signal, also after a
\* lookup, a walk over the hierarchy, a save and the load in the next process.
THEOREM WaveHandlesLoaded == Spec => []HandlesLoaded
  <1>1. CacheInv => HandlesLoaded
    BY DEF CacheInv, CacheGood, HandlesLoaded, Complete, SignalsLoaded
  <1> QED
    BY <1>1, CacheInvariant, PTL

----------------------------------------------------------------------------
(* The design hierarchy                                                    *)

NamesOf(m) == {v.name : v \in VarsOf(m)}
ModulesOf(w) == {Visited(w)[i] : i \in 1 .. Len(Visited(w))}

IsEntry(e) ==
    /\ e = [path |-> e.path, type |-> e.type, level |-> e.level, width |-> e.width]
    /\ e.level = Len(e.path) - 1

Paths(E) == {e.path : e \in E}

\* The entry of a variable
VarEntry(w, m, v) ==
    [path |-> v.name, type |-> SigType(v.kind), level |-> Len(m.path),
     width |-> Len(Contents[w].signals[Contents[w].refs[v.name]][1].bits)]

AllEntries(w) == {ModuleEntry(m) : m \in ModulesOf(w)}
                 \cup UNION {{VarEntry(w, m, v) : v \in VarsOf(m)} : m \in ModulesOf(w)}

\* No path of a wave is that of a module and of a variable, or of variables of
\* two kinds: push_hierarchy_entry makes one entry of them.
PathsDiffer ==
    \A w \in Waves : \A m, k \in ModulesOf(w) : \A v \in VarsOf(m) :
      /\ v.name # k.path
      /\ \A u \in VarsOf(k) : v.name = u.name => v.kind = u.kind

\* A signal of a module is listed under one of the names that the module has for it.
VarDone(w, E, m, v) ==
    \E u \in VarsOf(m) : /\ u.kind = v.kind
                         /\ Contents[w].refs[u.name] = Contents[w].refs[v.name]
                         /\ VarEntry(w, m, u) \in E

ModuleDone(w, E, m) ==
    ModuleEntry(m) \in E /\ \A v \in VarsOf(m) : VarDone(w, E, m, v)

EntriesExact(w, E) ==
    E \subseteq AllEntries(w) /\ \A m \in ModulesOf(w) : ModuleDone(w, E, m)

\* Entries hang below entries, up to a root.
Rooted(E) ==
    \A e \in E : /\ IsEntry(e) /\ IsList(e.path) /\ e.path # <<>>
                 /\ Len(e.path) > 1 =>
                      SubSeq(e.path, 1, Len(e.path) - 1) \in Paths(E)

\* A new entry is added, and an old one keeps its path.
LEMMA PushEntryFacts ==
    ASSUME NEW E, \A x \in E : IsEntry(x), NEW e, IsEntry(e)
    PROVE  /\ \A x \in PushEntry(E, e) : IsEntry(x)
           /\ Paths(PushEntry(E, e)) = Paths(E) \cup {e.path}
  <1>1. CASE \A x \in E : x.path # e.path
    BY <1>1 DEF PushEntry, Paths
  <1>2. CASE ~ (\A x \in E : x.path # e.path) /\ e.type # "reg"
    BY <1>2 DEF PushEntry, Paths
  <1>3. CASE ~ (\A x \in E : x.path # e.path) /\ e.type = "reg"
    <2> DEFINE g(x) == IF x.path = e.path THEN [x EXCEPT !.type = "reg"] ELSE x
    <2>1. \A x \in E : IsEntry(g(x)) /\ g(x).path = x.path
      <3> SUFFICES ASSUME NEW x \in E
                   PROVE  IsEntry(g(x)) /\ g(x).path = x.path
        OBVIOUS
      <3>1. x = [path |-> x.path, type |-> x.type, level |-> x.level, width |-> x.width]
            /\ x.level = Len(x.path) - 1
        BY DEF IsEntry
      <3>2. [x EXCEPT !.type = "reg"]
              = [path |-> x.path, type |-> "reg", level |-> x.level, width |-> x.width]
        BY <3>1
      <3> QED
        BY <3>1, <3>2 DEF IsEntry
    <2>2. PushEntry(E, e) = {g(x) : x \in E}
      BY <1>3 DEF PushEntry
    <2>3. e.path \in Paths(E)
      BY <1>3 DEF Paths
    <2> HIDE DEF g
    <2>4. Paths({g(x) : x \in E}) = Paths(E)
      BY <2>1 DEF Paths
    <2> QED
      BY <2>1, <2>2, <2>3, <2>4
  <1> QED
    BY <1>1, <1>2, <1>3

\* The modules are such scopes.
LEMMA ModuleScope ==
    ASSUME NEW w \in Waves, NEW m \in ModulesOf(w)
    PROVE  IsScope(w, m)
  BY ScopeFacts DEF ModulesOf

\* Entries of a wave with one path are one entry.
LEMMA EntryUnique ==
    ASSUME PathsDiffer, NEW w \in Waves, NEW x \in AllEntries(w), NEW y \in AllEntries(w),
           x.path = y.path
    PROVE  x = y
  <1>0. \A m \in ModulesOf(w) : IsScope(w, m)
    BY ModuleScope
  <1>1. ASSUME NEW m \in ModulesOf(w), NEW k \in ModulesOf(w), NEW v \in VarsOf(m),
               NEW u \in VarsOf(k), v.name = u.name
        PROVE  VarEntry(w, m, v) = VarEntry(w, k, u)
    <2>1. v.kind = u.kind
      BY <1>1 DEF PathsDiffer
    <2>2. Len(v.name) = Len(m.path) + 1 /\ Len(u.name) = Len(k.path) + 1
      BY <1>0 DEF IsScope
    <2>3. Len(m.path) \in Nat /\ Len(k.path) \in Nat
      BY <1>0, ListDomain DEF IsScope
    <2>4. Len(m.path) = Len(k.path)
      BY <1>1, <2>2, <2>3
    <2> QED
      BY <1>1, <2>1, <2>4 DEF VarEntry
  <1>2. ASSUME NEW m \in ModulesOf(w), NEW k \in ModulesOf(w), NEW v \in VarsOf(m)
        PROVE  ModuleEntry(k).path # VarEntry(w, m, v).path
    BY DEF PathsDiffer, ModuleEntry, VarEntry
  <1>3. \A m \in ModulesOf(w) : ModuleEntry(m).path = m.path
    BY DEF ModuleEntry
  <1>4. \A m \in ModulesOf(w) : \A v \in VarsOf(m) : VarEntry(w, m, v).path = v.name
    BY DEF VarEntry
  <1>5. CASE \E m \in ModulesOf(w) : x = ModuleEntry(m)
    <2>1. \E k \in ModulesOf(w) : y = ModuleEntry(k)
      BY <1>2, <1>5 DEF AllEntries
    <2> QED
      BY <1>3, <1>5, <2>1 DEF ModuleEntry
  <1>6. CASE \E m \in ModulesOf(w) : \E v \in VarsOf(m) : x = VarEntry(w, m, v)
    <2>1. \E k \in ModulesOf(w) : \E u \in VarsOf(k) : y = VarEntry(w, k, u)
      BY <1>2, <1>6 DEF AllEntries
    <2> QED
      BY <1>1, <1>4, <1>6, <2>1
  <1> QED
    BY <1>5, <1>6 DEF AllEntries

\* Then push_hierarchy_entry only adds.
LEMMA PushEntryExact ==
    ASSUME PathsDiffer, NEW w \in Waves, NEW E \in SUBSET AllEntries(w),
           NEW e \in AllEntries(w)
    PROVE  PushEntry(E, e) = E \cup {e}
  <1>1. CASE \A x \in E : x.path # e.path
    BY <1>1 DEF PushEntry
  <1>2. CASE \E x \in E : x.path = e.path
    <2>1. \A x \in E : x.path = e.path => x = e
      BY EntryUnique
    <2>2. e \in E
      BY <1>2, <2>1
    <2>3. CASE e.type # "reg"
      BY <1>2, <2>2, <2>3 DEF PushEntry
    <2>4. CASE e.type = "reg"
      <3> DEFINE g(x) == IF x.path = e.path THEN [x EXCEPT !.type = "reg"] ELSE x
      <3>1. PushEntry(E, e) = {g(x) : x \in E}
        BY <1>2, <2>4 DEF PushEntry
      <3>2. [e EXCEPT !.type = "reg"] = e
        <4>1. (\E m : e = ModuleEntry(m)) \/ (\E m, v : e = VarEntry(w, m, v))
          BY DEF AllEntries
        <4>2. \E p, t, l, d : e = [path |-> p, type |-> t, level |-> l, width |-> d]
          BY <4>1 DEF ModuleEntry, VarEntry
        <4> QED
          BY <2>4, <4>2
      <3>3. \A x \in E : g(x) = x
        BY <2>1, <3>2
      <3> HIDE DEF g
      <3>4. {g(x) : x \in E} = E
        BY <3>3
      <3> QED
        BY <2>2, <3>1, <3>4
    <2> QED
      BY <2>3, <2>4
  <1> QED
    BY <1>1, <1>2

\* The references of the first i names have been opened last under one of them.
Named(c, names, i) ==
    \A j \in 1 .. i : names[j] \in DOMAIN c.sigref =>
      /\ c.sigref[names[j]] \in DOMAIN c.names
      /\ \E k \in 1 .. i : /\ c.names[c.sigref[names[j]]] = names[k]
                           /\ names[k] \in DOMAIN c.sigref
                           /\ c.sigref[names[k]] = c.sigref[names[j]]

\* The caches after a lookup, field by field.
LEMMA HandleFields ==
    ASSUME NEW c, IsCache(c), NEW n
    PROVE  LET d == handle_by_name(c, n)
           IN  \/ /\ n \in DOMAIN c.sigref /\ d.sigref = c.sigref
                  /\ d.names = Put(c.names, c.sigref[n], n)
               \/ /\ n \notin DOMAIN c.sigref
                  /\ n \in c.null \/ n \notin DOMAIN Contents[loaded].refs
                  /\ d.sigref = c.sigref /\ d.names = c.names
               \/ /\ n \notin DOMAIN c.sigref
                  /\ \E r : d.sigref = Put(c.sigref, n, r) /\ d.names = Put(c.names, r, n)
  <1> DEFINE a == c.sigref  b == c.null  s == c.signals  m == c.names  w == c.newly
             d == handle_by_name(c, n)
             r == Contents[loaded].refs[n]
  <1>1. c = [sigref |-> a, null |-> b, signals |-> s, names |-> m, newly |-> w]
    BY DEF IsCache
  <1>2. CASE n \in DOMAIN a
    <2>1. d = [c EXCEPT !.names = Put(@, c.sigref[n], n)]
      BY <1>2 DEF handle_by_name
    <2> DEFINE p == Put(m, a[n], n)
    <2>2. d = [c EXCEPT !.names = p]
      BY <2>1
    <2> HIDE DEF a, b, s, m, w, d, p
    <2>3. d.sigref = a /\ d.names = p
      BY <1>1, <2>2
    <2> QED
      BY <1>2, <2>3 DEF a, m, d, p
  <1>3. CASE n \notin DOMAIN a /\ n \in b
    <2>1. d = c
      BY <1>3 DEF handle_by_name
    <2> QED
      BY <1>3, <2>1
  <1>4. CASE n \notin DOMAIN a /\ n \notin b /\ n \notin DOMAIN Contents[loaded].refs
    <2>1. d = [c EXCEPT !.null = @ \cup {n}, !.newly = TRUE]
      BY <1>4 DEF handle_by_name
    <2> HIDE DEF a, b, s, m, w, d
    <2>2. d.sigref = a /\ d.names = m
      BY <1>1, <2>1
    <2> QED
      BY <1>4, <2>2 DEF a, m, d
  <1>5. CASE n \notin DOMAIN a /\ n \notin b /\ n \in DOMAIN Contents[loaded].refs
    <2>1. d = [c EXCEPT !.signals = Put(@, r, loaded), !.names = Put(@, r, n),
                        !.sigref = Put(@, n, r), !.newly = TRUE]
      BY <1>5 DEF handle_by_name
    <2> DEFINE p == Put(m, r, n)
               q == Put(a, n, r)
               o == Put(s, r, loaded)
    <2>2. d = [c EXCEPT !.signals = o, !.names = p, !.sigref = q, !.newly = TRUE]
      BY <2>1
    <2> HIDE DEF a, b, s, m, w, d, r, p, q, o
    <2>3. d.sigref = q /\ d.names = p
      BY <1>1, <2>2
    <2>4. \E x : d.sigref = Put(a, n, x) /\ d.names = Put(m, x, n)
      BY <2>3 DEF p, q
    <2> QED
      BY <1>5, <2>4 DEF a, m, d
  <1> QED
    BY <1>2, <1>3, <1>4, <1>5

\* A lookup names the reference it returns.
LEMMA NamedStep ==
    ASSUME NEW c, IsCache(c), NEW names, NEW i \in Nat, i # 0, Named(c, names, i - 1)
    PROVE  Named(handle_by_name(c, names[i]), names, i)
  <1> DEFINE n == names[i]
             d == handle_by_name(c, n)
  <1>0. \A j \in 1 .. i : j \in 1 .. i - 1 \/ j = i
    OBVIOUS
  <1>00. i \in 1 .. i /\ \A j \in 1 .. i - 1 : j \in 1 .. i
    OBVIOUS
  <1>1. CASE n \in DOMAIN c.sigref /\ d.sigref = c.sigref
             /\ d.names = Put(c.names, c.sigref[n], n)
    <2> HIDE DEF d
    <2>0. /\ c.sigref[n] \in DOMAIN d.names /\ d.names[c.sigref[n]] = n
          /\ \A x \in DOMAIN c.names : x # c.sigref[n] =>
               x \in DOMAIN d.names /\ d.names[x] = c.names[x]
      <3> DEFINE p == Put(c.names, c.sigref[n], n)
      <3>1. /\ DOMAIN p = DOMAIN c.names \cup {c.sigref[n]} /\ p[c.sigref[n]] = n
            /\ \A x \in DOMAIN c.names : x # c.sigref[n] => p[x] = c.names[x]
        BY DEF Put
      <3>2. d.names = p
        BY <1>1
      <3> HIDE DEF p
      <3> QED
        BY <3>1, <3>2
    <2>1. ASSUME NEW j \in 1 .. i, names[j] \in DOMAIN d.sigref
          PROVE  /\ d.sigref[names[j]] \in DOMAIN d.names
                 /\ \E k \in 1 .. i : /\ d.names[d.sigref[names[j]]] = names[k]
                                      /\ names[k] \in DOMAIN d.sigref
                                      /\ d.sigref[names[k]] = d.sigref[names[j]]
      <3> DEFINE r == c.sigref[names[j]]
      <3>1. CASE r = c.sigref[n]
        <4>1. d.sigref[names[j]] = r /\ d.names[r] = n /\ r \in DOMAIN d.names
          BY <1>1, <2>0, <3>1
        <4> QED
          BY <1>00, <1>1, <3>1, <4>1
      <3>2. CASE r # c.sigref[n]
        <4>1. j \in 1 .. i - 1
          BY <1>0, <3>2
        <4>2. PICK k \in 1 .. i - 1 : /\ c.names[r] = names[k]
                                      /\ names[k] \in DOMAIN c.sigref
                                      /\ c.sigref[names[k]] = r
          BY <1>1, <2>1, <4>1 DEF Named
        <4>3. r \in DOMAIN c.names
          BY <1>1, <2>1, <4>1 DEF Named
        <4>4. r \in DOMAIN d.names /\ d.names[r] = c.names[r]
          BY <2>0, <3>2, <4>3
        <4> QED
          BY <1>00, <1>1, <4>2, <4>4
      <3> QED
        BY <3>1, <3>2
    <2> QED
      BY <2>1 DEF Named, d
  <1>2. CASE n \notin DOMAIN c.sigref /\ d.sigref = c.sigref /\ d.names = c.names
    <2> HIDE DEF d
    <2>1. Named(d, names, i)
      BY <1>0, <1>00, <1>2 DEF Named
    <2> QED
      BY <2>1 DEF d
  <1>3. ASSUME NEW r, n \notin DOMAIN c.sigref, d.sigref = Put(c.sigref, n, r),
               d.names = Put(c.names, r, n)
        PROVE  Named(d, names, i)
    <2> HIDE DEF d
    <2>0. /\ DOMAIN d.sigref = DOMAIN c.sigref \cup {n} /\ d.sigref[n] = r
          /\ \A x \in DOMAIN c.sigref : x # n => d.sigref[x] = c.sigref[x]
          /\ DOMAIN d.names = DOMAIN c.names \cup {r} /\ d.names[r] = n
          /\ \A x \in DOMAIN c.names : x # r => d.names[x] = c.names[x]
      <3> DEFINE p == Put(c.sigref, n, r)
                 q == Put(c.names, r, n)
      <3>1. /\ DOMAIN p = DOMAIN c.sigref \cup {n} /\ p[n] = r
            /\ \A x \in DOMAIN c.sigref : x # n => p[x] = c.sigref[x]
        BY DEF Put
      <3>2. /\ DOMAIN q = DOMAIN c.names \cup {r} /\ q[r] = n
            /\ \A x \in DOMAIN c.names : x # r => q[x] = c.names[x]
        BY DEF Put
      <3>3. d.sigref = p /\ d.names = q
        BY <1>3
      <3> HIDE DEF p, q
      <3> QED
        BY <3>1, <3>2, <3>3
    <2>1. ASSUME NEW j \in 1 .. i, names[j] \in DOMAIN d.sigref
          PROVE  /\ d.sigref[names[j]] \in DOMAIN d.names
                 /\ \E k \in 1 .. i : /\ d.names[d.sigref[names[j]]] = names[k]
                                      /\ names[k] \in DOMAIN d.sigref
                                      /\ d.sigref[names[k]] = d.sigref[names[j]]
      <3> DEFINE q == d.sigref[names[j]]
      <3>1. CASE q = r
        BY <1>00, <2>0, <3>1
      <3>2. CASE q # r
        <4>1. names[j] # n /\ names[j] \in DOMAIN c.sigref /\ q = c.sigref[names[j]]
          BY <2>0, <2>1, <3>2
        <4>2. j \in 1 .. i - 1
          BY <1>0, <4>1
        <4>3. PICK k \in 1 .. i - 1 : /\ c.names[q] = names[k]
                                      /\ names[k] \in DOMAIN c.sigref
                                      /\ c.sigref[names[k]] = q
          BY <4>1, <4>2 DEF Named
        <4>4. q \in DOMAIN c.names
          BY <4>1, <4>2 DEF Named
        <4>5. d.names[q] = names[k] /\ q \in DOMAIN d.names
          BY <2>0, <3>2, <4>3, <4>4
        <4>6. names[k] \in DOMAIN d.sigref /\ d.sigref[names[k]] = q
          BY <1>3, <2>0, <4>3
        <4> QED
          BY <1>00, <4>5, <4>6
      <3> QED
        BY <3>1, <3>2
    <2> QED
      BY <2>1 DEF Named
  <1> HIDE DEF d
  <1>4. Named(d, names, i)
    <2>1. \/ n \in DOMAIN c.sigref /\ d.sigref = c.sigref
             /\ d.names = Put(c.names, c.sigref[n], n)
          \/ n \notin DOMAIN c.sigref /\ d.sigref = c.sigref /\ d.names = c.names
          \/ /\ n \notin DOMAIN c.sigref
             /\ \E r : d.sigref = Put(c.sigref, n, r) /\ d.names = Put(c.names, r, n)
      BY HandleFields DEF d
    <2> QED
      BY <1>1, <1>2, <1>3, <2>1 DEF d
  <1> QED
    BY <1>4 DEF d

\* Names that were found stay in the caches, and names of the wave are found.
LEMMA FoundStep ==
    ASSUME NEW c, NEW fs, CacheGood(c, loaded, fs), NEW n
    PROVE  /\ DOMAIN c.sigref \subseteq DOMAIN handle_by_name(c, n).sigref
           /\ StampsDiffer /\ fs = {} /\ n \in DOMAIN Contents[loaded].refs =>
                n \in DOMAIN handle_by_name(c, n).sigref
  <1> DEFINE d == handle_by_name(c, n)
  <1>1. IsCache(c)
    BY DEF CacheGood, CacheTyped
  <1>2. ASSUME StampsDiffer, fs = {}, n \in DOMAIN Contents[loaded].refs
        PROVE  n \notin c.null
    BY <1>2 DEF CacheGood, OfWave, RefsOf
  <1>3. \A r : DOMAIN Put(c.sigref, n, r) = DOMAIN c.sigref \cup {n}
    BY PutFacts
  <1>4. \/ n \in DOMAIN c.sigref /\ d.sigref = c.sigref
        \/ /\ n \in c.null \/ n \notin DOMAIN Contents[loaded].refs
           /\ d.sigref = c.sigref
        \/ \E r : d.sigref = Put(c.sigref, n, r)
    BY <1>1, HandleFields
  <1> HIDE DEF d
  <1>5. /\ DOMAIN c.sigref \subseteq DOMAIN d.sigref
        /\ StampsDiffer /\ fs = {} /\ n \in DOMAIN Contents[loaded].refs =>
             n \in DOMAIN d.sigref
    BY <1>2, <1>3, <1>4
  <1> QED
    BY <1>5 DEF d

\* The caches when all names have been opened: each reference is named by one of
\* them, and all names of the wave have been found.
LEMMA OpenAllNames ==
    ASSUME NEW c, loaded \in Waves, NEW fs, CacheGood(c, loaded, fs),
           NEW names \in Seq(Names)
    PROVE  LET d == OpenAll(c, names)
           IN  /\ Named(d, names, Len(names))
               /\ StampsDiffer /\ fs = {} =>
                    \A j \in 1 .. Len(names) :
                      names[j] \in DOMAIN Contents[loaded].refs => names[j] \in DOMAIN d.sigref
  <1> DEFINE N == Len(names)
             opened == CHOOSE f : f = Opened(f, c, names, N)
             Found(d, i) == StampsDiffer /\ fs = {} =>
               \A j \in 1 .. i :
                 names[j] \in DOMAIN Contents[loaded].refs => names[j] \in DOMAIN d.sigref
             S == {i \in 0 .. N : /\ CacheGood(opened[i], loaded, fs)
                                  /\ Named(opened[i], names, i) /\ Found(opened[i], i)}
  <1>0. N \in Nat /\ \A i \in 1 .. N : names[i] \in Names
    OBVIOUS
  <1>1. OpenAll(c, names) = opened[N]
    BY DEF OpenAll, Opened
  <1>2. opened = Opened(opened, c, names, N)
    <2>1. \E f : f = Opened(f, c, names, N)
      <3> HIDE DEF N
      <3> QED
        BY <1>0, OpenedExists
    <2> QED
      BY <2>1
  <1> HIDE DEF opened, N
  <1>3. 0 \in S
    <2>1. opened[0] = c
      BY <1>0, <1>2 DEF Opened
    <2>2. Named(c, names, 0)
      BY DEF Named
    <2>3. Found(c, 0)
      OBVIOUS
    <2> HIDE DEF Found
    <2> QED
      BY <1>0, <2>1, <2>2, <2>3
  <1>4. ASSUME NEW i \in 1 .. N, i - 1 \in S
        PROVE  i \in S
    <2> DEFINE b == opened[i - 1]
               d == opened[i]
    <2>1. d = handle_by_name(b, names[i])
      BY <1>0, <1>2 DEF Opened
    <2>2. CacheGood(b, loaded, fs) /\ Named(b, names, i - 1) /\ Found(b, i - 1)
      BY <1>4
    <2> HIDE DEF b, d
    <2>3. CacheGood(d, loaded, fs)
      BY <1>0, <2>1, <2>2, HandleByNameGood
    <2>4. Named(d, names, i)
      BY <1>0, <2>1, <2>2, NamedStep DEF CacheGood, CacheTyped
    <2>5. Found(d, i)
      <3> SUFFICES ASSUME StampsDiffer, fs = {}, NEW j \in 1 .. i,
                          names[j] \in DOMAIN Contents[loaded].refs
                   PROVE  names[j] \in DOMAIN d.sigref
        OBVIOUS
      <3>1. DOMAIN b.sigref \subseteq DOMAIN d.sigref
        BY <2>1, <2>2, FoundStep
      <3>2. CASE j = i
        BY <2>1, <2>2, <3>2, FoundStep
      <3>3. CASE j # i
        <4>1. j \in 1 .. i - 1
          BY <1>0, <3>3
        <4> QED
          BY <2>2, <3>1, <4>1
      <3> QED
        BY <3>2, <3>3
    <2> HIDE DEF Found
    <2> QED
      BY <1>0, <2>3, <2>4, <2>5 DEF d
  <1>5. N \in 0 .. N
    BY <1>0
  <1>6. N \in S
    <2> HIDE DEF S
    <2> QED
      BY <1>0, <1>3, <1>4, <1>5, UpTo
  <1>7. Named(opened[N], names, N) /\ Found(opened[N], N)
    <2> HIDE DEF Found
    <2> QED
      BY <1>6
  <1> QED
    BY <1>1, <1>7 DEF N

\* The scan of the opened signals
Pushed(f, E, V, c, m, kind, names, N) ==
    [i \in 0 .. N |-> IF i = 0 THEN E
                      ELSE LET e == SignalEntry(c, m, kind, names[i])
                           IN  IF e.path \in V THEN f[i - 1]
                               ELSE PushEntry(f[i - 1], e)]

\* The scan is well defined.
LEMMA PushedExists ==
    ASSUME NEW E, NEW V, NEW c, NEW m, NEW kind, NEW names, NEW N \in Nat
    PROVE  LET pushed == CHOOSE f : f = Pushed(f, E, V, c, m, kind, names, N)
           IN  pushed = Pushed(pushed, E, V, c, m, kind, names, N)
  <1> DEFINE entry(i) == SignalEntry(c, m, kind, names[i])
             Pushing(es, i) == IF entry(i).path \in V THEN es ELSE PushEntry(es, entry(i))
             Unfold(f, k) == [i \in 0 .. k |-> IF i = 0 THEN E ELSE Pushing(f[i - 1], i)]
             S == {k \in Nat : \E f : f = Unfold(f, k)}
  <1>0. \A f : Pushed(f, E, V, c, m, kind, names, N) = Unfold(f, N)
    BY DEF Pushed
  <1> HIDE DEF Pushing
  <1>1. 0 \in S
    <2> DEFINE f == [i \in 0 .. 0 |-> E]
    <2>1. f = Unfold(f, 0)
      OBVIOUS
    <2> QED
      BY <2>1
  <1>2. ASSUME NEW k \in 1 .. N, k - 1 \in S
        PROVE  k \in S
    <2>1. PICK f : f = Unfold(f, k - 1)
      BY <1>2
    <2> DEFINE g == [i \in 0 .. k |-> IF i = k THEN Pushing(f[k - 1], k) ELSE f[i]]
    <2>2. \A i \in 0 .. k : g[i] = IF i = 0 THEN E ELSE Pushing(g[i - 1], i)
      <3> SUFFICES ASSUME NEW i \in 0 .. k
                   PROVE  g[i] = IF i = 0 THEN E ELSE Pushing(g[i - 1], i)
        OBVIOUS
      <3>1. CASE i = 0
        BY <3>1, <2>1
      <3>2. CASE i = k
        <4>1. g[k - 1] = f[k - 1]
          OBVIOUS
        <4> QED
          BY <3>2, <4>1
      <3>3. CASE i # 0 /\ i # k
        <4>1. i \in 0 .. k - 1 /\ i - 1 \in 0 .. k - 1
          BY <3>3
        <4>2. g[i - 1] = f[i - 1] /\ g[i] = f[i]
          BY <4>1, <3>3
        <4>3. f[i] = Pushing(f[i - 1], i)
          BY <2>1, <4>1, <3>3
        <4> QED
          BY <4>2, <4>3, <3>3
      <3> QED
        BY <3>1, <3>2, <3>3
    <2>3. g = [i \in 0 .. k |-> g[i]]
      OBVIOUS
    <2> HIDE DEF g
    <2>4. g = Unfold(g, k)
      BY <2>2, <2>3
    <2> QED
      BY <2>4
  <1> HIDE DEF S
  <1>3. N \in S
    BY <1>1, <1>2, UpTo
  <1> QED
    BY <1>0, <1>3 DEF S

\* The entries of a scan have their places in the module; if no path is that of two
\* things, all of them are added.
LEMMA PushSignalsFacts ==
    ASSUME loaded \in Waves, NEW m, IsScope(loaded, m), NEW E, \A x \in E : IsEntry(x), NEW V,
           NEW c, NEW kind, NEW names, Len(names) \in Nat,
           \A i \in 1 .. Len(names) : SignalName(c, c.sigref[names[i]]) \in NamesOf(m)
    PROVE  LET r == PushSignals(E, V, c, m, kind, names)
               new == {SignalEntry(c, m, kind, names[i]) : i \in 1 .. Len(names)}
           IN  /\ \A x \in r : IsEntry(x)
               /\ Paths(E) \subseteq Paths(r)
               /\ Paths(r) \subseteq Paths(E) \cup NamesOf(m)
               /\ PathsDiffer /\ E \subseteq AllEntries(loaded)
                    /\ new \subseteq AllEntries(loaded)
                    /\ (\A e \in new : e.path \notin V)
                  => r = E \cup new
  <1> DEFINE N == Len(names)
             entry(i) == SignalEntry(c, m, kind, names[i])
             new == {entry(i) : i \in 1 .. N}
             first(i) == {entry(j) : j \in 1 .. i}
             Exact == /\ PathsDiffer /\ E \subseteq AllEntries(loaded)
                      /\ new \subseteq AllEntries(loaded)
                      /\ \A e \in new : e.path \notin V
             pushed == CHOOSE f : f = Pushed(f, E, V, c, m, kind, names, N)
             Good(r, i) == /\ \A x \in r : IsEntry(x)
                           /\ Paths(E) \subseteq Paths(r)
                           /\ Paths(r) \subseteq Paths(E) \cup NamesOf(m)
                           /\ Exact => r = E \cup first(i)
             S == {i \in 0 .. N : Good(pushed[i], i)}
  <1>0. N \in Nat
    OBVIOUS
  <1>1. PushSignals(E, V, c, m, kind, names) = pushed[N]
    BY DEF PushSignals, Pushed
  <1>2. pushed = Pushed(pushed, E, V, c, m, kind, names, N)
    <2> HIDE DEF N
    <2> QED
      BY <1>0, PushedExists
  <1>3. \A i \in 1 .. N : entry(i).path \in NamesOf(m) /\ IsEntry(entry(i))
    <2> TAKE i \in 1 .. N
    <2> DEFINE n == SignalName(c, c.sigref[names[i]])
    <2>1. n \in NamesOf(m)
      OBVIOUS
    <2>2. Len(n) = Len(m.path) + 1 /\ Len(m.path) \in Nat
      BY <2>1, ListDomain DEF NamesOf, IsScope
    <2> HIDE DEF n
    <2>3. Len(m.path) = Len(n) - 1
      BY <2>2
    <2>4. entry(i).path = n /\ entry(i).level = Len(m.path)
      BY DEF SignalEntry, n
    <2>5. entry(i) = [path |-> entry(i).path, type |-> entry(i).type,
                      level |-> entry(i).level, width |-> entry(i).width]
      BY DEF SignalEntry
    <2> QED
      BY <2>1, <2>3, <2>4, <2>5 DEF IsEntry
  <1>e. \A i \in 1 .. N : entry(i) \in new
    OBVIOUS
  <1>f. first(N) = new /\ first(0) = {}
    OBVIOUS
  <1>g. \A i \in 1 .. N : first(i) = first(i - 1) \cup {entry(i)}
    <2> TAKE i \in 1 .. N
    <2>1. 1 .. i = (1 .. i - 1) \cup {i}
      BY <1>0
    <2> HIDE DEF entry
    <2> QED
      BY <2>1
  <1> HIDE DEF pushed, N, entry, first, new
  <1>4. 0 \in S
    <2>1. pushed[0] = E
      BY <1>0, <1>2 DEF Pushed
    <2>2. Good(E, 0)
      BY <1>f
    <2> HIDE DEF Good
    <2> QED
      BY <1>0, <2>1, <2>2
  <1>5. ASSUME NEW i \in 1 .. N, i - 1 \in S
        PROVE  i \in S
    <2> DEFINE q == pushed[i - 1]
               r == pushed[i]
    <2>1. r = IF entry(i).path \in V THEN q ELSE PushEntry(q, entry(i))
      BY <1>0, <1>2 DEF Pushed, entry
    <2>2. Good(q, i - 1)
      BY <1>5
    <2> HIDE DEF q, r
    <2>3. \A x \in q : IsEntry(x)
      BY <2>2
    <2>4. /\ \A x \in PushEntry(q, entry(i)) : IsEntry(x)
          /\ Paths(PushEntry(q, entry(i))) = Paths(q) \cup {entry(i).path}
      BY <1>3, <2>3, PushEntryFacts
    <2>5. /\ \A x \in r : IsEntry(x)
          /\ Paths(E) \subseteq Paths(r)
          /\ Paths(r) \subseteq Paths(E) \cup NamesOf(m)
      BY <1>3, <2>1, <2>2, <2>4
    <2>6. ASSUME Exact PROVE r = E \cup first(i)
      <3>1. q = E \cup first(i - 1) /\ entry(i).path \notin V
        BY <1>e, <2>2, <2>6
      <3>2. q \in SUBSET AllEntries(loaded) /\ entry(i) \in AllEntries(loaded)
        <4>1. \A j \in 1 .. i - 1 : entry(j) \in new
          BY <1>0, <1>e
        <4>2. first(i - 1) \subseteq new
          BY <4>1 DEF first
        <4> QED
          BY <1>e, <2>6, <3>1, <4>2
      <3>3. PushEntry(q, entry(i)) = q \cup {entry(i)}
        BY <2>6, <3>2, PushEntryExact
      <3> QED
        BY <1>g, <2>1, <3>1, <3>3
    <2>7. Good(r, i)
      BY <2>5, <2>6
    <2> HIDE DEF Good
    <2> QED
      BY <1>0, <2>7 DEF r
  <1>6. N \in S
    <2>1. N \in 0 .. N
      BY <1>0
    <2> HIDE DEF S
    <2> QED
      BY <1>0, <1>4, <1>5, <2>1, UpTo
  <1>7. Good(pushed[N], N)
    <2> HIDE DEF Good
    <2> QED
      BY <1>6
  <1> QED
    BY <1>1, <1>7, <1>f DEF new, entry, N

\* r lists the elements of s that are in S.
PartOf(r, s, S) ==
    /\ Len(r) \in Nat /\ DOMAIN r = 1 .. Len(r)
    /\ \A i \in 1 .. Len(r) : \E j \in 1 .. Len(s) : r[i] = s[j] /\ s[j] \in S
    /\ \A j \in 1 .. Len(s) : s[j] \in S => \E i \in 1 .. Len(r) : r[i] = s[j]

\* The elements of s that are in S, as a list.
LEMMA RestrictedFacts ==
    ASSUME NEW s, Len(s) \in Nat, DOMAIN s = 1 .. Len(s), NEW S
    PROVE  PartOf(Restricted(s, S), s, S)
  <1> DEFINE I == {j \in DOMAIN s : s[j] \in S}
             N == Cardinality(I)
             r == AtIndices(s, I)
  <1>1. I \in SUBSET (1 .. Len(s))
    OBVIOUS
  <1>2. Restricted(s, S) = r
    BY DEF Restricted
  <1>3. \A j \in I : j \in 1 .. Len(s) /\ s[j] \in S
    OBVIOUS
  <1>4. \A j \in 1 .. Len(s) : s[j] \in S => j \in I
    OBVIOUS
  <1> HIDE DEF I
  <1>5. /\ N \in Nat /\ DOMAIN r = 1 .. N
        /\ \A i \in 1 .. N : \E j \in I : r[i] = s[j]
        /\ \A j \in I : \E i \in 1 .. N : r[i] = s[j]
    BY <1>1, AtIndicesFacts
  <1>6. r = [i \in 1 .. N |-> r[i]]
    BY <1>5 DEF AtIndices
  <1> HIDE DEF r, N
  <1>7. Len(r) = N
    BY <1>5, <1>6
  <1> QED
    BY <1>2, <1>3, <1>4, <1>5, <1>7 DEF PartOf

\* The names that vpi_iterate opens are those of the variables of one kind, one for
\* each signal.
LEMMA SignalNamesFacts ==
    ASSUME NEW m, IsScope(loaded, m), NEW kind
    PROVE  LET asked == SignalNames(m, kind)
               ref == Contents[loaded].refs
           IN  /\ Len(asked) \in Nat /\ DOMAIN asked = 1 .. Len(asked)
               /\ \A i \in 1 .. Len(asked) :
                    \E v \in VarsOf(m) : v.kind = kind /\ asked[i] = v.name
               /\ \A v \in VarsOf(m) : v.kind = kind =>
                    \E i \in 1 .. Len(asked) : \E u \in VarsOf(m) :
                      u.kind = kind /\ asked[i] = u.name /\ ref[u.name] = ref[v.name]
  <1> DEFINE ref == Contents[loaded].refs
             asked == SignalNames(m, kind)
             Same(i) == {j \in DOMAIN m.vars : /\ m.vars[j].kind = kind
                                               /\ ref[m.vars[j].name] = ref[m.vars[i].name]}
             I == {i \in DOMAIN m.vars :
                    /\ m.vars[i].kind = kind
                    /\ \A j \in 1 .. i - 1 : m.vars[j].kind = kind =>
                         ref[m.vars[j].name] # ref[m.vars[i].name]}
             first == AtIndices(m.vars, I)
             N == Cardinality(I)
  <1>1. Len(m.vars) \in Nat /\ DOMAIN m.vars = 1 .. Len(m.vars)
    BY ListDomain DEF IsScope, IsModule
  <1>2. I \in SUBSET (1 .. Len(m.vars))
    BY <1>1
  <1>3. asked = [i \in DOMAIN first |-> first[i].name]
    BY DEF SignalNames
  <1>4. \A j \in I : m.vars[j] \in VarsOf(m) /\ m.vars[j].kind = kind
    BY DEF VarsOf
  <1>5. ASSUME NEW i \in DOMAIN m.vars, m.vars[i].kind = kind
        PROVE  \E j \in I : ref[m.vars[j].name] = ref[m.vars[i].name]
    <2>1. Same(i) \in SUBSET Nat /\ i \in Same(i)
      BY <1>1, <1>5
    <2>2. PICK j \in Same(i) : \A k \in Same(i) : j <= k
      <3> HIDE DEF Same
      <3> QED
        BY <2>1, LeastNat
    <2>3. ASSUME NEW k \in 1 .. j - 1, m.vars[k].kind = kind
          PROVE  ref[m.vars[k].name] # ref[m.vars[j].name]
      <3>1. k \in DOMAIN m.vars /\ ~ (j <= k)
        BY <1>1
      <3>2. k \notin Same(i)
        BY <2>2, <3>1
      <3> QED
        BY <2>3, <3>1, <3>2
    <2>4. j \in I
      BY <2>3
    <2> QED
      BY <2>4
  <1> HIDE DEF I, asked, ref
  <1>6. /\ N \in Nat /\ DOMAIN first = 1 .. N
        /\ \A i \in 1 .. N : \E j \in I : first[i] = m.vars[j]
        /\ \A j \in I : \E i \in 1 .. N : first[i] = m.vars[j]
    BY <1>1, <1>2, AtIndicesFacts
  <1> HIDE DEF first, N
  <1>7. asked = [i \in 1 .. N |-> first[i].name] /\ Len(asked) = N
    BY <1>3, <1>6
  <1>8. \A i \in 1 .. N : \E v \in VarsOf(m) : v.kind = kind /\ asked[i] = v.name
    BY <1>4, <1>6, <1>7
  <1>9. ASSUME NEW v \in VarsOf(m), v.kind = kind
        PROVE  \E i \in 1 .. N : \E u \in VarsOf(m) :
                 u.kind = kind /\ asked[i] = u.name /\ ref[u.name] = ref[v.name]
    <2>1. PICK k \in DOMAIN m.vars : v = m.vars[k]
      BY DEF VarsOf
    <2>2. PICK j \in I : ref[m.vars[j].name] = ref[v.name]
      BY <1>5, <1>9, <2>1
    <2>3. PICK i \in 1 .. N : first[i] = m.vars[j]
      BY <1>6
    <2>4. asked[i] = m.vars[j].name
      BY <1>7, <2>3
    <2> QED
      BY <1>4, <2>2, <2>4
  <1>10. DOMAIN asked = 1 .. Len(asked)
    BY <1>6, <1>7
  <1> QED
    BY <1>6, <1>7, <1>8, <1>9, <1>10 DEF asked, ref

\* The paths that entries of a wave can have
AllPaths(w) == {m.path : m \in ModulesOf(w)} \cup UNION {NamesOf(m) : m \in ModulesOf(w)}

\* What the walk relies on to list the signals exactly
Sound(fs) == PathsDiffer /\ StampsDiffer /\ fs = {}

\* The caches, and the entries collected so far
AccOk(acc, fs) ==
    /\ acc = [cache |-> acc.cache, entries |-> acc.entries, visited |-> acc.visited,
              panics |-> acc.panics]
    /\ CacheGood(acc.cache, loaded, fs)
    /\ \A x \in acc.entries : IsEntry(x)
    /\ Paths(acc.entries) \subseteq AllPaths(loaded)
    /\ Sound(fs) => acc.entries \subseteq AllEntries(loaded)

\* The signals of one kind that were opened, names of them: their entries are those
\* of variables of the module, and every signal has one.
OpenedRight(d, names, m, kind, fs) ==
    /\ CacheGood(d, loaded, fs)
    /\ Len(names) \in Nat /\ DOMAIN names = 1 .. Len(names)
    /\ \A i \in 1 .. Len(names) : \E u \in VarsOf(m) :
         /\ u.kind = kind /\ SignalName(d, d.sigref[names[i]]) = u.name
         /\ StampsDiffer /\ fs = {} =>
              SignalEntry(d, m, kind, names[i]) = VarEntry(loaded, m, u)
    /\ StampsDiffer /\ fs = {} => \A v \in VarsOf(m) : v.kind = kind =>
         \E i \in 1 .. Len(names) : \E u \in VarsOf(m) :
           /\ u.kind = kind
           /\ Contents[loaded].refs[u.name] = Contents[loaded].refs[v.name]
           /\ SignalEntry(d, m, kind, names[i]) = VarEntry(loaded, m, u)

\* What vpi_iterate opened is right in this sense.
LEMMA OpenedEntries ==
    ASSUME loaded \in Waves, NEW m \in ModulesOf(loaded), NEW kind, NEW c, NEW fs,
           CacheGood(c, loaded, fs)
    PROVE  LET d == OpenAll(c, SignalNames(m, kind))
           IN  OpenedRight(d, Restricted(SignalNames(m, kind), DOMAIN d.sigref), m, kind, fs)
  <1> DEFINE ref == Contents[loaded].refs
             asked == SignalNames(m, kind)
             d == OpenAll(c, asked)
             names == Restricted(asked, DOMAIN d.sigref)
             Entry(i) == SignalEntry(d, m, kind, names[i])
  <1>1. IsScope(loaded, m) /\ IsModule(m)
    <2>1. IsScope(loaded, m)
      BY ModuleScope
    <2> QED
      BY <2>1 DEF IsScope
  <1>2. asked \in Seq(Names)
    BY <1>1, SignalNamesType
  <1>3. /\ CacheGood(d, loaded, fs) /\ Named(d, asked, Len(asked))
        /\ StampsDiffer /\ fs = {} =>
             \A j \in 1 .. Len(asked) : asked[j] \in DOMAIN ref => asked[j] \in DOMAIN d.sigref
    BY <1>2, OpenAllGood, OpenAllNames
  <1>4. /\ Len(asked) \in Nat /\ DOMAIN asked = 1 .. Len(asked)
        /\ \A i \in 1 .. Len(asked) : \E v \in VarsOf(m) : v.kind = kind /\ asked[i] = v.name
        /\ \A v \in VarsOf(m) : v.kind = kind =>
             \E i \in 1 .. Len(asked) : \E u \in VarsOf(m) :
               u.kind = kind /\ asked[i] = u.name /\ ref[u.name] = ref[v.name]
    BY <1>1, SignalNamesFacts
  <1> HIDE DEF asked, d, ref
  <1>5. /\ Len(names) \in Nat /\ DOMAIN names = 1 .. Len(names)
        /\ \A i \in 1 .. Len(names) :
             \E j \in 1 .. Len(asked) : names[i] = asked[j] /\ asked[j] \in DOMAIN d.sigref
        /\ \A j \in 1 .. Len(asked) : asked[j] \in DOMAIN d.sigref =>
             \E i \in 1 .. Len(names) : names[i] = asked[j]
    <2>1. PartOf(names, asked, DOMAIN d.sigref)
      BY <1>4, RestrictedFacts
    <2> HIDE DEF names
    <2> QED
      BY <2>1 DEF PartOf
  <1> HIDE DEF names
  <1>6. ASSUME NEW i \in 1 .. Len(names)
        PROVE  \E u \in VarsOf(m) :
                 /\ u.kind = kind /\ SignalName(d, d.sigref[names[i]]) = u.name
                 /\ StampsDiffer /\ fs = {} =>
                      /\ Entry(i) = VarEntry(loaded, m, u)
                      /\ ref[u.name] = ref[names[i]]
    <2>1. PICK j \in 1 .. Len(asked) : names[i] = asked[j] /\ asked[j] \in DOMAIN d.sigref
      BY <1>5
    <2> DEFINE r == d.sigref[names[i]]
    <2>2. PICK k \in 1 .. Len(asked) : /\ d.names[r] = asked[k]
                                       /\ asked[k] \in DOMAIN d.sigref
                                       /\ d.sigref[asked[k]] = r
      BY <1>3, <2>1 DEF Named
    <2>3. PICK u \in VarsOf(m) : u.kind = kind /\ asked[k] = u.name
      BY <1>4
    <2>4. SignalName(d, r) = u.name
      BY <2>2, <2>3 DEF SignalName
    <2>5. ASSUME StampsDiffer, fs = {}
          PROVE  Entry(i) = VarEntry(loaded, m, u) /\ ref[u.name] = ref[names[i]]
      <3>1. /\ \A n \in DOMAIN d.sigref : d.sigref[n] = ref[n]
            /\ \A x \in DOMAIN d.signals : d.signals[x] = loaded
            /\ \A n \in DOMAIN d.sigref : d.sigref[n] \in DOMAIN d.signals
        BY <1>3, <2>5 DEF CacheGood, OfWave, RefsOf, Complete, ref
      <3>2. r = ref[u.name] /\ r = ref[names[i]] /\ d.signals[r] = loaded
        BY <2>1, <2>2, <2>3, <3>1
      <3>3. Entry(i) = [path |-> u.name, type |-> SigType(kind), level |-> Len(m.path),
                        width |-> Len(Contents[loaded].signals[ref[u.name]][1].bits)]
        BY <2>4, <3>2 DEF SignalEntry
      <3> QED
        BY <2>3, <3>2, <3>3 DEF VarEntry, ref
    <2> QED
      BY <2>3, <2>4, <2>5
  <1>7. ASSUME StampsDiffer, fs = {}, NEW v \in VarsOf(m), v.kind = kind
        PROVE  \E i \in 1 .. Len(names) : \E u \in VarsOf(m) :
                 u.kind = kind /\ ref[u.name] = ref[v.name] /\ Entry(i) = VarEntry(loaded, m, u)
    <2>1. PICK j \in 1 .. Len(asked), u \in VarsOf(m) :
            u.kind = kind /\ asked[j] = u.name /\ ref[u.name] = ref[v.name]
      BY <1>4, <1>7
    <2>2. asked[j] \in DOMAIN ref
      BY <1>1, <2>1 DEF IsScope, ref
    <2>3. PICK i \in 1 .. Len(names) : names[i] = asked[j]
      BY <1>3, <1>5, <1>7, <2>2
    <2>4. PICK x \in VarsOf(m) : /\ x.kind = kind /\ Entry(i) = VarEntry(loaded, m, x)
                                 /\ ref[x.name] = ref[names[i]]
      BY <1>6, <1>7
    <2>5. ref[x.name] = ref[v.name]
      BY <2>1, <2>3, <2>4
    <2> QED
      BY <2>4, <2>5
  <1>8. OpenedRight(d, names, m, kind, fs)
    BY <1>3, <1>5, <1>6, <1>7 DEF OpenedRight, ref
  <1> QED
    BY <1>8 DEF names, asked, d

KindNames(m, kind) == {v.name : v \in {u \in VarsOf(m) : u.kind = kind}}

\* What the signals of one kind in module m add to acc, unless the walk panics
Collected(acc, r, m, kind, fs) ==
    /\ AccOk(r, fs)
    /\ ~ r.panics =>
         /\ ~ acc.panics
         /\ Paths(acc.entries) \subseteq Paths(r.entries)
         /\ r.visited \subseteq acc.visited \cup KindNames(m, kind)
         /\ Sound(fs) =>
              /\ acc.entries \subseteq r.entries
              /\ \A v \in VarsOf(m) : v.kind = kind => VarDone(loaded, r.entries, m, v)

\* The signals of one kind are collected.
LEMMA CollectSignalsExact ==
    ASSUME loaded \in Waves, NEW m \in ModulesOf(loaded), NEW kind, NEW acc, NEW fs,
           AccOk(acc, fs), Sound(fs) => acc.visited \cap KindNames(m, kind) = {}
    PROVE  Collected(acc, CollectSignals(acc, m, kind), m, kind, fs)
  <1> DEFINE asked == SignalNames(m, kind)
             d == OpenAll(acc.cache, asked)
             names == Restricted(asked, DOMAIN d.sigref)
             Entry(i) == SignalEntry(d, m, kind, names[i])
             new == {Entry(i) : i \in 1 .. Len(names)}
             E == acc.entries
             p == PushSignals(E, acc.visited, d, m, kind, names)
             V == acc.visited \cup {Entry(i).path : i \in DOMAIN names}
             r == CollectSignals(acc, m, kind)
             Of(i, u) == /\ u.kind = kind /\ SignalName(d, d.sigref[names[i]]) = u.name
                         /\ StampsDiffer /\ fs = {} => Entry(i) = VarEntry(loaded, m, u)
             Covers(i, v) == \E u \in VarsOf(m) :
                      /\ u.kind = kind
                      /\ Contents[loaded].refs[u.name] = Contents[loaded].refs[v.name]
                      /\ Entry(i) = VarEntry(loaded, m, u)
  <1>1. acc = [cache |-> acc.cache, entries |-> acc.entries, visited |-> acc.visited,
               panics |-> acc.panics]
    BY DEF AccOk
  <1>2. /\ CacheGood(d, loaded, fs)
        /\ Len(names) \in Nat /\ DOMAIN names = 1 .. Len(names)
        /\ \A i \in 1 .. Len(names) : \E u \in VarsOf(m) : Of(i, u)
        /\ StampsDiffer /\ fs = {} => \A v \in VarsOf(m) : v.kind = kind =>
             \E i \in 1 .. Len(names) : Covers(i, v)
    <2>1. CacheGood(acc.cache, loaded, fs)
      BY DEF AccOk
    <2>2. OpenedRight(d, names, m, kind, fs)
      <3> HIDE DEF Of, Covers
      <3> QED
        BY <2>1, OpenedEntries
    <2> HIDE DEF d, names
    <2> QED
      BY <2>2 DEF OpenedRight
  <1>3. IsScope(loaded, m)
    BY ModuleScope
  <1>4. \/ acc.panics /\ r = acc
        \/ r = [acc EXCEPT !.cache = d, !.panics = TRUE]
        \/ ~ acc.panics /\ r = [acc EXCEPT !.cache = d, !.entries = p, !.visited = V]
    BY DEF CollectSignals
  <1>5. \A i \in 1 .. Len(names) : Entry(i).path = SignalName(d, d.sigref[names[i]])
    BY DEF SignalEntry
  <1> HIDE DEF asked, d, names, Entry, r, p, V
  <1>6. CASE acc.panics /\ r = acc
    BY <1>6 DEF Collected, r
  <1>7. CASE r = [acc EXCEPT !.cache = d, !.panics = TRUE]
    <2>1. r = [cache |-> d, entries |-> E, visited |-> acc.visited, panics |-> TRUE]
      BY <1>1, <1>7
    <2>2. AccOk(r, fs) /\ r.panics
      BY <1>2, <2>1 DEF AccOk
    <2> QED
      BY <2>2 DEF Collected, r
  <1>8. CASE ~ acc.panics /\ r = [acc EXCEPT !.cache = d, !.entries = p, !.visited = V]
    <2>1. r = [cache |-> d, entries |-> p, visited |-> V, panics |-> acc.panics]
      BY <1>1, <1>8
    <2>2. \A i \in 1 .. Len(names) : SignalName(d, d.sigref[names[i]]) \in KindNames(m, kind)
      BY <1>2 DEF KindNames
    <2>3. KindNames(m, kind) \subseteq NamesOf(m)
      BY DEF KindNames, NamesOf
    <2>4. /\ \A x \in p : IsEntry(x)
          /\ Paths(E) \subseteq Paths(p)
          /\ Paths(p) \subseteq Paths(E) \cup NamesOf(m)
          /\ PathsDiffer /\ E \subseteq AllEntries(loaded)
               /\ new \subseteq AllEntries(loaded)
               /\ (\A e \in new : e.path \notin acc.visited)
             => p = E \cup new
      <3>1. \A x \in E : IsEntry(x)
        BY DEF AccOk
      <3>2. \A i \in 1 .. Len(names) : SignalName(d, d.sigref[names[i]]) \in NamesOf(m)
        BY <2>2, <2>3
      <3> QED
        BY <1>2, <1>3, <3>1, <3>2, PushSignalsFacts DEF Entry, p
    <2> HIDE DEF E
    <2>5. V \subseteq acc.visited \cup KindNames(m, kind)
      BY <1>2, <1>5, <2>2 DEF V
    <2>6. Paths(p) \subseteq AllPaths(loaded)
      <3>1. Paths(E) \subseteq AllPaths(loaded)
        BY DEF AccOk, E
      <3>2. NamesOf(m) \subseteq AllPaths(loaded)
        BY DEF AllPaths
      <3> QED
        BY <2>4, <3>1, <3>2
    <2>7. ASSUME Sound(fs)
          PROVE  new \subseteq AllEntries(loaded) /\ E \subseteq AllEntries(loaded)
      <3>1. \A i \in 1 .. Len(names) : \E u \in VarsOf(m) : Entry(i) = VarEntry(loaded, m, u)
        BY <1>2, <2>7 DEF Sound
      <3>2. \A u \in VarsOf(m) : VarEntry(loaded, m, u) \in AllEntries(loaded)
        BY DEF AllEntries
      <3> QED
        BY <2>7, <3>1, <3>2 DEF AccOk, E
    <2>8. ASSUME Sound(fs)
          PROVE  /\ p = E \cup new
                 /\ \A v \in VarsOf(m) : v.kind = kind => VarDone(loaded, p, m, v)
      <3>1. \A i \in 1 .. Len(names) : Entry(i).path \notin acc.visited
        BY <1>5, <2>2, <2>8
      <3>2. p = E \cup new
        BY <2>4, <2>7, <2>8, <3>1 DEF Sound
      <3>3. ASSUME NEW v \in VarsOf(m), v.kind = kind
            PROVE  VarDone(loaded, p, m, v)
        <4>1. PICK i \in 1 .. Len(names) : Covers(i, v)
          BY <1>2, <2>8, <3>3 DEF Sound
        <4>2. Entry(i) \in p
          BY <3>2
        <4> QED
          BY <3>3, <4>1, <4>2 DEF VarDone
      <3> QED
        BY <3>2, <3>3
    <2>9. AccOk(r, fs)
      <3>1. Sound(fs) => p \subseteq AllEntries(loaded)
        BY <2>7, <2>8
      <3> QED
        BY <1>2, <2>1, <2>4, <2>6, <3>1 DEF AccOk
    <2> QED
      BY <1>8, <2>1, <2>4, <2>5, <2>8, <2>9 DEF Collected, r, E
  <1> QED
    BY <1>4, <1>6, <1>7, <1>8

\* What a module adds to the walk, unless it panics
ModuleCollected(acc, r, m, fs) ==
    /\ AccOk(r, fs)
    /\ ~ r.panics =>
         /\ ~ acc.panics
         /\ Paths(acc.entries) \subseteq Paths(r.entries)
         /\ m.path \in Paths(r.entries)
         /\ Sound(fs) => acc.entries \subseteq r.entries /\ ModuleDone(loaded, r.entries, m)

\* The module is listed, and each of its signals.
LEMMA CollectModuleExact ==
    ASSUME loaded \in Waves, NEW m \in ModulesOf(loaded), NEW acc, NEW fs, AccOk(acc, fs)
    PROVE  ModuleCollected(acc, CollectModule(acc, m), m, fs)
  <1> DEFINE e == ModuleEntry(m)
             E == acc.entries
             P == PushEntry(E, e)
             a0 == Entered(acc, m)
             a1 == CollectSignals(a0, m, "net")
             a2 == CollectSignals(a1, m, "reg")
             a3 == CollectSignals(a2, m, "memory")
  <1>0. IsScope(loaded, m)
    BY ModuleScope
  <1>1. acc = [cache |-> acc.cache, entries |-> E, visited |-> acc.visited,
               panics |-> acc.panics]
    BY DEF AccOk
  <1>2. CollectModule(acc, m) = IF acc.panics THEN acc ELSE a3
    BY CollectModuleSteps
  <1>3. e.path = m.path /\ IsEntry(e) /\ e \in AllEntries(loaded)
    BY DEF ModuleEntry, IsEntry, AllEntries
  <1>4. /\ \A x \in P : IsEntry(x)
        /\ Paths(P) = Paths(E) \cup {m.path}
        /\ Sound(fs) => P = E \cup {e}
    <2>1. \A x \in E : IsEntry(x)
      BY DEF AccOk
    <2>2. Sound(fs) => PathsDiffer /\ E \in SUBSET AllEntries(loaded)
      BY DEF AccOk, Sound
    <2> HIDE DEF e, E
    <2> QED
      BY <1>3, <2>1, <2>2, PushEntryFacts, PushEntryExact
  <1>5. a0 = [cache |-> acc.cache, entries |-> P, visited |-> {}, panics |-> acc.panics]
    <2> HIDE DEF P
    <2>1. a0 = [acc EXCEPT !.entries = P, !.visited = {}]
      BY DEF Entered, P
    <2> QED
      BY <1>1, <2>1
  <1> HIDE DEF e, P, a0
  <1>6. AccOk(a0, fs)
    <2>1. m.path \in AllPaths(loaded)
      BY DEF AllPaths
    <2>2. /\ CacheGood(acc.cache, loaded, fs) /\ Paths(E) \subseteq AllPaths(loaded)
          /\ Sound(fs) => E \subseteq AllEntries(loaded)
      BY DEF AccOk
    <2> HIDE DEF E
    <2>3. a0.cache = acc.cache /\ a0.entries = P /\ a0.visited = {} /\ a0.panics = acc.panics
      BY <1>5
    <2> QED
      BY <1>3, <1>4, <1>5, <2>1, <2>2, <2>3 DEF AccOk
  <1>7. ASSUME Sound(fs), NEW j, NEW k, j # k
        PROVE  KindNames(m, j) \cap KindNames(m, k) = {}
    BY <1>7 DEF Sound, PathsDiffer, KindNames
  <1>8. Collected(a0, a1, m, "net", fs)
    <2>1. a0.visited = {}
      BY <1>5
    <2> QED
      BY <1>6, <2>1, CollectSignalsExact
  <1> HIDE DEF a1
  <1>9. CASE a1.panics
    <2>1. a2 = a1 /\ a3 = a1
      BY <1>9 DEF CollectSignals
    <2>2. AccOk(a1, fs)
      BY <1>8 DEF Collected
    <2> QED
      BY <1>2, <1>9, <2>1, <2>2 DEF ModuleCollected
  <1>10. CASE ~ a1.panics
    <2>1. AccOk(a1, fs) /\ a1.visited \subseteq KindNames(m, "net")
      BY <1>5, <1>8, <1>10 DEF Collected
    <2>2. Collected(a1, a2, m, "reg", fs)
      BY <1>7, <2>1, CollectSignalsExact
    <2> HIDE DEF a2
    <2>3. CASE a2.panics
      <3>1. a3 = a2
        BY <2>3 DEF CollectSignals
      <3>2. AccOk(a2, fs)
        BY <2>2 DEF Collected
      <3> QED
        BY <1>2, <2>3, <3>1, <3>2 DEF ModuleCollected
    <2>4. CASE ~ a2.panics
      <3>1. AccOk(a2, fs)
            /\ a2.visited \subseteq KindNames(m, "net") \cup KindNames(m, "reg")
        BY <2>1, <2>2, <2>4 DEF Collected
      <3>2. Collected(a2, a3, m, "memory", fs)
        <4>1. Sound(fs) => a2.visited \cap KindNames(m, "memory") = {}
          BY <1>7, <3>1
        <4> QED
          BY <3>1, <4>1, CollectSignalsExact
      <3> HIDE DEF a3
      <3>3. AccOk(a3, fs)
        BY <3>2 DEF Collected
      <3>4. ASSUME ~ a3.panics
            PROVE  /\ ~ acc.panics
                   /\ Paths(E) \subseteq Paths(a3.entries)
                   /\ m.path \in Paths(a3.entries)
        BY <1>4, <1>5, <1>8, <1>10, <2>2, <2>4, <3>2, <3>4 DEF Collected
      <3>5. ASSUME ~ a3.panics, Sound(fs)
            PROVE  E \subseteq a3.entries /\ ModuleDone(loaded, a3.entries, m)
        <4>1. /\ a0.entries \subseteq a1.entries /\ a1.entries \subseteq a2.entries
              /\ a2.entries \subseteq a3.entries
              /\ \A v \in VarsOf(m) :
                   /\ v.kind = "net" => VarDone(loaded, a1.entries, m, v)
                   /\ v.kind = "reg" => VarDone(loaded, a2.entries, m, v)
                   /\ v.kind = "memory" => VarDone(loaded, a3.entries, m, v)
          BY <1>8, <1>10, <2>2, <2>4, <3>2, <3>5 DEF Collected
        <4>2. a0.entries = E \cup {e}
          BY <1>4, <1>5, <3>5
        <4>3. \A v \in VarsOf(m) : v.kind \in {"net", "reg", "memory"}
          BY <1>0 DEF IsScope
        <4>4. \A v \in VarsOf(m) : VarDone(loaded, a3.entries, m, v)
          BY <4>1, <4>3 DEF VarDone
        <4> QED
          BY <4>1, <4>2, <4>4 DEF ModuleDone, e
      <3>6. CASE acc.panics
        BY <1>2, <3>6 DEF ModuleCollected
      <3> QED
        BY <1>2, <3>3, <3>4, <3>5, <3>6 DEF ModuleCollected
    <2> QED
      BY <2>3, <2>4
  <1> QED
    BY <1>9, <1>10

\* Paths of a wave hang below those of its modules.
LEMMA PathsRooted ==
    ASSUME NEW w \in Waves, NEW E, \A x \in E : IsEntry(x), Paths(E) \subseteq AllPaths(w),
           \A m \in ModulesOf(w) : m.path \in Paths(E)
    PROVE  Rooted(E)
  <1>1. ASSUME NEW p \in AllPaths(w)
        PROVE  /\ IsList(p) /\ p # <<>>
               /\ Len(p) > 1 => SubSeq(p, 1, Len(p) - 1) \in Paths(E)
    <2>1. CASE \E m \in ModulesOf(w) : p = m.path
      <3>1. PICK i \in 1 .. Len(Visited(w)) : p = Visited(w)[i].path
        BY <2>1 DEF ModulesOf
      <3>2. IsList(p) /\ p # <<>>
        BY <3>1, ScopeFacts DEF IsScope
      <3>3. ASSUME Len(p) > 1
            PROVE  SubSeq(p, 1, Len(p) - 1) \in Paths(E)
        <4>1. Len(p) - 1 \in 1 .. Len(p)
          BY <3>2, <3>3, ListDomain
        <4>2. \E j \in 1 .. Len(Visited(w)) :
                Visited(w)[j].path = SubSeq(p, 1, Len(p) - 1)
          BY <3>1, <4>1, ScopeFacts
        <4> QED
          BY <4>2 DEF ModulesOf
      <3> QED
        BY <3>2, <3>3
    <2>2. CASE \E m \in ModulesOf(w) : p \in NamesOf(m)
      <3>1. PICK m \in ModulesOf(w) : p \in NamesOf(m)
        BY <2>2
      <3>2. /\ IsList(p) /\ Len(p) = Len(m.path) + 1 /\ SubSeq(p, 1, Len(m.path)) = m.path
            /\ IsList(m.path) /\ m.path # <<>>
        BY <3>1, ModuleScope DEF IsScope, NamesOf
      <3>3. Len(m.path) \in Nat /\ Len(p) - 1 = Len(m.path)
        BY <3>2, ListDomain
      <3>4. p # <<>>
        BY <3>2, <3>3
      <3> QED
        BY <3>2, <3>3, <3>4
    <2> QED
      BY <2>1, <2>2 DEF AllPaths
  <1> QED
    BY <1>1 DEF Rooted, Paths

\* What the walk over all modules returns
WalkRight(r, fs) ==
    ~ r.panics => Rooted(r.entries) /\ (Sound(fs) => EntriesExact(loaded, r.entries))

\* The walk lists modules and signals, and everything hangs below the roots.
LEMMA CollectExact ==
    ASSUME NEW fs, CacheGood(cache, loaded, fs), loaded \in Waves
    PROVE  WalkRight(collect_hierarchy_entries, fs)
  <1> DEFINE ms == Visited(loaded)
             N == Len(ms)
             walk == CHOOSE f : f = Walked(f, ms, N)
             Listed(r, j) == /\ ms[j].path \in Paths(r.entries)
                             /\ Sound(fs) => ModuleDone(loaded, r.entries, ms[j])
             Good(r, i) == AccOk(r, fs) /\ (~ r.panics => \A j \in 1 .. i : Listed(r, j))
             S == {i \in 0 .. N : Good(walk[i], i)}
  <1>0. N \in Nat /\ \A i \in 1 .. N : ms[i] \in ModulesOf(loaded)
    <2>1. N \in Nat
      BY VisitedModules
    <2> QED
      BY <2>1 DEF ModulesOf
  <1>1. collect_hierarchy_entries = walk[N]
    BY DEF collect_hierarchy_entries, Walked
  <1>m. ModulesOf(loaded) = {ms[i] : i \in 1 .. N}
    BY DEF ModulesOf
  <1> HIDE DEF ms
  <1>2. walk = Walked(walk, ms, N)
    <2>1. \E f : f = Walked(f, ms, N)
      <3> HIDE DEF N
      <3> QED
        BY <1>0, WalkedExists
    <2> QED
      BY <2>1
  <1> HIDE DEF walk, N
  <1>3. 0 \in S
    <2> DEFINE r == [cache |-> cache, entries |-> {}, visited |-> {}, panics |-> FALSE]
    <2>1. walk[0] = r
      BY <1>0, <1>2 DEF Walked
    <2>2. AccOk(r, fs)
      BY DEF AccOk, Paths
    <2> HIDE DEF r
    <2>3. Good(r, 0)
      BY <2>2
    <2> HIDE DEF Good
    <2> QED
      BY <1>0, <2>1, <2>3
  <1>4. ASSUME NEW i \in 1 .. N, i - 1 \in S
        PROVE  i \in S
    <2> DEFINE q == walk[i - 1]
               r == walk[i]
    <2>1. r = CollectModule(q, ms[i])
      <3>1. i \in 0 .. N /\ i # 0
        BY <1>0
      <3> HIDE DEF S
      <3> QED
        BY <1>2, <3>1 DEF Walked
    <2>2. Good(q, i - 1)
      BY <1>4
    <2> HIDE DEF q, r
    <2>3. ModuleCollected(q, r, ms[i], fs)
      BY <1>0, <2>1, <2>2, CollectModuleExact
    <2>4. AccOk(r, fs)
      BY <2>3 DEF ModuleCollected
    <2>5. ASSUME ~ r.panics, NEW j \in 1 .. i
          PROVE  Listed(r, j)
      <3>1. CASE j = i
        BY <2>3, <2>5, <3>1 DEF ModuleCollected
      <3>2. CASE j \in 1 .. i - 1
        <4>1. Listed(q, j) /\ Paths(q.entries) \subseteq Paths(r.entries)
              /\ (Sound(fs) => q.entries \subseteq r.entries)
          BY <2>2, <2>3, <2>5, <3>2 DEF ModuleCollected
        <4> QED
          BY <4>1 DEF ModuleDone, VarDone
      <3>3. j = i \/ j \in 1 .. i - 1
        BY <1>0
      <3> QED
        BY <3>1, <3>2, <3>3
    <2>6. Good(r, i)
      BY <2>4, <2>5
    <2> HIDE DEF Good
    <2> QED
      BY <1>0, <2>6 DEF r
  <1>5. N \in S
    <2>1. N \in 0 .. N
      BY <1>0
    <2> HIDE DEF S
    <2> QED
      BY <1>0, <1>3, <1>4, <2>1, UpTo
  <1> DEFINE r == walk[N]
  <1>6. Good(r, N)
    <2> HIDE DEF Good
    <2> QED
      BY <1>5
  <1> HIDE DEF r
  <1>7. ASSUME ~ r.panics
        PROVE  Rooted(r.entries) /\ (Sound(fs) => EntriesExact(loaded, r.entries))
    <2>1. /\ \A x \in r.entries : IsEntry(x)
          /\ Paths(r.entries) \subseteq AllPaths(loaded)
          /\ \A m \in ModulesOf(loaded) : m.path \in Paths(r.entries)
      BY <1>6, <1>7, <1>m DEF AccOk
    <2>2. Rooted(r.entries)
      BY <2>1, PathsRooted
    <2>3. Sound(fs) => EntriesExact(loaded, r.entries)
      BY <1>6, <1>7, <1>m DEF AccOk, EntriesExact
    <2> QED
      BY <2>2, <2>3
  <1> QED
    BY <1>1, <1>7 DEF WalkRight, r

\* The identity that the cache file is found by tells the waves apart.
FilesDiffer ==
    \A v, w \in Waves : Contents[v].path = Contents[w].path
                        /\ Contents[v].time = Contents[w].time => v = w

\* Entries in memory and in the file are rooted.  If no query found another wave on
\* disk or took the file unseen, those in memory are the ones of the wave that is
\* played, and those in the file the ones of a wave that the file names, if any.
HierInv ==
    /\ hmem.known => phase # "down" /\ Rooted(hmem.entries)
    /\ hfile.known => Rooted(hfile.entries)
    /\ FilesDiffer /\ Sound(faults) /\ hfaults = {} =>
         /\ hmem.known => EntriesExact(loaded, hmem.entries)
         /\ hfile.known => \E w \in Waves : /\ hfile.path \in {{}, {Contents[w].path}}
                                            /\ hfile.time \in {{}, {Contents[w].time}}
                                            /\ EntriesExact(w, hfile.entries)

\* Steps that leave the entries alone keep the wave while there are any in memory.
LEMMA HierKept ==
    ASSUME HierInv, UNCHANGED hierarchyVars, faults \subseteq faults',
           hmem.known => loaded' = loaded /\ phase' # "down"
    PROVE  HierInv'
  <1>1. UNCHANGED <<hfile, hmem, hfaults>> /\ (Sound(faults') => Sound(faults))
    BY DEF hierarchyVars, Sound
  <1> QED
    BY <1>1 DEF HierInv

\* The process is gone, and the file stays.
LEMMA HierGone ==
    ASSUME HierInv, HierarchyExit, faults \subseteq faults'
    PROVE  HierInv'
  <1>1. ~ hmem'.known /\ UNCHANGED <<hfile, hfaults>> /\ (Sound(faults') => Sound(faults))
    BY DEF HierarchyExit, NoEntries, Sound
  <1> QED
    BY <1>1 DEF HierInv

\* The entries come from the file: if the wave on disk is the one that is played, the
\* file names it.
LEMMA LoadHierarchyInv ==
    ASSUME CacheInv, HierInv, NEW id \in Identities, LoadHierarchy(id)
    PROVE  HierInv'
  <1> DEFINE unseen == IF {} \in {hfile.path, hfile.time, id.path, id.time}
                       THEN {"unknown"} ELSE {}
  <1>1. /\ phase \in {"up", "saved"} /\ try_load_cache(id)
        /\ hmem' = [known |-> TRUE, entries |-> hfile.entries]
        /\ hfaults' = hfaults \cup Race \cup unseen
        /\ UNCHANGED <<hfile, faults, phase, loaded>>
    BY DEF LoadHierarchy, Up, waveVars
  <1>2. hmem'.known /\ hmem'.entries = hfile.entries
    BY <1>1
  <1>3. hfile.known /\ Agree(hfile.path, id.path) /\ Agree(hfile.time, id.time)
    BY <1>1 DEF try_load_cache
  <1>4. ASSUME FilesDiffer, Sound(faults), hfaults' = {}
        PROVE  /\ EntriesExact(loaded, hfile.entries)
               /\ \E w \in Waves : /\ hfile.path \in {{}, {Contents[w].path}}
                                   /\ hfile.time \in {{}, {Contents[w].time}}
                                   /\ EntriesExact(w, hfile.entries)
    <2>1. hfaults = {} /\ Race = {} /\ unseen = {}
      BY <1>1, <1>4
    <2>2. wave = loaded /\ loaded \in Waves
      BY <2>1 DEF Race, CacheInv, SessionInv
    <2>3. hfile.path # {} /\ hfile.time # {} /\ id.path # {} /\ id.time # {}
      BY <2>1
    <2>4. id.path = {Contents[wave].path} /\ id.time = {Contents[wave].time}
      BY <2>3 DEF Identities
    <2>5. PICK w \in Waves : /\ hfile.path \in {{}, {Contents[w].path}}
                             /\ hfile.time \in {{}, {Contents[w].time}}
                             /\ EntriesExact(w, hfile.entries)
      BY <1>3, <1>4, <2>1 DEF HierInv
    <2>6. {Contents[w].path} = {Contents[wave].path} /\ {Contents[w].time} = {Contents[wave].time}
      BY <1>3, <2>3, <2>4, <2>5 DEF Agree
    <2>7. w = loaded
      BY <1>4, <2>2, <2>6 DEF FilesDiffer
    <2> QED
      BY <2>5, <2>7
  <1> QED
    BY <1>1, <1>2, <1>3, <1>4 DEF HierInv

\* The hierarchy is walked, and the file written for the wave on disk.
LEMMA CollectHierarchyInv ==
    ASSUME CacheInv, HierInv, NEW id \in Identities, CollectHierarchy(id)
    PROVE  HierInv'
  <1> DEFINE walk == collect_hierarchy_entries
  <1>1. /\ phase \in {"up", "saved"} /\ UNCHANGED <<faults, phase, loaded>>
        /\ IF walk.panics THEN UNCHANGED hierarchyVars
           ELSE /\ hmem' = [known |-> TRUE, entries |-> walk.entries]
                /\ hfile' \in {SavedHierarchy(id, walk.entries), NoEntries}
                /\ hfaults' = hfaults \cup Race
    BY DEF CollectHierarchy, Up
  <1>2. /\ loaded \in Waves /\ WalkRight(walk, faults)
    BY CollectExact DEF CacheInv, SessionInv
  <1> HIDE DEF walk
  <1>3. CASE walk.panics
    BY <1>1, <1>3, HierKept
  <1>4. CASE ~ walk.panics
    <2>1. hmem'.known /\ hmem'.entries = walk.entries
      BY <1>1, <1>4
    <2>2. hfile'.known => /\ hfile'.path \in {{}, {Contents[wave].path}}
                          /\ hfile'.time \in {{}, {Contents[wave].time}}
                          /\ hfile'.entries = walk.entries
      BY <1>1, <1>4 DEF SavedHierarchy, NoEntries, Identities
    <2>3. Rooted(walk.entries) /\ (Sound(faults) => EntriesExact(loaded, walk.entries))
      BY <1>2, <1>4 DEF WalkRight
    <2>4. hfaults' = {} => wave = loaded /\ hfaults = {}
      BY <1>1, <1>4 DEF Race
    <2> QED
      BY <1>1, <1>2, <2>1, <2>2, <2>3, <2>4 DEF HierInv
  <1> QED
    BY <1>3, <1>4

\* There are no entries at the start.
LEMMA HierInvInit == Init => HierInv
  BY DEF Init, HierarchyInit, HierInv, NoEntries

\* Every step preserves the invariant of the hierarchy.
LEMMA HierStep ==
    ASSUME CacheInv, HierInv, [Next]_vars
    PROVE  HierInv'
  <1>1. CASE \/ \E only \in BOOLEAN : Open(only)
             \/ Stat \/ \E n \in Names : Find(n)
             \/ EndOfSimulation \/ WellenFinalizeEnds
             \/ LoseFile \/ \E w \in Waves : Dump(w)
    <2>1. UNCHANGED hierarchyVars
      BY <1>1 DEF Open, Stat, Find, EndOfSimulation, WellenFinalizeEnds, LoseFile, Dump
    <2>2. faults \subseteq faults'
      BY <1>1 DEF Open, Stat, Find, EndOfSimulation, WellenFinalizeEnds, LoseFile, Dump,
        ReadWave, LoadCaches, Lookup, FinalizeUnsaved, SaveMeta, SaveSignals,
        LoseSignalFile, NextWave
    <2>3. phase # "down" => loaded' = loaded /\ phase' # "down"
      BY <1>1 DEF Open, Stat, Find, EndOfSimulation, WellenFinalizeEnds, LoseFile, Dump,
        ReadWave, LoadCaches, Lookup, FinalizeUnsaved, SaveMeta, SaveSignals,
        LoseSignalFile, NextWave
    <2> QED
      BY <2>1, <2>2, <2>3, HierKept DEF HierInv
  <1>2. CASE Query
    BY <1>2, LoadHierarchyInv, CollectHierarchyInv DEF Query
  <1>3. CASE Exit \/ Interrupt \/ Kill
    <2>1. HierarchyExit
      BY <1>3 DEF Exit, Interrupt, Kill, Gone
    <2>2. faults \subseteq faults'
      BY <1>3 DEF Exit, Interrupt, Kill, SaveUntouched, SaveBreaksOff, NoSave,
        SaveCutShort
    <2> QED
      BY <2>1, <2>2, HierGone
  <1>4. CASE SaveFails
    <2>1. faults \subseteq faults'
      BY <1>4 DEF SaveFails, SaveCutShort
    <2>2. CASE process = "running"
      <3>1. UNCHANGED <<hierarchyVars, loaded, phase>>
        BY <1>4, <2>2 DEF SaveFails
      <3> QED
        BY <2>1, <3>1, HierKept DEF HierInv
    <2>3. CASE process # "running"
      <3>1. HierarchyExit
        BY <1>4, <2>3 DEF SaveFails, Gone
      <3> QED
        BY <2>1, <3>1, HierGone
    <2> QED
      BY <2>2, <2>3
  <1>5. CASE \/ Startup \/ \E ok \in BOOLEAN : StartOfSimulation(ok) \/ EndCallback(ok)
             \/ \E ok, init_ok \in BOOLEAN, f \in Steps :
                  \/ Embed(verilua_init(init_ok))
                  \/ Embed(Step(f, init_ok, ok))
                  \/ Embed(StepSafe(f, init_ok, ok))
                  \/ Embed(StepAfterError(f, ok))
                  \/ Embed(verilua_final(init_ok, ok))
                  \/ Embed(process = "running" /\ FinalCallback(ok))
             \/ Embed(TaskFails) \/ Embed(EmbedExit) \/ NextProcess \/ UNCHANGED vars
             \/ Fail \/ \E n \in Names, t \in 1 .. MaxTime : ReadFails(n, t)
    <2>1. UNCHANGED <<waveVars, hierarchyVars>>
      BY <1>5 DEF Startup, StartOfSimulation, EndCallback, Embed, NextProcess, Fail,
        ReadFails, vars
    <2>2. UNCHANGED <<phase, loaded, faults>>
      BY <2>1 DEF waveVars
    <2> QED
      BY <2>1, <2>2, HierKept DEF HierInv
  <1> QED
    BY <1>1, <1>2, <1>3, <1>4, <1>5 DEF Next

\* It holds in every reachable state.
LEMMA HierInvariant == Spec => []HierInv
  <1>1. CacheInv /\ HierInv /\ [Next]_vars => HierInv'
    BY HierStep
  <1> QED
    BY <1>1, HierInvInit, CacheInvariant, PTL DEF Spec

\* Prefixes of a path
LEMMA PathPrefix ==
    ASSUME NEW s, IsList(s), NEW k \in 1 .. Len(s)
    PROVE  /\ Len(s) \in Nat /\ DOMAIN s = 1 .. Len(s) /\ SubSeq(s, 1, Len(s)) = s
           /\ Len(SubSeq(s, 1, k)) = k
           /\ k > 1 => SubSeq(SubSeq(s, 1, k), 1, k - 1) = SubSeq(s, 1, k - 1)
  <1> DEFINE R == {s[i] : i \in DOMAIN s}
  <1>1. s \in Seq(R)
    BY DEF IsList
  <1> HIDE DEF R
  <1> QED
    BY <1>1

\* What TreeRooted says of one query for the path of m
Hangs(E, max_level, m) ==
    LET shown == vpiml_collect_hierarchy(E, max_level, {m.path}, TRUE, FALSE).shown
    IN  /\ (max_level = 0 \/ m.level <= max_level) <=> m \in shown
        /\ \A e \in shown : Len(e.path) > 1 =>
             \E p \in shown : p.path = SubSeq(e.path, 1, Len(e.path) - 1)

\* The shown entries of rooted entries are rooted.
LEMMA ShownRooted ==
    ASSUME NEW E, Rooted(E), NEW max_level \in Nat, NEW m \in E
    PROVE  Hangs(E, max_level, m)
  <1> DEFINE within == {e \in E : max_level = 0 \/ e.level <= max_level}
             hits == {e \in within : e.path \in {m.path}}
             paths == UNION {{SubSeq(e.path, 1, k) : k \in DOMAIN e.path} : e \in hits}
             shown == {e \in within : e.path \in paths}
  <1>1. vpiml_collect_hierarchy(E, max_level, {m.path}, TRUE, FALSE).shown = shown
    BY DEF vpiml_collect_hierarchy
  <1>2. \A e \in E : IsList(e.path) /\ e.path # <<>> /\ e.level = Len(e.path) - 1
    BY DEF Rooted, IsEntry
  <1>3. /\ Len(m.path) \in Nat /\ DOMAIN m.path = 1 .. Len(m.path)
        /\ Len(m.path) \in 1 .. Len(m.path)
    <2>1. Len(m.path) \in Nat /\ DOMAIN m.path = 1 .. Len(m.path) /\ m.path # <<>>
      BY <1>2, ListDomain
    <2>2. Len(m.path) # 0
      BY <1>2, <2>1 DEF IsList
    <2> QED
      BY <2>1, <2>2
  <1>4. (max_level = 0 \/ m.level <= max_level) <=> m \in shown
    <2>1. m.path = SubSeq(m.path, 1, Len(m.path))
      BY <1>2, <1>3, PathPrefix
    <2>2. ASSUME m \in within
          PROVE  m.path \in paths
      <3>1. m \in hits
        BY <2>2
      <3>2. SubSeq(m.path, 1, Len(m.path)) \in {SubSeq(m.path, 1, k) : k \in DOMAIN m.path}
        BY <1>3
      <3> QED
        BY <2>1, <3>1, <3>2
    <2>3. (max_level = 0 \/ m.level <= max_level) <=> m \in within
      OBVIOUS
    <2> HIDE DEF within, paths
    <2> QED
      BY <2>2, <2>3
  <1>5. ASSUME NEW e \in shown, Len(e.path) > 1
        PROVE  \E p \in shown : p.path = SubSeq(e.path, 1, Len(e.path) - 1)
    <2>1. PICK h \in hits : \E k \in DOMAIN h.path : e.path = SubSeq(h.path, 1, k)
      OBVIOUS
    <2>2. PICK k \in 1 .. Len(m.path) : h.path = m.path /\ e.path = SubSeq(m.path, 1, k)
      BY <1>3, <2>1
    <2>3. Len(e.path) = k /\ SubSeq(e.path, 1, k - 1) = SubSeq(m.path, 1, k - 1)
      BY <1>2, <1>5, <2>2, PathPrefix
    <2>4. k - 1 \in 1 .. Len(m.path) /\ k \in Int
      BY <1>3, <1>5, <2>2, <2>3
    <2>5. PICK p \in E : p.path = SubSeq(e.path, 1, k - 1)
      BY <1>5, <2>3 DEF Rooted, Paths
    <2>6. p.level = k - 2 /\ e.level = k - 1
      <3>1. Len(p.path) = k - 1
        BY <1>2, <2>3, <2>4, <2>5, PathPrefix
      <3> QED
        BY <1>2, <2>3, <2>4, <2>5, <3>1
    <2>7. p \in within
      BY <2>4, <2>6
    <2>8. p.path \in paths
      BY <1>3, <2>1, <2>2, <2>3, <2>4, <2>5
    <2> QED
      BY <2>3, <2>5, <2>7, <2>8
  <1> HIDE DEF shown
  <1> QED
    BY <1>1, <1>4, <1>5 DEF Hangs

\* In tree mode everything that a query shows hangs below a shown module, up to the
\* root, whatever the depth limit cuts off: for every wave, for entries that were
\* walked and for those of a file that an earlier process left.
THEOREM HierarchyRooted == Spec => []TreeRooted
  <1>1. HierInv => TreeRooted
    <2> SUFFICES ASSUME HierInv, hmem.known
                 PROVE  TreeRooted
      BY DEF TreeRooted
    <2>1. Rooted(hmem.entries) /\ \A max_level \in 0 .. 2 : max_level \in Nat
      BY DEF HierInv
    <2>2. \A max_level \in 0 .. 2, m \in hmem.entries : Hangs(hmem.entries, max_level, m)
      BY <2>1, ShownRooted
    <2> QED
      BY <2>2 DEF TreeRooted, Hangs
  <1> QED
    BY <1>1, HierInvariant, PTL

\* Entries that are exact list every module once and every signal under a name that
\* the module has for it.
LEMMA ExactEntries ==
    ASSUME PathsDiffer, loaded \in Waves, hmem.known => EntriesExact(loaded, hmem.entries)
    PROVE  HierarchyExact
  <1> DEFINE ms == Visited(loaded)
             sigs == UNION {{i} \X DOMAIN ms[i].vars : i \in DOMAIN ms}
             Var(x) == ms[x[1]].vars[x[2]]
             Ref(n) == Contents[loaded].refs[n]
             Lists(e, x) ==
               /\ \E y \in sigs : /\ y[1] = x[1] /\ Var(y).name = e.path
                                  /\ Ref(Var(y).name) = Ref(Var(x).name)
               /\ e.type = SigType(Var(x).kind) /\ e.level = Len(ms[x[1]].path)
               /\ e.width = Len(Contents[loaded].signals[Ref(e.path)][1].bits)
             E == hmem.entries
  <1> SUFFICES ASSUME hmem.known
               PROVE  /\ {e.path : e \in {x \in E : x.type = "module"}}
                           = {ms[i].path : i \in DOMAIN ms}
                      /\ \A e \in E : e.type # "module" => \E x \in sigs : Lists(e, x)
                      /\ \A x \in sigs : \E e \in E : Lists(e, x)
                      /\ \A e, f \in E : e.path = f.path => e = f
    BY DEF HierarchyExact
  <1>1. E \subseteq AllEntries(loaded) /\ \A m \in ModulesOf(loaded) : ModuleDone(loaded, E, m)
    BY DEF EntriesExact
  <1>2. ModulesOf(loaded) = {ms[i] : i \in DOMAIN ms}
    <2>1. DOMAIN ms = 1 .. Len(ms)
      BY ScopeFacts
    <2> QED
      BY <2>1 DEF ModulesOf
  <1>3. \A m : ModuleEntry(m).path = m.path /\ ModuleEntry(m).type = "module"
    BY DEF ModuleEntry
  <1>4. \A m, v : /\ VarEntry(loaded, m, v).path = v.name
                  /\ VarEntry(loaded, m, v).type = SigType(v.kind)
                  /\ VarEntry(loaded, m, v).level = Len(m.path)
                  /\ VarEntry(loaded, m, v).width
                       = Len(Contents[loaded].signals[Ref(v.name)][1].bits)
    BY DEF VarEntry
  <1>5. \A k : SigType(k) # "module"
    BY DEF SigType
  <1>6. \A i \in DOMAIN ms : \A j \in DOMAIN ms[i].vars :
          <<i, j>> \in sigs /\ <<i, j>>[1] = i /\ <<i, j>>[2] = j
    OBVIOUS
  <1>7. \A x \in sigs : x[1] \in DOMAIN ms /\ x[2] \in DOMAIN ms[x[1]].vars
    OBVIOUS
  <1>8. \A e \in E : \/ \E m \in ModulesOf(loaded) : e = ModuleEntry(m)
                     \/ \E m \in ModulesOf(loaded) : \E v \in VarsOf(m) :
                          e = VarEntry(loaded, m, v)
    BY <1>1 DEF AllEntries
  <1> HIDE DEF ms, sigs, E
  <1>9. {e.path : e \in {x \in E : x.type = "module"}} = {ms[i].path : i \in DOMAIN ms}
    <2>1. ASSUME NEW e \in E, e.type = "module"
          PROVE  \E i \in DOMAIN ms : e.path = ms[i].path
      BY <1>2, <1>3, <1>4, <1>5, <1>8, <2>1
    <2>2. ASSUME NEW i \in DOMAIN ms
          PROVE  \E e \in E : e.type = "module" /\ e.path = ms[i].path
      BY <1>1, <1>2, <1>3 DEF ModuleDone
    <2> QED
      BY <2>1, <2>2
  <1>10. ASSUME NEW i \in DOMAIN ms, NEW j \in DOMAIN ms[i].vars,
                NEW k \in DOMAIN ms[i].vars, NEW e,
                e = VarEntry(loaded, ms[i], ms[i].vars[k]),
                ms[i].vars[k].kind = ms[i].vars[j].kind,
                Ref(ms[i].vars[k].name) = Ref(ms[i].vars[j].name)
         PROVE  Lists(e, <<i, j>>)
    <2>1. /\ <<i, k>> \in sigs /\ <<i, k>>[1] = i /\ Var(<<i, k>>) = ms[i].vars[k]
          /\ <<i, j>>[1] = i /\ Var(<<i, j>>) = ms[i].vars[j]
      BY <1>6
    <2>2. /\ e.path = ms[i].vars[k].name /\ e.type = SigType(ms[i].vars[k].kind)
          /\ e.level = Len(ms[i].path)
          /\ e.width = Len(Contents[loaded].signals[Ref(ms[i].vars[k].name)][1].bits)
      <3> DEFINE v == ms[i].vars[k]
      <3> HIDE DEF v
      <3>1. e = VarEntry(loaded, ms[i], v)
        BY <1>10 DEF v
      <3>2. /\ e.path = v.name /\ e.type = SigType(v.kind) /\ e.level = Len(ms[i].path)
            /\ e.width = Len(Contents[loaded].signals[Ref(v.name)][1].bits)
        BY <3>1 DEF VarEntry
      <3> QED
        BY <3>2 DEF v
    <2> HIDE DEF Var, Ref
    <2> QED
      BY <1>10, <2>1, <2>2 DEF Lists
  <1> HIDE DEF Lists
  <1>11. ASSUME NEW e \in E, e.type # "module"
         PROVE  \E x \in sigs : Lists(e, x)
    <2>1. PICK m \in ModulesOf(loaded) : \E v \in VarsOf(m) : e = VarEntry(loaded, m, v)
      BY <1>3, <1>8, <1>11
    <2>2. PICK i \in DOMAIN ms : m = ms[i]
      BY <1>2
    <2>3. PICK j \in DOMAIN ms[i].vars : e = VarEntry(loaded, ms[i], ms[i].vars[j])
      BY <2>1, <2>2 DEF VarsOf
    <2>4. Lists(e, <<i, j>>)
      BY <1>10, <2>3
    <2> QED
      BY <1>6, <2>4
  <1>12. ASSUME NEW x \in sigs
         PROVE  \E e \in E : Lists(e, x)
    <2> DEFINE i == x[1]  j == x[2]
    <2>1. i \in DOMAIN ms /\ j \in DOMAIN ms[i].vars
      BY <1>7
    <2>2. VarDone(loaded, E, ms[i], ms[i].vars[j])
      BY <1>1, <1>2, <2>1 DEF ModuleDone, VarsOf
    <2>3. PICK k \in DOMAIN ms[i].vars :
            /\ ms[i].vars[k].kind = ms[i].vars[j].kind
            /\ Ref(ms[i].vars[k].name) = Ref(ms[i].vars[j].name)
            /\ VarEntry(loaded, ms[i], ms[i].vars[k]) \in E
      BY <2>2 DEF VarDone, VarsOf
    <2>4. Lists(VarEntry(loaded, ms[i], ms[i].vars[k]), <<i, j>>)
      BY <1>10, <2>1, <2>3
    <2>5. x = <<i, j>>
      BY DEF sigs
    <2> QED
      BY <2>3, <2>4, <2>5
  <1>13. \A e, f \in E : e.path = f.path => e = f
    BY <1>1, EntryUnique
  <1> QED
    BY <1>9, <1>11, <1>12, <1>13

\* What a query hands to Lua is the hierarchy of the wave that is played, also when it
\* comes from the file of an earlier process: for all waves that their stamps and the
\* identity of the cache file tell apart and that do not give one path to two things,
\* as long as no fault has been met and the identity of wave and file was known.
THEOREM HierarchyIsExact ==
    ASSUME StampsDiffer, FilesDiffer, PathsDiffer
    PROVE  Spec => []HierarchyExact
  <1>1. CacheInv /\ HierInv => HierarchyExact
    <2> SUFFICES ASSUME CacheInv, HierInv
                 PROVE  HierarchyExact
      OBVIOUS
    <2>1. CASE hfaults # {} \/ faults # {}
      BY <2>1 DEF HierarchyExact
    <2>2. CASE hfaults = {} /\ faults = {}
      <3>1. loaded \in Waves
        BY DEF CacheInv, SessionInv
      <3>2. hmem.known => EntriesExact(loaded, hmem.entries)
        BY <2>2 DEF HierInv, Sound
      <3> QED
        BY <3>1, <3>2, ExactEntries
    <2> QED
      BY <2>1, <2>2
  <1> QED
    BY <1>1, CacheInvariant, HierInvariant, PTL
============================================================================
