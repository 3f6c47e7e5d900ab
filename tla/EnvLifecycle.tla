--------------------------- MODULE EnvLifecycle ---------------------------
(* The life of VeriluaEnv in one process, translated from
   src/libverilua/src/verilua_env.rs, vpi_callback.rs and lib.rs: who creates
   and initializes it, which callbacks are registered, and the ways in which
   it is finalized: cbEndOfSimulation, verilua_final, the call after a failed
   *_step_safe, a callback whose task has failed, and the destructor at exit
   (not on VCS, nor in a nosim process with VL_NOSIM_BUILD).

   A panic in an extern "C" function aborts the process.                    *)
EXTENDS Naturals

CONSTANTS
    Steps          \* main, posedge and negedge: each *_step_safe function has
                   \* a HAS_ERROR of its own

VARIABLES
    env,           \* VERILUA_ENV; "ready" once verilua_init has returned
    registered,    \* how often each bootstrap callback has been registered
    has_error,     \* the step functions whose Lua function has failed
    finishes,      \* calls of finish_callback
    process        \* "running", "aborting", "exited", "killed", or "left": gone
                   \* with neither a destructor nor a complete endOfSimulation

envVars == <<env, registered, has_error, finishes, process>>

NoEnv == [flag \in {"exists", "initialized", "finalized", "ready", "has_start_cb",
                     "has_final_cb", "has_next_sim_time_cb"} |-> FALSE]

NoneRegistered == [cb \in {"start", "final", "next_sim_time"} |-> 0]

EnvInit ==
    /\ env = NoEnv /\ registered = NoneRegistered
    /\ has_error = {} /\ finishes = 0
    /\ process = "running"

\* The env and the registrations are changed together.
State == [env |-> env, registered |-> registered]

\* Mutant: a bootstrap function does not remember that it was called.
MutRegisterAgain(s, flag, cb) == [s EXCEPT !.registered[cb] = @ + 1]

\* bootstrap_register_*_callback: registers unless its flag is set
RegisterOnce(s, flag, cb) ==
    IF s.env[flag] THEN s
    ELSE [env |-> [s.env EXCEPT ![flag] = TRUE],
          registered |-> [s.registered EXCEPT ![cb] = @ + 1]]

\* VeriluaEnv::initialize.  Loading init.lua, the post-init script or the user
\* script, or the Lua function verilua_init, fails when ok is FALSE.
Initialize(s, ok) ==
    IF s.env.initialized THEN s
    ELSE RegisterOnce(
           RegisterOnce(
             [s EXCEPT !.env = [@ EXCEPT !.exists = TRUE, !.initialized = TRUE,
                                         !.ready = ok]],
             "has_final_cb", "final"),
           "has_next_sim_time_cb", "next_sim_time")

\* get_verilua_env: the first caller initializes.
GetEnv(s, ok) == IF s.env.exists THEN s ELSE Initialize(s, ok)

Panics(s) == s.env.initialized /\ ~ s.env.ready

Becomes(s) == env' = s.env /\ registered' = s.registered

----------------------------------------------------------------------------

\* Mutant: finalize may run again.
MutFinalizeAgain(s, ok) ==
    /\ registered' = s.registered
    /\ env' = [s.env EXCEPT !.finalized = s.env.initialized]
    /\ finishes' = IF s.env.initialized THEN finishes + 1 ELSE finishes
    /\ process' = IF ok THEN process ELSE "aborting"

\* VeriluaEnv::finalize.  An error in finish_callback panics.
Finalize(s, ok) ==
    /\ registered' = s.registered
    /\ IF ~ s.env.initialized \/ s.env.finalized
       THEN env' = s.env /\ UNCHANGED <<finishes, process>>
       ELSE /\ env' = [s.env EXCEPT !.finalized = TRUE]
            /\ finishes' = finishes + 1
            /\ process' = IF ok THEN process ELSE "aborting"

\* vlog_startup_routines
Bootstrap ==
    /\ process = "running"
    /\ Becomes(RegisterOnce(
                 RegisterOnce([State EXCEPT !.env = [@ EXCEPT !.exists = TRUE]],
                              "has_start_cb", "start"),
                 "has_final_cb", "final"))
    /\ UNCHANGED <<has_error, finishes, process>>

\* start_callback: verilua_init, then the registration for the next sim time
StartCallback(ok) ==
    LET s == Initialize(GetEnv(State, ok), ok)
    IN  /\ process = "running" /\ registered.start > 0 /\ ~ env.initialized
        /\ Becomes(RegisterOnce(s, "has_next_sim_time_cb", "next_sim_time"))
        /\ process' = IF Panics(s) THEN "aborting" ELSE process
        /\ UNCHANGED <<has_error, finishes>>

verilua_init(ok) ==
    LET s == Initialize(GetEnv(State, ok), ok)
    IN  /\ process = "running"
        /\ Becomes(s)
        /\ process' = IF Panics(s) THEN "aborting" ELSE process
        /\ UNCHANGED <<has_error, finishes>>

\* verilua_{main,posedge,negedge}_step: an error of the Lua function panics.
Step(f, init_ok, ok) ==
    LET s == GetEnv(State, init_ok)
    IN  /\ process = "running"
        /\ Becomes(s)
        /\ process' = IF Panics(s) \/ ~ s.env.initialized \/ ~ ok
                      THEN "aborting" ELSE process
        /\ UNCHANGED <<has_error, finishes>>

\* verilua_*_step_safe: an error is remembered ...
StepSafe(f, init_ok, ok) ==
    LET s == GetEnv(State, init_ok)
    IN  /\ process = "running" /\ f \notin has_error
        /\ Becomes(s)
        /\ IF Panics(s) \/ ~ s.env.initialized
           THEN process' = "aborting" /\ UNCHANGED has_error
           ELSE /\ has_error' = IF ok THEN has_error ELSE has_error \cup {f}
                /\ UNCHANGED process
        /\ UNCHANGED finishes

\* ... and the next call of the same function only finalizes.
StepAfterError(f, ok) ==
    /\ process = "running" /\ f \in has_error
    /\ Finalize(State, ok)
    /\ UNCHANGED has_error

FinalCallback(ok) ==
    /\ process \in {"running", "aborting"} /\ registered.final > 0
    /\ Finalize(State, ok)
    /\ UNCHANGED has_error

\* Initializes first if nothing else has.
verilua_final(init_ok, ok) ==
    LET s == GetEnv(State, init_ok)
    IN  /\ process = "running"
        /\ IF Panics(s)
           THEN Becomes(s) /\ process' = "aborting" /\ UNCHANGED finishes
           ELSE Finalize(s, ok)
        /\ UNCHANGED has_error

\* A task has failed in a callback of the simulator: finalize, then panic.
TaskFails ==
    /\ process = "running" /\ env.ready
    /\ IF env.finalized
       THEN process' = "aborting" /\ UNCHANGED <<env, registered, finishes>>
       ELSE Finalize(State, FALSE)
    /\ UNCHANGED has_error

\* exit(): automatically_finalize_verilua_env
ExitRunsDestructors ==
    /\ process' = "exited"
    /\ IF env.initialized /\ ~ env.finalized
       THEN env' = [env EXCEPT !.finalized = TRUE] /\ finishes' = finishes + 1
       ELSE UNCHANGED <<env, finishes>>
    /\ UNCHANGED <<registered, has_error>>

\* _exit() and signals run no destructor.
ExitAtOnce(how) ==
    /\ process' = how
    /\ UNCHANGED <<env, registered, has_error, finishes>>

----------------------------------------------------------------------------

EnvTypeOK ==
    /\ env \in [DOMAIN NoEnv -> BOOLEAN]
    /\ registered \in [DOMAIN NoneRegistered -> Nat]
    /\ has_error \subseteq Steps
    /\ finishes \in Nat
    /\ process \in {"running", "aborting", "exited", "left", "killed"}

\* Whoever creates the environment, and however often it is initialized, the
\* simulator holds at most one callback of each kind; a second next sim time
\* chain would flush and register everything twice in every slot.
CallbacksOnce ==
    /\ \A cb \in DOMAIN registered : registered[cb] <= 1
    /\ env.ready => registered.final = 1 /\ registered.next_sim_time = 1

\* finish_callback is called at most once, and a process that was initialized
\* does not exit without having called it, whatever order of callbacks, failed
\* steps and tasks, aborts and destructors takes it there.  A killed process may,
\* and so may one that has "left": a build without the destructor, or SIGINT in
\* the middle of endOfSimulation, whose handler finds it called and _exit()s.
FinishedOnce ==
    /\ finishes <= 1
    /\ process = "exited" /\ env.initialized => finishes = 1
============================================================================
