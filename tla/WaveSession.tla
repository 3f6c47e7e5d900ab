---------------------------- MODULE WaveSession ----------------------------
(* Processes that use libverilua, one after the other.  A "wave" process is
   wave_vpi_main: it composes the waveform backend, the hierarchy queries and
   VeriluaEnv, with endOfSimulation and the SIGABRT handler of
   src/src/wave_vpi/src between them.  The files that it leaves are those the
   next process finds.  An "embed" process is a simulation that calls the
   verilua_* functions itself and has no wave; a "vcs" process is one of a
   build, or with an environment, that runs no destructor.                  *)
EXTENDS HierarchyCollect, EnvLifecycle

CONSTANTS
    Hosts,          \* subset of {"wave", "embed", "vcs"}
    MaxTime,        \* bound on the times that are read
    MaxEvents       \* bound on processes after the first, changes of the wave
                    \* file and failed saves, together

VARIABLES
    host,
    hdl_cache,      \* names that have a ComplexHandle
    closing,        \* endOfSimulation: "no", "wellen" (wellen_finalize is
                    \* running or has returned) or "done"
    events

vars == <<waveVars, hierarchyVars, envVars, hdl_cache, host, closing, events>>

Event == events < MaxEvents /\ events' = events + 1

Init ==
    /\ host \in Hosts /\ closing = "no" /\ events = 0 /\ hdl_cache = {}
    /\ WaveInit /\ HierarchyInit /\ EnvInit

InWave == host = "wave" /\ process = "running" /\ closing = "no"

\* Lua runs until the process exits: vpi_control ends the simulation in the
\* middle of a task, and finish_callback runs after wellen_finalize.
LuaRuns == host = "wave" /\ process = "running" /\ env.ready

----------------------------------------------------------------------------
(* wave_vpi_main                                                            *)

Open(only) ==
    /\ InWave /\ ReadWave(only)
    /\ UNCHANGED <<hierarchyVars, envVars, hdl_cache, host, closing, events>>

Stat ==
    /\ InWave /\ LoadCaches
    /\ UNCHANGED <<hierarchyVars, envVars, hdl_cache, host, closing, events>>

Startup ==
    /\ InWave /\ phase = "up" /\ ~ env.has_start_cb
    /\ Bootstrap
    /\ UNCHANGED <<waveVars, hierarchyVars, hdl_cache, host, closing, events>>

StartOfSimulation(ok) ==
    /\ InWave /\ phase = "up"
    /\ StartCallback(ok)
    /\ UNCHANGED <<waveVars, hierarchyVars, hdl_cache, host, closing, events>>

\* complex_handle_by_name in a task.  A hit in hdl_cache changes nothing.
Find(n) ==
    /\ LuaRuns /\ n \notin hdl_cache
    /\ Lookup(n)
    /\ IF LookupPanics(cache, n)
       THEN process' = "aborting" /\ UNCHANGED hdl_cache
       ELSE hdl_cache' = hdl_cache \cup {n} /\ UNCHANGED process
    /\ UNCHANGED <<hierarchyVars, env, registered, has_error, finishes, host,
                   closing, events>>

\* A read at time t of a signal that has no value yet
ReadFails(n, t) ==
    /\ LuaRuns /\ phase \in {"up", "saved"}
    /\ n \in hdl_cache \cap DOMAIN cache.sigref
    /\ read_asserts(LoadedSignal(cache.sigref[n]),
                    find_nearest_time_index(Contents[loaded].table, t))
    /\ process' = "aborting"
    /\ UNCHANGED <<waveVars, hierarchyVars, env, registered, has_error, finishes,
                   hdl_cache, host, closing, events>>

\* vpiml_collect_hierarchy in a task
Query ==
    /\ LuaRuns
    /\ \E id \in Identities :
         \/ LoadHierarchy(id) /\ UNCHANGED process
         \/ /\ CollectHierarchy(id)
            /\ process' = IF CollectPanics(id) THEN "aborting" ELSE process
    /\ UNCHANGED <<env, registered, has_error, finishes, hdl_cache, host, closing,
                   events>>

\* A task fails in the loop, before or after it has called vpi_control.
Fail ==
    /\ LuaRuns /\ closing # "wellen"
    /\ TaskFails
    /\ UNCHANGED <<waveVars, hierarchyVars, hdl_cache, host, closing, events>>

\* The end of the loop, vpi_control, SIGINT or the SIGABRT handler
Ends == /\ host = "wave" /\ process \in {"running", "aborting"}
        /\ closing = "no" /\ registered.final > 0

EndOfSimulation ==
    /\ Ends /\ closing' = "wellen"
    /\ FinalizeUnsaved \/ SaveMeta
    /\ UNCHANGED <<hierarchyVars, envVars, hdl_cache, host, events>>

WellenFinalizeEnds ==
    /\ closing = "wellen" /\ SaveSignals
    /\ UNCHANGED <<hierarchyVars, envVars, hdl_cache, host, closing, events>>

EndCallback(ok) ==
    /\ closing = "wellen" /\ phase = "saved"
    /\ FinalCallback(ok)
    /\ closing' = "done"
    /\ UNCHANGED <<waveVars, hierarchyVars, hdl_cache, host, events>>

Gone == /\ WaveExit /\ HierarchyExit
        /\ hdl_cache' = {} /\ UNCHANGED <<host, closing>>

\* _exit(0) at the end of the loop, exit(1) in the SIGABRT handler
Exit ==
    /\ host = "wave" /\ closing = "done"
    /\ \/ process = "running" /\ ExitAtOnce("exited")
       \/ process = "aborting" /\ ExitRunsDestructors
    /\ NoSave /\ Gone /\ UNCHANGED events

\* A panic in wellen_finalize: the handler finds that endOfSimulation has been
\* called, and exits.  In the handler itself a second abort() kills.
SaveFails ==
    /\ Event
    /\ Ends \/ closing = "wellen"
    /\ SaveCutShort
    /\ IF process = "running"
       THEN /\ process' = "aborting" /\ closing' = "done"
            /\ UNCHANGED <<wave, phase, loaded, hierarchy_only, modified, cache,
                           hierarchyVars, env, registered, has_error, finishes,
                           hdl_cache, host>>
       ELSE ExitAtOnce("killed") /\ Gone

\* What becomes of the files when the process goes: outside a save, and in it
SaveUntouched == NoSave /\ (phase = "saving" => closing = "done")
SaveBreaksOff == (Ends \/ closing = "wellen") /\ SaveCutShort

\* SIGINT before cbEndOfSimulation is registered, and once endOfSimulation has
\* been called: only the _exit(0) of the handler is left to do.
Interrupt ==
    /\ host = "wave" /\ process \in {"running", "aborting"}
    /\ \/ SaveUntouched /\ (closing # "no" \/ registered.final = 0)
       \/ SaveBreaksOff
    /\ ExitAtOnce("left") /\ Gone /\ UNCHANGED events

Kill ==
    /\ host = "wave" /\ process \in {"running", "aborting"}
    /\ SaveUntouched \/ SaveBreaksOff
    /\ ExitAtOnce("killed") /\ Gone /\ UNCHANGED events

----------------------------------------------------------------------------
(* A simulation that embeds Verilua                                         *)

Embed(A) ==
    /\ host \in {"embed", "vcs"}
    /\ A
    /\ UNCHANGED <<waveVars, hierarchyVars, hdl_cache, host, closing, events>>

EmbedExit ==
    \/ process = "running" /\ host = "embed" /\ ExitRunsDestructors
    \/ process = "running" /\ host = "vcs" /\ ExitAtOnce("left")
    \/ process = "aborting" /\ ExitAtOnce("killed")

----------------------------------------------------------------------------
(* Between processes                                                        *)

NextProcess ==
    /\ Event
    /\ process \in {"exited", "left", "killed"}
    /\ env' = NoEnv /\ registered' = NoneRegistered
    /\ has_error' = {} /\ finishes' = 0 /\ process' = "running"
    /\ closing' = "no"
    /\ UNCHANGED <<waveVars, hierarchyVars, hdl_cache, host>>

LoseFile ==
    /\ Event
    /\ host = "wave" /\ process \in {"exited", "left", "killed"}
    /\ LoseSignalFile
    /\ UNCHANGED <<hierarchyVars, envVars, hdl_cache, host, closing>>

Dump(w) ==
    /\ Event
    /\ host = "wave" /\ process = "running"
    /\ NextWave(w)
    /\ UNCHANGED <<hierarchyVars, envVars, hdl_cache, host, closing>>

Next ==
    \/ \E only \in BOOLEAN : Open(only)
    \/ Stat \/ Startup
    \/ \E ok \in BOOLEAN : StartOfSimulation(ok) \/ EndCallback(ok)
    \/ \E n \in Names : Find(n) \/ \E t \in 1 .. MaxTime : ReadFails(n, t)
    \/ Query \/ Fail
    \/ EndOfSimulation \/ WellenFinalizeEnds \/ Exit \/ SaveFails
    \/ Interrupt \/ Kill
    \/ \E ok, init_ok \in BOOLEAN, f \in Steps :
         \/ Embed(verilua_init(init_ok))
         \/ Embed(Step(f, init_ok, ok))
         \/ Embed(StepSafe(f, init_ok, ok))
         \/ Embed(StepAfterError(f, ok))
         \/ Embed(verilua_final(init_ok, ok))
         \/ Embed(process = "running" /\ FinalCallback(ok))
    \/ Embed(TaskFails) \/ Embed(EmbedExit)
    \/ NextProcess \/ LoseFile
    \/ \E w \in Waves : Dump(w)

Spec == Init /\ [][Next]_vars

----------------------------------------------------------------------------

\* Types of all components, and how their states fit together
TypeOK ==
    /\ WaveTypeOK /\ EnvTypeOK
    /\ closing \in {"no", "wellen", "done"} /\ hdl_cache \subseteq Names
    /\ phase \in {"saving", "saved"} => closing # "no"

\* The caches that a process finds, builds and uses describe the wave that it
\* plays, if no save was cut short and the wave was not dumped anew while it
\* was being read.
CacheFresh == faults = {} => CacheOfWave

\* No lookup panics for want of a signal, if the two files belong together.
HandlesLoaded == "files" \notin faults => SignalsLoaded

\* Every read through a handle returns, in every format and at every time, what
\* the wave holds at that time: the number (its least significant word for
\* vpiIntVal), the words of it, its digits.  X and Z read as zero except in
\* strings.  A signal without a value reads as 0 at the first time index and
\* panics at a later one; at the first one its vector is one word, so that of the
\* words that a wider handle asks for only that one is claimed to be right: the
\* others are read from the memory behind it.  The same digits with Spaces in
\* front, as other simulators return them, are read as those digits.
ReadsRight ==
    LuaRuns /\ faults = {} =>
      \A n \in hdl_cache \cap DOMAIN cache.sigref :
      \A t \in Contents[loaded].table[1] .. MaxTime :
        LET signal == LoadedSignal(cache.sigref[n])
            table == Contents[loaded].table
            changes == Contents[loaded].signals[Contents[loaded].refs[n]]
            past == {i \in DOMAIN changes : table[changes[i].idx] <= t}
            last == CHOOSE i \in past : \A j \in past : j <= i
            bits == IF past = {} THEN <<0>> ELSE changes[last].bits
            num == Number(bits)
            Read(f) == wellen_vpi_get_value(signal, table, t, f)
            int == Read("int")
            vector == Read("vector")
            hex == Read("hex")
            idx == find_nearest_time_index(table, t)
            beats == beat_num(vpi_size(signal))
        IN  IF past = {} /\ (Len(table) > 1 /\ t >= table[2])
            THEN read_asserts(signal, idx)
            ELSE
              /\ ~ read_asserts(signal, idx)
              /\ Read("bin") = bits
              /\ wellen_get_value_str(signal, idx) = bits
              /\ int = wellen_get_int_value(signal, idx)
              /\ Len(vector) = (Len(bits) + WordBits - 1) \div WordBits
              /\ past # {} => Len(vector) = beats
              /\ \A spaces \in 0 .. 2 :
                   LET raw == [i \in 1 .. spaces |-> Space] \o hex
                       resolved == vpiml_get_value_hex_str("iverilog", TRUE, raw)
                   IN  /\ vpiml_get_value_hex_str("vcs", TRUE, raw) = hex
                       /\ IF TwoState(bits)
                          THEN /\ resolved = hex
                               /\ vpiml_get_value_dec_str(raw) = num
                          ELSE \A i \in DOMAIN resolved :
                                 resolved[i] # XDigit /\ resolved[i] # Space
              /\ TwoState(bits) =>
                   /\ int = num % 2 ^ WordBits
                   /\ vector = [i \in DOMAIN vector |->
                        (num \div 2 ^ (WordBits * (i - 1))) % 2 ^ WordBits]
                   /\ \A beyond \in {0, 2 ^ WordBits - 1} :
                        LET multi == vpiml_get_value_multi(vector, beats, beyond)
                        IN  /\ vpiml_get_value64(vector, beats, beyond)
                                 % 2 ^ (WordBits * Len(vector))
                               = num % 2 ^ (2 * WordBits)
                            /\ Head(multi) = beats
                            /\ Digits(2 ^ WordBits, Reverse(
                                 SubSeq(multi, 2, Len(vector) + 1))) = num
                   /\ Digits(16, hex) = num /\ Len(hex) = (Len(bits) + 3) \div 4
                   /\ Len(vector) = 1 => Read("dec") = num
              /\ ~ TwoState(bits) =>
                   /\ int = 0 /\ Read("dec") = XDigit
                   /\ vector = [i \in DOMAIN vector |-> 0]
                   /\ \E i \in DOMAIN hex : hex[i] > 15
============================================================================
