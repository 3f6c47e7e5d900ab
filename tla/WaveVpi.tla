------------------------------ MODULE WaveVpi ------------------------------
(* The waveform backend, translated from
   src/src/wave_vpi/wellen_impl/src/lib.rs: a process plays a wave file, and
   names and signals that it looked up are kept in two files for the next one.

   A name is the sequence of its segments.  Signal references are numbers that
   wellen gives to the signals of one wave: they mean nothing in another wave,
   and two names may share one.  cache.signals[r] is the wave that the loaded
   signal r was read from.  Iterators live within one call of the library and
   are not state; the module handles that finalize frees are left out.      *)
EXTENDS Naturals, Sequences, FiniteSets, WaveValues, Lists

CONSTANTS
    Waves,
    Contents,    \* Contents[w]: path, time and size of the file, its time
                 \* table, refs (name -> reference), signals (reference ->
                 \* changes) and modules (path and variables of each)
    Names,       \* names that are looked up
    Threshold    \* SIGNAL_REF_COUNT_THRESHOLD, 15 in the code

ASSUME WaveAssumption ==
    /\ Threshold \in Nat
    /\ \A w \in Waves :
         /\ DOMAIN Contents[w].refs \subseteq Names
         /\ \A n \in DOMAIN Contents[w].refs :
              Contents[w].refs[n] \in DOMAIN Contents[w].signals
         /\ IsList(Contents[w].modules)
         /\ \A i \in DOMAIN Contents[w].modules :
              LET variables == Contents[w].modules[i].vars
              IN  /\ IsList(variables)
                  /\ \A j \in DOMAIN variables :
                       variables[j].name \in DOMAIN Contents[w].refs

VARIABLES
    wave,        \* the wave file that is on disk
    meta,        \* META_FILE
    bin,         \* SIGNAL_CACHE_FILE
    phase,       \* "down", "opened", "up", "saving" or "saved"
    loaded,      \* HIERARCHY and WAVE_SOURCE: the wave in memory
    hierarchy_only,
    modified,    \* WAVE_FILE_MODIFIED: the wave that its stamp was taken from
    cache,       \* the SIGNAL_* caches and HAS_NEWLY_ADD_SIGNAL_REF
    faults       \* history: "files" and "race", see below

waveVars == <<wave, meta, bin, phase, loaded, hierarchy_only, modified, cache,
              faults>>

NoMeta == [readable |-> FALSE]
NoBin == [readable |-> FALSE]
NoCache == [sigref |-> <<>>, null |-> {}, signals |-> <<>>, names |-> <<>>,
            newly |-> FALSE]

Put(f, k, v) == [x \in DOMAIN f \cup {k} |-> IF x = k THEN v ELSE f[x]]

WaveInit ==
    /\ wave \in Waves
    /\ meta = NoMeta /\ bin = NoBin
    /\ phase = "down" /\ loaded = wave /\ modified = wave
    /\ hierarchy_only = FALSE
    /\ cache = NoCache
    /\ faults = {}

\* FileModifiedInfo: whole seconds and bytes; the path is not part of it.
Stamp(w) == <<Contents[w].time, Contents[w].size>>

----------------------------------------------------------------------------
(* wellen_initialize: the wave is read first, its stamp is taken after that. *)

ReadWave(only) ==
    /\ phase = "down"
    /\ loaded' = wave /\ hierarchy_only' = only
    /\ phase' = IF only THEN "up" ELSE "opened"
    /\ cache' = NoCache
    /\ UNCHANGED <<wave, meta, bin, modified, faults>>

\* Mutant: the size of the file is not compared.
MutUseByTime ==
    /\ meta.readable
    /\ meta.modified[1] = Stamp(wave)[1]
    /\ Cardinality(DOMAIN meta.sigref) >= Threshold

UseCachedData ==
    /\ meta.readable
    /\ meta.modified = Stamp(wave)
    /\ Cardinality(DOMAIN meta.sigref) >= Threshold

\* A signal file that cannot be read leaves the signal cache empty, but the
\* references of the meta file are used all the same.
LoadCaches ==
    /\ phase = "opened"
    /\ modified' = wave
    /\ faults' = IF wave = loaded THEN faults ELSE faults \cup {"race"}
    /\ cache' = IF UseCachedData
                THEN [NoCache EXCEPT
                        !.sigref = meta.sigref,
                        !.null = meta.null,
                        !.signals = IF bin.readable THEN bin.signals ELSE <<>>]
                ELSE NoCache
    /\ phase' = "up"
    /\ UNCHANGED <<wave, meta, bin, loaded, hierarchy_only>>

----------------------------------------------------------------------------
(* Lookups                                                                  *)

\* Mutant: a name that the wave does not have is cached with reference 0.
MutNullAsReference(c, n) ==
    LET r == IF n \in DOMAIN Contents[loaded].refs THEN Contents[loaded].refs[n]
             ELSE 0
    IN  [c EXCEPT !.sigref = Put(@, n, r)]

\* Mutant: a hit leaves the name under which the reference was queried last.
MutHitKeepsName(c, n) ==
    IF n \in DOMAIN c.sigref \/ n \in c.null THEN c
    ELSE IF n \notin DOMAIN Contents[loaded].refs
    THEN [c EXCEPT !.null = @ \cup {n}, !.newly = TRUE]
    ELSE LET r == Contents[loaded].refs[n]
         IN  [c EXCEPT !.signals = Put(@, r, loaded), !.names = Put(@, r, n),
                       !.sigref = Put(@, n, r), !.newly = TRUE]

\* The caches after wellen_vpi_handle_by_name(n): a hit refreshes the name of
\* the reference, a miss loads the signal.
handle_by_name(c, n) ==
    IF n \in DOMAIN c.sigref
    THEN [c EXCEPT !.names = Put(@, c.sigref[n], n)]
    ELSE IF n \in c.null THEN c
    ELSE IF n \notin DOMAIN Contents[loaded].refs
    THEN [c EXCEPT !.null = @ \cup {n}, !.newly = TRUE]
    ELSE LET r == Contents[loaded].refs[n]
         IN  [c EXCEPT !.signals = Put(@, r, loaded), !.names = Put(@, r, n),
                       !.sigref = Put(@, n, r), !.newly = TRUE]

\* get_wave_source() panics when the body of the wave was not loaded.
SourcePanics(c, n) ==
    /\ n \notin DOMAIN c.sigref /\ n \notin c.null
    /\ n \in DOMAIN Contents[loaded].refs /\ hierarchy_only

\* wellen_vpi_get(vpiSize), the call that follows every lookup, panics when the
\* signal of the handle is not in the signal cache or has no change at all.
SizePanics(c, n) ==
    /\ n \in DOMAIN c.sigref
    /\ LET r == c.sigref[n]
       IN  r \notin DOMAIN c.signals \/ Contents[c.signals[r]].signals[r] = <<>>

LookupPanics(c, n) == SourcePanics(c, n) \/ SizePanics(handle_by_name(c, n), n)

Lookup(n) ==
    /\ phase \in {"up", "saved"}
    /\ cache' = IF SourcePanics(cache, n) THEN cache ELSE handle_by_name(cache, n)
    /\ UNCHANGED <<wave, meta, bin, phase, loaded, hierarchy_only, modified,
                   faults>>

\* The reads of signal r: its changes come from the wave it was loaded from.
LoadedSignal(r) == Contents[cache.signals[r]].signals[r]

----------------------------------------------------------------------------
(* wellen_finalize writes META_FILE, then SIGNAL_CACHE_FILE.                *)

Saves == Cardinality(DOMAIN cache.sigref) >= Threshold /\ cache.newly

NewMeta == [readable |-> TRUE, modified |-> Stamp(modified),
            sigref |-> cache.sigref, null |-> cache.null]

\* SIGNAL_NAME_CACHE is cleared at the end.
Finalized(c) == [c EXCEPT !.names = <<>>]

FinalizeUnsaved ==
    /\ phase = "up" /\ ~ Saves
    /\ phase' = "saved"
    /\ cache' = Finalized(cache)
    /\ UNCHANGED <<wave, meta, bin, loaded, hierarchy_only, modified, faults>>

SaveMeta ==
    /\ phase = "up" /\ Saves
    /\ phase' = "saving"
    /\ meta' = NewMeta
    /\ UNCHANGED <<wave, bin, loaded, hierarchy_only, modified, cache, faults>>

\* Mutant: only the signals that have been given a name are written.
MutSaveNamed ==
    /\ phase = "saving"
    /\ phase' = "saved"
    /\ bin' = [readable |-> TRUE,
               signals |-> [r \in DOMAIN cache.names \cap DOMAIN cache.signals |->
                             cache.signals[r]]]
    /\ cache' = Finalized(cache)
    /\ UNCHANGED <<wave, meta, loaded, hierarchy_only, modified, faults>>

SaveSignals ==
    /\ phase = "saving"
    /\ phase' = "saved"
    /\ bin' = [readable |-> TRUE, signals |-> cache.signals]
    /\ cache' = Finalized(cache)
    /\ UNCHANGED <<wave, meta, loaded, hierarchy_only, modified, faults>>

----------------------------------------------------------------------------
(* Faults and the world outside                                             *)

\* The process is killed, or a write fails and unwrap() panics.  File::create
\* has truncated the file that was being written.
SaveCutShort ==
    \/ phase = "up" /\ Saves /\ meta' = NoMeta /\ UNCHANGED <<bin, faults>>
    \/ /\ phase = "saving"
       /\ bin' \in {bin, NoBin}
       /\ faults' = faults \cup {"files"}
       /\ UNCHANGED meta

\* Nothing was being written
NoSave == UNCHANGED <<meta, bin, faults>>

\* The process is gone.
WaveExit ==
    /\ phase' = "down" /\ cache' = NoCache
    /\ loaded' = wave /\ modified' = wave /\ hierarchy_only' = FALSE
    /\ UNCHANGED wave

\* SIGNAL_CACHE_FILE is removed, META_FILE is not.
LoseSignalFile ==
    /\ phase = "down" /\ bin.readable
    /\ bin' = NoBin /\ faults' = faults \cup {"files"}
    /\ UNCHANGED <<wave, meta, phase, loaded, hierarchy_only, modified, cache>>

\* Another wave is played, or a simulator dumps the wave anew.  While a process
\* runs only the second happens: the path stays.
NextWave(w) ==
    /\ w # wave
    /\ phase = "down" \/ Contents[w].path = Contents[wave].path
    /\ wave' = w
    /\ IF phase = "down" THEN loaded' = w /\ modified' = w
                         ELSE UNCHANGED <<loaded, modified>>
    /\ UNCHANGED <<meta, bin, phase, hierarchy_only, cache, faults>>

----------------------------------------------------------------------------
(* Properties.  "files" in faults: a save was cut short between the two files
   or the signal file was lost; "race": the wave was dumped anew while it was
   being read.                                                              *)

PartialFcn(f, D, R) == DOMAIN f \subseteq D /\ \A x \in DOMAIN f : f[x] \in R

References == UNION {DOMAIN Contents[w].signals : w \in Waves}

\* Types of the files and of the caches
WaveTypeOK ==
    /\ wave \in Waves /\ loaded \in Waves /\ modified \in Waves
    /\ phase \in {"down", "opened", "up", "saving", "saved"}
    /\ PartialFcn(cache.sigref, Names, References)
    /\ cache.null \subseteq Names
    /\ PartialFcn(cache.signals, References, Waves)
    /\ PartialFcn(cache.names, References, Names)
    /\ cache.newly \in BOOLEAN /\ hierarchy_only \in BOOLEAN
    /\ faults \subseteq {"files", "race"}

\* What the caches of a process say holds for the wave that it plays: the names
\* have these references, the others do not exist, and the signals were read
\* from this wave and no other.
CacheOfWave ==
    /\ \A n \in DOMAIN cache.sigref :
         /\ n \in DOMAIN Contents[loaded].refs
         /\ cache.sigref[n] = Contents[loaded].refs[n]
    /\ cache.null \cap DOMAIN Contents[loaded].refs = {}
    /\ \A r \in DOMAIN cache.signals : cache.signals[r] = loaded

\* Every reference that a lookup can return has its signal loaded, so that
\* the unwrap() of the readers does not panic.
SignalsLoaded == \A n \in DOMAIN cache.sigref :
                   cache.sigref[n] \in DOMAIN cache.signals
============================================================================
