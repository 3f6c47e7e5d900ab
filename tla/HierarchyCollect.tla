------------------------- MODULE HierarchyCollect -------------------------
(* The design hierarchy for Lua, translated from
   src/libverilua/src/vpi_access/hierarchy_collect.rs, on top of the waveform
   backend: the first query of a process walks over all modules, or takes the
   result of an earlier process from a cache file.

   Paths are sequences of segments, and the sorted list of entries is a set.
   Contents[w].modules lists the scopes of a wave, parents first; "listed" are
   those that vpi_iterate returns.                                          *)
EXTENDS WaveVpi, Integers

\* The full name of a variable is the path of its scope and its own name, and
\* it is iterated as a net, a memory or a register.
ASSUME HierarchyAssumption ==
    \A w \in Waves : \A i \in DOMAIN Contents[w].modules :
      LET m == Contents[w].modules[i]
      IN  /\ IsList(m.path) /\ m.path # <<>>
          /\ \A j \in DOMAIN m.vars :
               LET v == m.vars[j]
               IN  /\ v.kind \in {"net", "reg", "memory"}
                   /\ IsList(v.name) /\ Len(v.name) = Len(m.path) + 1
                   /\ SubSeq(v.name, 1, Len(m.path)) = m.path

VARIABLES
    hfile,      \* the cache file
    hmem,       \* HIERARCHY_CACHE
    hfaults     \* history: "race", a query found another wave on disk;
                \* "unknown", it took the file without being able to compare

hierarchyVars == <<hfile, hmem, hfaults>>

NoEntries == [known |-> FALSE]

HierarchyInit == hfile = NoEntries /\ hmem = NoEntries /\ hfaults = {}

SigType(kind) == IF kind = "net" THEN "wire" ELSE "reg"

\* is_valid_top_module_scope for the roots, the scope type for the others
Visited(w) ==
    LET ms == Contents[w].modules
        Listed(path) == \E i \in DOMAIN ms : ms[i].path = path /\ ms[i].listed
    IN  AtIndices(ms, {i \in DOMAIN ms :
                         \A k \in 1 .. Len(ms[i].path) :
                           Listed(SubSeq(ms[i].path, 1, k))})

\* collect_signal_handles: the names under which vpi_iterate opens the signals
\* of one kind in a module, the first one of every reference
SignalNames(m, kind) ==
    LET ref == Contents[loaded].refs
        first == AtIndices(m.vars, {i \in DOMAIN m.vars :
                   /\ m.vars[i].kind = kind
                   /\ \A j \in 1 .. i - 1 : m.vars[j].kind = kind =>
                        ref[m.vars[j].name] # ref[m.vars[i].name]})
    IN  [i \in DOMAIN first |-> first[i].name]

\* push_hierarchy_entry
PushEntry(entries, e) ==
    IF \A x \in entries : x.path # e.path THEN entries \cup {e}
    ELSE IF e.type # "reg" THEN entries
    ELSE {IF x.path = e.path THEN [x EXCEPT !.type = "reg"] ELSE x : x \in entries}

\* wellen_vpi_get_str(vpiName): the name under which r was opened last
SignalName(c, r) == c.names[r]

\* The caches when all of names have been looked up
OpenAll(c, names) ==
    LET opened[i \in 0 .. Len(names)] ==
          IF i = 0 THEN c ELSE handle_by_name(opened[i - 1], names[i])
    IN  opened[Len(names)]

SignalEntry(c, m, kind, n) ==
    LET r == c.sigref[n]
    IN  [path |-> SignalName(c, r), type |-> SigType(kind), level |-> Len(m.path),
         width |-> Len(Contents[c.signals[r]].signals[r][1].bits)]

\* The scan of the opened signals: a path that was visited is skipped.
PushSignals(entries, visited, c, m, kind, names) ==
    LET pushed[i \in 0 .. Len(names)] ==
          IF i = 0 THEN entries
          ELSE LET e == SignalEntry(c, m, kind, names[i])
               IN  IF e.path \in visited THEN pushed[i - 1]
                   ELSE PushEntry(pushed[i - 1], e)
    IN  pushed[Len(names)]

\* All signals of one kind in module m are opened, then scanned: a path is the
\* name under which the reference was opened last.
CollectSignals(acc, m, kind) ==
    LET asked == SignalNames(m, kind)
        c == OpenAll(acc.cache, asked)
        names == Restricted(asked, DOMAIN c.sigref)
        Panics(n) == \/ LookupPanics(c, n)
                     \/ SourcePanics(acc.cache, n)
    IN  IF acc.panics THEN acc
        ELSE IF \E i \in DOMAIN names : Panics(names[i])
        THEN [acc EXCEPT !.cache = c, !.panics = TRUE]
        ELSE [acc EXCEPT !.cache = c,
                         !.entries = PushSignals(@, acc.visited, c, m, kind, names),
                         !.visited = @ \cup {SignalEntry(c, m, kind, names[i]).path :
                                               i \in DOMAIN names}]

ObjectTypes == <<"net", "reg", "memory">>

CollectModule(acc, m) ==
    LET module == [path |-> m.path, type |-> "module", level |-> Len(m.path) - 1,
                   width |-> -1]
        scan[i \in 0 .. 3] ==
          IF i = 0
          THEN [acc EXCEPT !.entries = PushEntry(@, module), !.visited = {}]
          ELSE CollectSignals(scan[i - 1], m, ObjectTypes[i])
    IN  IF acc.panics THEN acc ELSE scan[3]

collect_hierarchy_entries ==
    LET ms == Visited(loaded)
        walk[i \in 0 .. Len(ms)] ==
          IF i = 0
          THEN [cache |-> cache, entries |-> {}, visited |-> {}, panics |-> FALSE]
          ELSE CollectModule(walk[i - 1], ms[i])
    IN  walk[Len(ms)]

----------------------------------------------------------------------------
(* get_or_init_hierarchy_cache                                              *)

\* get_source_path and get_file_mtime: what a process knows of the wave that is
\* on disk now, {} for nothing.  VL_WAVEFORM_FILE may not be set, or name no file.
Identities ==
    {[path |-> {Contents[wave].path}, time |-> {Contents[wave].time}],
     [path |-> {Contents[wave].path}, time |-> {}],
     [path |-> {}, time |-> {}]}

\* What is unknown, in the file or now, is not compared.
Agree(a, b) == a = {} \/ b = {} \/ a = b

try_load_cache(id) ==
    /\ hfile.known
    /\ Agree(hfile.path, id.path)
    /\ Agree(hfile.time, id.time)

\* save_cache
SavedHierarchy(id, entries) ==
    [known |-> TRUE, path |-> id.path, time |-> id.time, entries |-> entries]

Up == phase \in {"up", "saved"}

Race == IF wave # loaded THEN {"race"} ELSE {}

LoadHierarchy(id) ==
    /\ Up /\ ~ hmem.known /\ try_load_cache(id)
    /\ hmem' = [known |-> TRUE, entries |-> hfile.entries]
    /\ hfaults' = hfaults \cup Race \cup
         IF {} \in {hfile.path, hfile.time, id.path, id.time}
         THEN {"unknown"} ELSE {}
    /\ UNCHANGED <<hfile, waveVars>>

CollectPanics(id) ==
    ~ hmem.known /\ ~ try_load_cache(id) /\ collect_hierarchy_entries.panics

CollectHierarchy(id) ==
    LET walk == collect_hierarchy_entries
    IN  /\ Up /\ ~ hmem.known /\ ~ try_load_cache(id)
        /\ cache' = walk.cache
        /\ IF walk.panics THEN UNCHANGED hierarchyVars
           ELSE /\ hmem' = [known |-> TRUE, entries |-> walk.entries]
                /\ hfile' \in {SavedHierarchy(id, walk.entries), NoEntries}
                /\ hfaults' = hfaults \cup Race
        /\ UNCHANGED <<wave, meta, bin, phase, loaded, hierarchy_only, modified,
                       faults>>

----------------------------------------------------------------------------
(* vpiml_collect_hierarchy: what a query hands to Lua.  matches is the set of
   paths that the wildcards match; a backend that gives no definition names
   has no answer when they are needed.                                      *)

\* Mutant: the prefixes begin with the second segment.
MutShownFromSecond(entries, max_level, matches, tree, need_names) ==
    LET within == {e \in entries : max_level = 0 \/ e.level <= max_level}
        hits == {e \in within : e.path \in matches}
        paths == UNION {{SubSeq(e.path, 1, k) : k \in 2 .. Len(e.path)} : e \in hits}
    IN  IF need_names THEN [error |-> TRUE, shown |-> {}]
        ELSE [error |-> FALSE,
              shown |-> IF tree THEN {e \in within : e.path \in paths} ELSE hits]

vpiml_collect_hierarchy(entries, max_level, matches, tree, need_names) ==
    LET within == {e \in entries : max_level = 0 \/ e.level <= max_level}
        hits == {e \in within : e.path \in matches}
        paths == UNION {{SubSeq(e.path, 1, k) : k \in DOMAIN e.path} : e \in hits}
    IN  IF need_names THEN [error |-> TRUE, shown |-> {}]
        ELSE [error |-> FALSE,
              shown |-> IF tree THEN {e \in within : e.path \in paths} ELSE hits]

HierarchyExit == hmem' = NoEntries /\ UNCHANGED <<hfile, hfaults>>

----------------------------------------------------------------------------

\* As long as no wave was dumped anew under a reader, and no file was taken
\* unseen, the modules of the wave being played are listed once each, every signal of
\* a module is listed under a name that this module gives it, also when an
\* outer or inner module has another name for it, and nothing else is listed.
HierarchyExact ==
    LET ms == Visited(loaded)
        sigs == UNION {{i} \X DOMAIN ms[i].vars : i \in DOMAIN ms}
        Var(x) == ms[x[1]].vars[x[2]]
        Ref(n) == Contents[loaded].refs[n]
        Lists(e, x) ==
          /\ \E y \in sigs : /\ y[1] = x[1] /\ Var(y).name = e.path
                             /\ Ref(Var(y).name) = Ref(Var(x).name)
          /\ e.type = SigType(Var(x).kind) /\ e.level = Len(ms[x[1]].path)
          /\ e.width = Len(Contents[loaded].signals[Ref(e.path)][1].bits)
    IN  hmem.known /\ hfaults = {} /\ faults = {} =>
          /\ {e.path : e \in {x \in hmem.entries : x.type = "module"}}
               = {ms[i].path : i \in DOMAIN ms}
          /\ \A e \in hmem.entries :
               e.type # "module" => \E x \in sigs : Lists(e, x)
          /\ \A x \in sigs : \E e \in hmem.entries : Lists(e, x)
          /\ \A e, f \in hmem.entries : e.path = f.path => e = f

\* In tree mode everything that is shown hangs below a shown module, up to the
\* root, whatever the depth limit cuts off.
TreeRooted ==
    hmem.known =>
      \A max_level \in 0 .. 2, m \in hmem.entries :
        LET shown == vpiml_collect_hierarchy(hmem.entries, max_level, {m.path},
                                             TRUE, FALSE).shown
        IN  /\ (max_level = 0 \/ m.level <= max_level) <=> m \in shown
            /\ \A e \in shown : Len(e.path) > 1 =>
                 \E p \in shown : p.path = SubSeq(e.path, 1, Len(e.path) - 1)
============================================================================
