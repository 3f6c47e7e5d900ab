--------------------------- MODULE EdgeCallbacks ---------------------------
(* Waiting for edges of one signal, translated from
   src/libverilua/src/vpi_callback.rs, gen/gen_callback_policy.rs and
   gen/gen_register_callback_func.rs.

   "direct" builds (libverilua_no_opt) register a value-change callback for
   every await.  "chunk" builds (Verilator) collect the awaits of a time slot
   and register one callback for up to ChunkSize tasks at the next sim time.
   "merge" builds (VCS, Icarus) also keep the callback of a chunk when all its
   tasks wait for the same edge again, and count the requests of every task.

   Tasks run when an edge resumes them and in other callbacks of the slot.
   The maps are per signal and nothing relates two signals: there is one.   *)
EXTENDS Naturals, Sequences, FiniteSets, Lists

CONSTANTS
    Tasks,
    Builds,        \* subset of {"merge", "chunk", "direct"}
    ChunkSize,     \* tasks of one callback; 16 in the code
    MaxChanges,    \* bound on the value changes in one time slot
    MergeChanges   \* the same bound in merge builds

ASSUME EdgeAssumption ==
    /\ Builds \subseteq {"merge", "chunk", "direct"}
    /\ ChunkSize \in Nat \ {0}
    /\ MaxChanges \in Nat /\ MergeChanges \in Nat

VARIABLES
    build, phase,
    value,        \* the signal; 2 stands for X and Z
    want,         \* want[t]: the edge that task t waits for, or "idle"
    fresh,        \* history: tasks that began to wait in this slot
    count,        \* count[k][t]: {posedge,negedge,edge}_cb_count, 0 for no entry
    pending,      \* pending[k]: pending_{posedge,negedge,edge}_cb_map
    chunks,       \* the callbacks that are registered
    firing,       \* those that the current value change has still to call
    changes       \* value changes in this slot

vars == <<build, phase, value, want, fresh, count, pending, chunks, firing,
          changes>>

Kinds == {"posedge", "negedge", "edge"}

\* EdgeValue::try_from and edge_type_to_value: X and Z match nothing.
Matches(k, v) ==
    \/ k = "posedge" /\ v = 1
    \/ k = "negedge" /\ v = 0
    \/ k = "edge" /\ v \in {0, 1}

Members(c) == {c.tasks[i] : i \in DOMAIN c.tasks}

Listed(s) == {s[i] : i \in DOMAIN s}

Init ==
    /\ build \in Builds
    /\ phase = "slot" /\ value = 0
    /\ want = [t \in Tasks |-> "idle"] /\ fresh = {}
    /\ count = [k \in Kinds |-> [t \in Tasks |-> 0]]
    /\ pending = [k \in Kinds |-> <<>>]
    /\ chunks = {} /\ firing = {} /\ changes = 0

\* edge_cb_slab.vacant_entry()
VacantId ==
    CHOOSE i \in 0 .. Cardinality(chunks) : \A c \in chunks : c.id # i

\* The user data of a new callback: do_register_edge_callback
EdgeCbData(k, ts) ==
    [id |-> VacantId, kind |-> k, tasks |-> ts, kept |-> FALSE]

\* do_register_edge_callback_chunk_<n>
Install(k, ts) == chunks' = chunks \cup {EdgeCbData(k, ts)}

----------------------------------------------------------------------------
\* A task that nothing has resumed in this value change waits for an edge:
\* vpiml_register_<kind>_callback.
Await(t, k) ==
    /\ phase = "slot" /\ want[t] = "idle"
    /\ want' = [want EXCEPT ![t] = k]
    /\ fresh' = fresh \cup {t}
    /\ count' = IF build = "merge" THEN [count EXCEPT ![k][t] = @ + 1] ELSE count
    /\ IF build = "direct"
       THEN Install(k, <<t>>) /\ UNCHANGED pending
       ELSE /\ pending' = [pending EXCEPT ![k] = Append(@, t)]
            /\ UNCHANGED chunks
    /\ UNCHANGED <<build, phase, value, firing, changes>>

ChangeBound == IF build = "merge" THEN MergeChanges ELSE MaxChanges

\* The simulator changes the signal and calls the value-change callbacks that
\* are registered, in any order.
Change ==
    /\ phase = "slot" /\ changes < ChangeBound
    /\ value' \in {0, 1, 2} \ {value}
    /\ firing' = {c.id : c \in {d \in chunks : Matches(d.kind, value')}}
    /\ changes' = changes + 1
    /\ phase' = IF firing' = {} THEN "slot" ELSE "change"
    /\ UNCHANGED <<build, want, fresh, count, pending, chunks>>

\* Lua tasks of callback c run: each waits again for an edge, or does not.
TasksRun(c, again) ==
    /\ want' = [t \in Tasks |-> IF t \in Members(c) THEN again[t] ELSE want[t]]
    /\ fresh' = (fresh \ Members(c)) \cup {t \in Members(c) : again[t] # "idle"}
    /\ pending' = IF build = "direct" THEN pending
                  ELSE [k \in Kinds |->
                          pending[k] \o
                          Restricted(c.tasks, {t \in Members(c) : again[t] = k})]

\* Mutant: requests made while the callback runs are not counted.
MutNotCounted(c, again) == count

\* The counts when the tasks of c have run
Requested(c, again) ==
    [k \in Kinds |-> [t \in Tasks |->
        count[k][t] + IF t \in Members(c) /\ again[t] = k THEN 1 ELSE 0]]

\* Mutant: a callback is kept when some task has asked again.
MutKeepForAny(c, left) == \E t \in Members(c) : left[t] > 0

\* No task of c has finished
AllAskAgain(c, left) == \A t \in Members(c) : left[t] > 0

\* The rest of the callback in a merge build: every task has used up one
\* request.  get_mut(task_id).unwrap() panics for a task without an entry.
Merge(c, requested) ==
    LET left == [t \in Tasks |-> requested[c.kind][t] -
                                   IF t \in Members(c) THEN 1 ELSE 0]
    IN  IF \E t \in Members(c) : requested[c.kind][t] = 0
        THEN /\ phase' = "halted"
             /\ UNCHANGED <<count, chunks>>
        ELSE /\ phase' = IF firing' = {} THEN "slot" ELSE "change"
             /\ count' = [requested EXCEPT ![c.kind] = left]
             /\ chunks' = (chunks \ {c}) \cup
                  IF AllAskAgain(c, left) THEN {[c EXCEPT !.kept = TRUE]} ELSE {}

\* The rest of the callback in the other builds: it is removed.  In a direct
\* build the task has registered its next one before.
Remove(c, again) ==
    /\ phase' = IF firing' = {} THEN "slot" ELSE "change"
    /\ UNCHANGED count
    /\ chunks' = (chunks \ {c}) \cup
         {EdgeCbData(again[t], <<t>>) :
            t \in {u \in Members(c) : build = "direct" /\ again[u] # "idle"}}

\* edge_callback, edge_callback_chunk_<n>
Fire(c) ==
    /\ phase = "change" /\ c.id \in firing
    /\ firing' = firing \ {c.id}
    /\ \E again \in [Members(c) -> Kinds \cup {"idle"}] :
         /\ TasksRun(c, again)
         /\ IF build = "merge" THEN Merge(c, Requested(c, again))
            ELSE Remove(c, again)
    /\ UNCHANGED <<build, value, changes>>

----------------------------------------------------------------------------
(* libverilua_next_sim_time_cb                                             *)

\* Mutant: the waits that a kept callback serves are registered once more.
MutRegisterAll(k) == pending[k]

\* process_cb_chunk: the waits that a kept callback serves are done with.
Unserved(k) ==
    LET kept == {c \in chunks : c.kept /\ c.kind = k /\
                                Members(c) \subseteq Listed(pending[k])}
    IN  Restricted(pending[k], Tasks \ UNION {Members(c) : c \in kept})

NextSimTime ==
    /\ phase = "slot"
    /\ phase' = "register"
    /\ pending' = [k \in Kinds |-> Unserved(k)]
    /\ fresh' = {} /\ changes' = 0
    /\ UNCHANGED <<build, value, want, count, chunks, firing>>

\* chunk_end
ChunkEnd(s) == IF Len(s) < ChunkSize THEN Len(s) ELSE ChunkSize

\* Mutant: one chunk for all tasks.
MutWholeList(s) == s

\* task_id_vec[idx..chunk_end]
NextChunk(s) == SubSeq(s, 1, ChunkEnd(s))

\* The loop of gen_callback_policy.rs, one chunk at a time
RegisterChunk(k) ==
    /\ phase = "register" /\ pending[k] # <<>>
    /\ Install(k, NextChunk(pending[k]))
    /\ pending' = [pending EXCEPT ![k] = SubSeq(@, ChunkEnd(@) + 1, Len(@))]
    /\ UNCHANGED <<build, phase, value, want, fresh, count, firing, changes>>

Registered ==
    /\ phase = "register"
    /\ \A k \in Kinds : pending[k] = <<>>
    /\ phase' = "slot"
    /\ UNCHANGED <<build, value, want, fresh, count, pending, chunks, firing,
                   changes>>

Machine ==
    \/ \E c \in chunks : Fire(c)
    \/ NextSimTime
    \/ \E k \in Kinds : RegisterChunk(k)
    \/ Registered

Next ==
    \/ Machine
    \/ \E t \in Tasks, k \in Kinds : Await(t, k)
    \/ Change

\* The simulator and libverilua go on; tasks need not wait, signals not change.
Spec == Init /\ [][Next]_vars /\ WF_vars(Machine)

----------------------------------------------------------------------------
(* Properties                                                              *)

\* Types; a callback has between one and ChunkSize tasks, so the match on
\* chunk.len() in gen_callback_policy.rs never gets to unreachable!().
TypeOK ==
    /\ build \in {"merge", "chunk", "direct"}
    /\ phase \in {"slot", "change", "register", "halted"}
    /\ value \in {0, 1, 2}
    /\ want \in [Tasks -> Kinds \cup {"idle"}]
    /\ fresh \subseteq Tasks
    /\ count \in [Kinds -> [Tasks -> Nat]]
    /\ pending \in [Kinds -> Seq(Tasks)]
    /\ chunks \subseteq [id : Nat, kind : Kinds, tasks : Seq(Tasks),
                         kept : BOOLEAN]
    /\ \A c \in chunks : Len(c.tasks) \in 1 .. ChunkSize
    /\ firing \subseteq Nat
    /\ changes \in 0 .. ChangeBound

\* The callbacks that resume task t at edge k
Serving(t, k) == {c \in chunks : c.kind = k /\ t \in Members(c)}

\* Between value changes a wait is registered in one place: with one callback
\* or once in the map of the slot, or in both when all tasks of a kept callback
\* are in the map.  A task that does not wait for an edge is registered nowhere.
WaitsCovered ==
    phase = "slot" => \A t \in Tasks, k \in Kinds :
      LET inMap == {i \in DOMAIN pending[k] : pending[k][i] = t}
      IN  IF want[t] = k
          THEN /\ Cardinality(Serving(t, k)) <= 1 /\ Cardinality(inMap) <= 1
               /\ Serving(t, k) # {} \/ inMap # {}
               /\ inMap # {} => \A c \in Serving(t, k) :
                    c.kept /\ Members(c) \subseteq Listed(pending[k])
          ELSE Serving(t, k) = {} /\ inMap = {}

\* With merge_cb the count of a task is the number of requests a callback or
\* the map still has to serve, so that unwrap() finds an entry and the callback
\* is removed neither early nor late.
CountExact ==
    phase # "halted" => \A t \in Tasks, k \in Kinds :
        count[k][t] = IF build = "merge" /\ want[t] = k THEN 1 ELSE 0

\* The tasks that the current value change has still to resume
Due == UNION {Members(c) : c \in {d \in chunks : d.id \in firing}}

\* The callbacks resume the tasks that EdgeWaits says.
Abs == INSTANCE EdgeWaits WITH
         due <- Due,
         halted <- (phase = "halted")

ImplementsEdgeWaits == Abs!Spec
=============================================================================
