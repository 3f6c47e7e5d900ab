----------------------------- MODULE PutValue -----------------------------
(* Posted (deferred) and immediate writes of HDL values, translated from
   src/libverilua/src: complex_handle.rs, vpi_access/value_setters.rs,
   verilua_env.rs, vpi_callback.rs and verilator_helper.rs.

   set() and force() only queue a handle.  cbReadWriteSynch callbacks flush the
   queue with vpi_put_value: one that is registered at every next sim time,
   one that a write posted after the flush registers again, and every
   await_rw() callback before it resumes its task.

   A time slot runs through the phases timed, (eval, rw, settle)+, ro.  Lua
   tasks run in any of them; which task calls a setter is left open, Tasks are
   the ones that call await_rw().  On VCS and Icarus ("bak" builds) a
   vpi_put_value that changes a signal runs its value-change callbacks at once,
   so tasks write while the flush iterates over the queue; Verilator runs them
   after the flush.  Builds with inertial_put, and wave_vpi, which never
   flushes, are left out.

   A value stands for all words of a signal.                               *)
EXTENDS Integers, Sequences

CONSTANTS
    Handles, Tasks, Values,
    Formats,            \* value formats used, subset of {"vector", "str"}
    Builds,             \* subset of {"verilator", "bak"}
    MaxWrites,          \* bound on the writes in one time slot
    ReentrantRewrites   \* tasks that a flush runs write to handles that the
                        \* flush, or such a task, has queued

ASSUME PutAssumption ==
    /\ Formats \subseteq {"vector", "str"} /\ Formats # {} /\ Values # {}
    /\ Builds \subseteq {"verilator", "bak"}
    /\ MaxWrites \in Nat
    /\ ReentrantRewrites \in BOOLEAN
    /\ "none" \notin Tasks /\ "flush" \notin Tasks

VARIABLES
    build, phase,
    hdl,          \* the value put last, by this library, on each signal
    put,          \* put_value_flag, put_value_format and the value buffered
    queue,        \* main: hdl_put_value, bak: hdl_put_value_bak,
                  \* freed: what is left in the memory of hdl_put_value behind
                  \* its length while a flush iterates over it
    pos,          \* next entry of the flush; 0 when none is running
    running,      \* the cbReadWriteSynch callback in progress
    awake,        \* that callback has resumed a Lua task
    rw_phase_passed, rw_cb_re_registered,
    flushes,      \* flush callbacks registered for this pass and for the next
    await,        \* await[t]: where the await_rw callback of task t is
    stale,        \* stale[t]: flush_epoch has moved since t registered it
    nst,          \* next sim time callbacks: due now, and registered
    unsettled,    \* vpi_put_value calls, of a flush or immediate ones, since
                  \* the design was last evaluated
    writes        \* writes in this time slot

vars == <<build, phase, hdl, put, queue, pos, running, awake, rw_phase_passed,
          rw_cb_re_registered, flushes, await, stale, nst, unsettled, writes>>

slotVars == <<rw_phase_passed, rw_cb_re_registered, flushes, nst>>

Flags == {"Set", "Force", "Release"}

NoPut == [flag |-> "None", format |-> CHOOSE f \in Formats : TRUE,
          value |-> CHOOSE v \in Values : TRUE]

\* The posted writes, as PostedWrites sees them
Posted == [h \in Handles |->
             IF put[h].flag = "None" THEN [flag |-> "None"]
             ELSE [flag |-> put[h].flag, value |-> put[h].value]]

Abs == INSTANCE PostedWrites WITH
         posted <- Posted,
         calls <- writes,
         halted <- (phase = "halted")

Init ==
    /\ build \in Builds
    /\ phase = "timed"
    /\ hdl \in [Handles -> Values]
    /\ put = [h \in Handles |-> NoPut]
    /\ queue = [main |-> <<>>, bak |-> <<>>, freed |-> <<>>]
    /\ pos = 0 /\ running = "none" /\ awake = FALSE
    /\ rw_phase_passed = FALSE /\ rw_cb_re_registered = FALSE
    /\ flushes = [now |-> 0, later |-> 0]
    /\ await = [t \in Tasks |-> "none"]
    /\ stale = [t \in Tasks |-> FALSE]
    /\ nst = [due |-> 0, registered |-> IF build = "bak" THEN 1 ELSE 0]
    /\ unsettled = {} /\ writes = 0

----------------------------------------------------------------------------
(* Queues                                                                  *)

InSeq(s, h) == \E i \in DOMAIN s : s[i] = h

IndexOf(s, h) ==
    CHOOSE i \in DOMAIN s : s[i] = h /\ \A j \in DOMAIN s : s[j] = h => i <= j

Without(s, h) ==
    LET i == IndexOf(s, h)
    IN  SubSeq(s, 1, i - 1) \o SubSeq(s, i + 1, Len(s))

Queued(h) == InSeq(queue.main, h) \/ InSeq(queue.bak, h)

\* Mutant: the old entry of a handle stays when it is queued again.
MutKeepStaleEntry(h) == queue

\* Removes the entry of h.  Vec::remove moves the entries behind it, and the
\* slot of the last one keeps its content for a flush that is iterating.
Unqueue(h) ==
    IF InSeq(queue.main, h)
    THEN [queue EXCEPT
            !.main = Without(@, h),
            !.freed = IF pos = 0 THEN @
                      ELSE <<queue.main[Len(queue.main)]>> \o @]
    ELSE IF InSeq(queue.bak, h) THEN [queue EXCEPT !.bak = Without(@, h)]
    ELSE queue

\* The entries that the iterator of the flush walks over
Memory == queue.main \o queue.freed

Enqueue(q, h) ==
    IF build = "bak" /\ pos > 0 THEN [q EXCEPT !.bak = Append(@, h)]
    ELSE [q EXCEPT !.main = Append(@, h)]

----------------------------------------------------------------------------
(* Lua tasks write.  They run in the timed, eval and settle phases (delay,
   next sim time and value-change callbacks), when an await_rw callback has
   resumed one, and on bak builds when a flush has changed a signal.       *)

LuaRuns ==
    \/ phase = "timed" /\ (build = "bak" \/ nst.due = 0)
    \/ phase \in {"eval", "settle"}
    \/ phase = "rw" /\ awake

MayWrite(h) ==
    /\ LuaRuns /\ writes < MaxWrites
    /\ \/ pos = 0 \/ ReentrantRewrites
       \/ put[h].flag = "None" /\ ~ InSeq(queue.main, h)

\* Mutant: a value posted after the flush waits for the next slot.
MutNoReRegister == UNCHANGED <<rw_cb_re_registered, flushes>>

\* The re-registration at the end of do_push_hdl_put_value
ReRegister ==
    LET again == rw_phase_passed /\ ~ rw_cb_re_registered
    IN  /\ rw_cb_re_registered' = (rw_cb_re_registered \/ again)
        /\ flushes' = [flushes EXCEPT !.later = IF again THEN @ + 1 ELSE @]

\* A pending force keeps a set() out.
Overridden(h, flag) == put[h].flag = "Force" /\ flag = "Set"

\* A deferred setter: try_put_value, then the value, then the queue.  The
\* assertion of try_put_value fails when the flag is set and no entry is found.
PostWrite(h, flag, format, v) ==
    /\ MayWrite(h) /\ format \in Formats
    /\ writes' = writes + 1
    /\ IF Overridden(h, flag)
       THEN UNCHANGED <<phase, put, queue, rw_cb_re_registered, flushes>>
       ELSE IF put[h].flag # "None" /\ ~ Queued(h)
       THEN /\ phase' = "halted"
            /\ UNCHANGED <<put, queue, rw_cb_re_registered, flushes>>
       ELSE /\ put' = [put EXCEPT ![h] = [flag |-> flag, format |-> format,
                                          value |-> v]]
            /\ queue' = Enqueue(IF put[h].flag = "None" THEN queue
                                ELSE Unqueue(h), h)
            /\ ReRegister
            /\ UNCHANGED phase
    /\ UNCHANGED <<build, hdl, pos, running, awake, rw_phase_passed, await,
                   stale, nst, unsettled>>

\* vpi_put_value at once
ImmWrite(h, flag, buffered, v) ==
    /\ MayWrite(h)
    /\ writes' = writes + 1
    /\ hdl' = [hdl EXCEPT ![h] = Abs!Drive(@, flag, v)]
    /\ put' = IF buffered /\ put[h].flag # "None" /\ put[h].format = "vector"
              THEN [put EXCEPT ![h].value = v] ELSE put
    /\ unsettled' = unsettled \cup {"imm"}
    /\ UNCHANGED <<build, phase, queue, pos, running, awake, await, stale,
                   slotVars>>

(* The setters, each in a deferred and an immediate form: the flag and the
   format of the write, and whether the immediate form with that flag goes
   through the buffer of the handle, which a posted vector write shares.    *)

Setter(flags, format, buffered) ==
    {[flag |-> f, format |-> format, buffered |-> f \in buffered] : f \in flags}

Plain == {"Set", "Force"}

SetValue == Setter(Plain, "vector", {"Set"})

SetValue64 == Setter(Plain, "vector", Plain)

SetValueMulti == Setter(Plain, "vector", Plain)

SetValueMultiBeat == Setter(Plain, "vector", {})

\* vpiml_<action>_value_{hex,bin,dec}_str
SetValueBaseStr == Setter(Plain, "str", {})

\* vpiml_<action>_value_str: a prefix of the string names the base.
SetValueStr == Setter(Plain, "str", {})

\* A random number, or one of the values of a pool
SetShuffled == Setter({"Set"}, "vector", {"Set"})
                 \cup Setter({"Set"}, "str", {})

Setters == SetValue \cup SetValue64 \cup SetValueMulti \cup SetValueMultiBeat
             \cup SetValueBaseStr \cup SetValueStr \cup SetShuffled

Write(h) ==
    \E s \in Setters, v \in Values :
        \/ PostWrite(h, s.flag, s.format, v)
        \/ ImmWrite(h, s.flag, s.buffered, v)

SetFreeze(h) ==
    PostWrite(h, "Force", "str", hdl[h]) \/ ImmWrite(h, "Force", FALSE, hdl[h])

ReleaseValue(h) == PostWrite(h, "Release", "vector", hdl[h])

\* Mutant: the flag of the pending write stays set.
MutReleaseKeepsFlag(h) ==
    /\ MayWrite(h)
    /\ writes' = writes + 1
    /\ queue' = Unqueue(h)
    /\ unsettled' = unsettled \cup {"imm"}
    /\ UNCHANGED <<build, phase, hdl, put, pos, running, awake, await, stale,
                   slotVars>>

\* The entry goes, the flag is cleared and the signal is released at once.
ReleaseImmValue(h) ==
    /\ MayWrite(h)
    /\ writes' = writes + 1
    /\ queue' = Unqueue(h)
    /\ put' = IF Queued(h) THEN [put EXCEPT ![h] = NoPut] ELSE put
    /\ unsettled' = unsettled \cup {"imm"}
    /\ UNCHANGED <<build, phase, hdl, pos, running, awake, await, stale,
                   slotVars>>

\* vpiml_register_rw_synch_callback
AwaitRw(t) ==
    /\ LuaRuns /\ await[t] = "none"
    /\ await' = [await EXCEPT ![t] = "later"]
    /\ stale' = [stale EXCEPT ![t] = FALSE]
    /\ UNCHANGED <<build, phase, hdl, put, queue, pos, running, awake,
                   slotVars, unsettled, writes>>

\* rd_phase_active, while a cbReadOnlySynch callback runs tasks
RdPhaseActive == phase = "ro"

\* Every setter panics then before it does anything.
WriteInReadOnly ==
    /\ RdPhaseActive
    /\ phase' = "halted"
    /\ UNCHANGED <<build, hdl, put, queue, pos, running, awake, await, stale,
                   slotVars, unsettled, writes>>

----------------------------------------------------------------------------
(* The flush, run by a callback of the pass                                *)

\* Mutant: the epoch moves only when the flush callback commits values.
MutEpochOfFlushOnly(c) ==
    /\ pos' = IF queue.main = <<>> THEN 0 ELSE 1
    /\ stale' = IF queue.main = <<>> \/ c # "flush" THEN stale
                ELSE [t \in Tasks |-> await[t] # "none"]

\* The beginning of apply_pending_put_values
BeginApply(c) ==
    /\ pos' = IF queue.main = <<>> THEN 0 ELSE 1
    /\ stale' = IF queue.main = <<>> THEN stale ELSE [t \in Tasks |-> await[t] # "none"]

Fire(c) ==
    /\ phase = "rw" /\ running = "none"
    /\ running' = c /\ awake' = FALSE
    /\ BeginApply(c)
    /\ UNCHANGED <<build, phase, hdl, put, queue, rw_phase_passed,
                   rw_cb_re_registered, nst, unsettled, writes>>

\* Mutant: the flush runs although no callback is registered.
MutFireUnregistered ==
    /\ flushes' = [flushes EXCEPT !.now = @ - 1]
    /\ Fire("flush")
    /\ UNCHANGED await

FireFlush ==
    /\ flushes.now > 0
    /\ flushes' = [flushes EXCEPT !.now = @ - 1]
    /\ Fire("flush")
    /\ UNCHANGED await

FireAwait(t) ==
    /\ await[t] = "now"
    /\ Fire(t)
    /\ UNCHANGED <<flushes, await>>

\* Mutant: the flag is read but not taken.
MutNoTake ==
    /\ phase = "rw" /\ pos \in 1 .. Len(Memory)
    /\ LET h == Memory[pos]
       IN  /\ hdl' = [hdl EXCEPT ![h] = Abs!Drive(@, put[h].flag, put[h].value)]
           /\ awake' = (build = "bak" /\ hdl' # hdl)
    /\ pos' = pos + 1
    /\ unsettled' = unsettled \cup {"flush"}
    /\ UNCHANGED <<build, phase, put, queue, running, slotVars, await, stale,
                   writes>>

\* One round of the loop of do_apply_pending_put_values.  unwrap_unchecked on
\* a flag that is None is undefined behaviour: any flag can be used, with the
\* value of an earlier write.
ApplyOne ==
    /\ phase = "rw" /\ pos \in 1 .. Len(Memory)
    /\ LET h == Memory[pos]
           none == put[h].flag = "None"
       IN  \E flag \in IF none THEN Flags ELSE {put[h].flag},
              v \in IF none THEN Values ELSE {put[h].value} :
             /\ hdl' = [hdl EXCEPT ![h] = Abs!Drive(@, flag, v)]
             /\ put' = [put EXCEPT ![h] = NoPut]
             /\ awake' = (build = "bak" /\ hdl' # hdl)
    /\ pos' = pos + 1
    /\ unsettled' = unsettled \cup {"flush"}
    /\ UNCHANGED <<build, phase, queue, running, slotVars, await, stale, writes>>

\* The queue is cleared and takes over the backup; apply_pending_put_values
\* goes on while it is not empty.
NextRound ==
    /\ phase = "rw" /\ pos = Len(Memory) + 1
    /\ queue' = [main |-> queue.bak, bak |-> <<>>, freed |-> <<>>]
    /\ pos' = IF queue.bak = <<>> THEN 0 ELSE 1
    /\ awake' = FALSE
    /\ UNCHANGED <<build, phase, hdl, put, running, slotVars, await, stale,
                   unsettled, writes>>

\* Mutant: every flush registers the next sim time callback.
MutAlwaysRegister ==
    /\ running = "flush" /\ pos = 0 /\ phase = "rw"
    /\ nst' = IF build = "bak" THEN [nst EXCEPT !.registered = @ + 1] ELSE nst
    /\ rw_phase_passed' = TRUE
    /\ rw_cb_re_registered' = FALSE
    /\ running' = "none"
    /\ UNCHANGED <<build, phase, hdl, put, queue, pos, awake, flushes, await,
                   stale, unsettled, writes>>

\* The rest of libverilua_flush_put_values
FlushDone ==
    /\ running = "flush" /\ pos = 0 /\ phase = "rw"
    /\ nst' = IF build = "bak" /\ ~ rw_phase_passed
              THEN [nst EXCEPT !.registered = @ + 1] ELSE nst
    /\ rw_phase_passed' = TRUE
    /\ rw_cb_re_registered' = FALSE
    /\ running' = "none"
    /\ UNCHANGED <<build, phase, hdl, put, queue, pos, awake, flushes, await,
                   stale, unsettled, writes>>

\* Mutant: a deferred callback keeps its old snapshot of the epoch.
MutKeepSnapshot(t) ==
    /\ running = t /\ pos = 0 /\ phase = "rw"
    /\ await' = [await EXCEPT ![t] = IF stale[t] THEN "later" ELSE "none"]
    /\ awake' = ~ stale[t]
    /\ running' = "none"
    /\ UNCHANGED <<build, phase, hdl, put, queue, pos, slotVars, stale,
                   unsettled, writes>>

\* The rest of rw_synch_callback: defer the wakeup or resume the task
AwaitDone(t) ==
    /\ running = t /\ pos = 0 /\ phase = "rw"
    /\ await' = [await EXCEPT ![t] = IF stale[t] THEN "later" ELSE "none"]
    /\ stale' = [stale EXCEPT ![t] = FALSE]
    /\ awake' = ~ stale[t]
    /\ running' = "none"
    /\ UNCHANGED <<build, phase, hdl, put, queue, pos, slotVars, unsettled,
                   writes>>

----------------------------------------------------------------------------
(* The time slots of the simulator                                         *)

\* libverilua_next_sim_time_cb, as far as writes are concerned
NextSimTime ==
    /\ phase = "timed" /\ nst.due > 0
    /\ nst' = [nst EXCEPT !.due = @ - 1]
    /\ rw_phase_passed' = FALSE
    /\ rw_cb_re_registered' = FALSE
    /\ flushes' = [flushes EXCEPT !.later = @ + 1]
    /\ UNCHANGED <<build, phase, hdl, put, queue, pos, running, awake, await,
                   stale, unsettled, writes>>

\* The design is evaluated and value-change callbacks run.
Evaluate ==
    /\ \/ phase = "timed" /\ nst.due = 0
       \/ phase = "eval" /\ unsettled # {}
    /\ phase' = "eval" /\ unsettled' = {}
    /\ UNCHANGED <<build, hdl, put, queue, pos, running, awake, slotVars,
                   await, stale, writes>>

\* The callbacks of cbReadWriteSynch registered so far are called.
StartPass ==
    /\ phase = "eval" /\ unsettled = {}
    /\ phase' = "rw"
    /\ flushes' = [now |-> flushes.now + flushes.later, later |-> 0]
    /\ await' = [t \in Tasks |-> IF await[t] = "later" THEN "now" ELSE await[t]]
    /\ UNCHANGED <<build, hdl, put, queue, pos, running, awake,
                   rw_phase_passed, rw_cb_re_registered, stale, nst,
                   unsettled, writes>>

EndPass ==
    /\ phase = "rw" /\ running = "none"
    /\ flushes.now = 0 /\ \A t \in Tasks : await[t] # "now"
    /\ phase' = "settle" /\ awake' = FALSE
    /\ UNCHANGED <<build, hdl, put, queue, pos, running, slotVars, await,
                   stale, unsettled, writes>>

\* verilator_has_pending_put_values
HasPendingPutValues == rw_phase_passed /\ queue.main # <<>>

\* Whether another pass follows.  Verilator looks at values, other simulators
\* at the callbacks that are registered.
OnceMore ==
    \/ unsettled # {}
    \/ build = "verilator" /\ HasPendingPutValues
    \/ build = "bak" /\ (flushes.later > 0 \/ \E t \in Tasks : await[t] = "later")

Settled ==
    /\ phase = "settle"
    /\ phase' = IF OnceMore THEN "eval" ELSE "ro"
    /\ unsettled' = {}
    /\ UNCHANGED <<build, hdl, put, queue, pos, running, awake, slotVars,
                   await, stale, writes>>

\* Time advances.
NextSlot ==
    /\ phase = "ro"
    /\ phase' = "timed" /\ writes' = 0
    /\ nst' = [due |-> IF build = "verilator" THEN 1 ELSE nst.registered,
               registered |-> 0]
    /\ UNCHANGED <<build, hdl, put, queue, pos, running, awake,
                   rw_phase_passed, rw_cb_re_registered, flushes, await, stale,
                   unsettled>>

Machine ==
    \/ FireFlush \/ ApplyOne \/ NextRound \/ FlushDone
    \/ \E t \in Tasks : FireAwait(t) \/ AwaitDone(t)
    \/ NextSimTime \/ Evaluate \/ StartPass \/ EndPass \/ Settled \/ NextSlot

Lua ==
    \/ \E h \in Handles : Write(h) \/ SetFreeze(h) \/ ReleaseValue(h)
                                \/ ReleaseImmValue(h)
    \/ \E t \in Tasks : AwaitRw(t)
    \/ WriteInReadOnly

Next == Machine \/ Lua

\* The simulator and libverilua make progress; tasks need not do anything.
Spec == Init /\ [][Next]_vars /\ WF_vars(Machine)
----------------------------------------------------------------------------
(* Properties                                                              *)

\* The entries that are still to be written
Unapplied == SubSeq(queue.main, IF pos = 0 THEN 1 ELSE pos, Len(queue.main))

TypeOK ==
    /\ build \in {"verilator", "bak"}
    /\ phase \in {"timed", "eval", "rw", "settle", "ro", "halted"}
    /\ hdl \in [Handles -> Values]
    /\ put \in [Handles -> [flag : Flags \cup {"None"}, format : Formats,
                            value : Values]]
    /\ queue \in [main : Seq(Handles), bak : Seq(Handles), freed : Seq(Handles)]
    /\ pos \in Nat /\ running \in Tasks \cup {"none", "flush"}
    /\ awake \in BOOLEAN /\ unsettled \subseteq {"imm", "flush"}
    /\ rw_phase_passed \in BOOLEAN /\ rw_cb_re_registered \in BOOLEAN
    /\ flushes \in [now : Nat, later : Nat]
    /\ await \in [Tasks -> {"none", "now", "later"}]
    /\ stale \in [Tasks -> BOOLEAN]
    /\ nst \in [due : Nat, registered : Nat]
    /\ writes \in 0 .. MaxWrites

\* A handle with a pending write is in one of the two queues: the assertion of
\* try_put_value (complex_handle.rs:283) never fails.
FlagIsQueued ==
    \A h \in Handles : put[h].flag # "None" => Queued(h)

\* A handle is waiting to be written exactly when its put_value_flag is set,
\* and then it is in line once: no write is lost by the clear() behind the
\* flush, none is applied twice and unwrap_unchecked finds a flag.
QueueExact ==
    LET line == Unapplied \o queue.bak
    IN  /\ \A h \in Handles : put[h].flag # "None" <=> InSeq(line, h)
        /\ \A i, j \in DOMAIN line : line[i] = line[j] => i = j
        /\ queue.freed = <<>>

\* Once a slot has had its flush, every value posted before the read-only
\* phase has reached the design in that phase, so tasks there see it.
FlushedBeforeReadOnly ==
    phase = "ro" /\ rw_phase_passed => queue.main = <<>> /\ queue.bak = <<>>

\* The flushes keep going, one chain of them: outside of Verilator there is
\* always one next sim time callback registered, or the flush that registers
\* it is still to come.
OneChain ==
    build = "bak" /\ phase # "halted" =>
      LET firstFlush == IF rw_phase_passed THEN 0 ELSE
            IF flushes.now + flushes.later > 0 \/ running = "flush" THEN 1 ELSE 0
          old == nst.due > 0
      IN  IF old THEN nst.due = 1 /\ nst.registered = 0
          ELSE nst.registered + firstFlush = 1

\* await_rw resumes a task only when everything posted before it is in the
\* design and the design has been evaluated since the values were flushed.
AwaitRwSeesValues ==
    [][\A t \in Tasks : running = t /\ awake' /\ ~ awake /\ running' = "none"
         => Unapplied = <<>> /\ "flush" \notin unsettled]_vars

\* An await_rw callback is not deferred for ever.
AwaitRwResumes ==
    \A t \in Tasks : await[t] # "none" ~> (await[t] = "none" \/ phase = "halted")

\* Posted writes are committed as PostedWrites says.
ImplementsPostedWrites == Abs!Spec
=============================================================================
