# Verilua in TLA+

Verilua drives hardware simulators (Verilator, VCS, Icarus Verilog, Xcelium, or a
recorded waveform) from Lua. Tests are Lua coroutines. A Lua scheduler
runs them, a Rust library (`src/libverilua`) connects it to the simulator through VPI
callbacks. This directory models the parts of Verilua whose correctness depends on
the order of events, checks them with TLC and proves their central properties with
TLAPS.

## Inventory

| Part | State | Operations | What is hard |
|---|---|---|---|
| Task scheduler (`src/src/gen/gen_scheduler.lua`, the template of the six generated schedulers) | coroutine, name, fired status of every task; tasks to be forgotten; removal flags and counter; waiters of every event; events sent; current task | append, wakeup, try_wakeup, remove, send, wait, new and removed event handles, schedule_task, schedule_all_tasks | schedule_task is re-entrant: bodies and wake loops call it while outer activations iterate over the same lists |
| await API (`LuaSchedulerCommonV2.lua`) | none | one VPI callback for the current task, then a yield | relies on `curr_task_id` after any nesting |
| fork, jfork, join, join_any, task_group (`init.lua`) | entries in waiter lists | create and join tasks | read `curr_wakeup_event_id` after a yield, edit waiter lists directly |
| Lifecycle (`Verilua.lua`, `verilua_env.rs`) | initialized, finalized, got_error | start callback, sim_event, finalize | finalize from three places; errors inside nested activations |
| VPI callbacks (`vpi_callback.rs`) | pending edge callbacks, merged counts, phase flags | register and fire time, edge, read-write, read-only, next-time callbacks | order of callbacks within a time step is the simulator's |
| Pending writes (`verilua_env.rs`, `complex_handle.rs`, `value_setters.rs`) | two queues of handles, a flag per handle, flush epoch | set, force, release, immediate forms, flush | writes queued by callbacks that the flush itself triggers |
| NativeClock (`native_clock.rs`, `NativeClock.lua`) | one callback chain per instance, a global registry of driven signals | new, start, stop, restart, destroy, toggle | callbacks outliving their instance, two drivers of one signal, failing registrations |
| Queues, id pool, BitVec (`utils/`) | bounded containers, bit strings | push, pop, alloc, release, arithmetic | limits and wrap-around |
| Verilator main loop (`verilator_main.cpp`, `verilator_helper.rs`) | position in the evaluation of a time step | evaluate, call callbacks, repeat | decides from pending writes whether the step is over |
| Waveform backend (`wave_vpi`) | the wave in memory, caches of names and signals, two cache files | open, look up, read, iterate, finalize | files of an earlier process, crashes while saving, waves dumped anew |
| Hierarchy (`hierarchy_collect.rs`) | the entries in memory and in a cache file | walk, load, save, query | aliased signals, stale files |
| Handles, database bindings, coverage, SystemVerilog tools | files, accessors | - | no interleaving of their own |

`PROJECT.json` lists every part with its sources, what is modelled of it, and the
hazards of the code with the properties that cover them.

The parts meet as follows. The simulator calls a VPI callback; the callback calls
`sim_event(task_id)`; the scheduler resumes that task, whose body calls scheduler
operations (which may resume further tasks before they return), registers its next
wakeup and yields; the events sent meanwhile are delivered; control returns to the
simulator. Nothing runs in parallel: all difficulty comes from nesting and from the
order in which callbacks arrive.

## Scheduler

`Scheduler.tla` models the scheduler in NORMAL mode, without the optional SAFETY
assertions. Its variables are the fields of the Lua object (the comment at each
variable names the field) together with

- `stack`, the Lua call stack reduced to the activations of `schedule_task`: the
  position inside the function (`pc`), `old_curr_task_id`, and for a wake loop the
  index into `pending_wakeup_event` (`pos`) and the rest of the snapshot of waiters
  (`snap`). Only the top activation takes steps.
- `co`, the state of the coroutine in `task_coroutine_map`. A body whose task was
  given a new coroutine is `stale`: it goes on, but its end concerns the old coroutine.
- `cbs`, the one-shot VPI callbacks outstanding per task. The simulator may fire any of
  them whenever the stack is empty (`SimEvent`).
- `owed` and `taken`, history variables that no action reads: the waiters of sent
  events that were not resumed yet, and the entries of `pending_wakeup_event` delivered.

The steps of `schedule_task` are `SkipRemoved`, `Resume` or `ResumeFails` (up to
`coro_resume`), `Yield` or `End` (from its return to the wake loop), `TakeEvent`,
`WakeWaiter`, `WakeDone` (the loop). User code is not modelled: the
body of the top activation may call any operation in any order (`Body`), and yields,
returns, calls `exit_task` or fails. An operation whose assertion fails is an error of
the body (`TaskError`), which ends the simulation. `pairs()` over a table that grows
visits or misses the new keys (`Walked`).

Abstractions: task names and bodies are left out, so are execution counts; all awaits
on the simulator are one action. Not modelled: `always_await_posedge_hdl` (a callback
that stays registered) and `await_noop` outside `join`; the STEP and EDGE_STEP modes.

The bounds are constants: depth of activations that user code creates, sends not yet
delivered, length of a waiter list, callbacks per task, value of the removal counter.
They appear only in guards of operations of user code.

| Run | Instance | Shows |
|---|---|---|
| `sched_events` | 3 tasks, 2 events, 3 activations, 2 sends; no removal | `NoLostWakeup`, `WakeSourceUnique`, `RunningTasksExact`, `ResumedNotForgotten` |
| `sched_remove` | 2 tasks that fail or are removed, up to 3 removals at a time, 1 event re-created, 2 activations, 2 sends | `TypeOK`, `CurrTaskIsInnermost`, `RemovalCounted` |
| `sched_rewake` | violation | `WaitQueuedForNextSend` |
| `sched_skip` | violation | `StartNotSkipped` |

Three tasks and three activations are the least at which a wake loop is nested in
another while a third task waits again; two sends are the least at which a list grows
under an iteration. Removal is what makes callbacks and flags outlive their coroutine. Three
removals flag both tasks and count one of them twice, which is how the counter and the set
of flags drift apart (`gen_scheduler.lua:244`). The invariants of both runs are also proved
for all bounds (see Proofs).

`new_event_hdl` with an id in use replaces the waiter list (`gen_scheduler.lua:710`): the
waiters are lost. Whether they should be is not said anywhere. In `Ops` it is the operation
`"renew_event"`; without it an event is re-created only while nobody waits for it.
`NoLostWakeup` is about programs without `"renew_event"` (`sched_events`, and in the proofs);
`sched_remove` has it.

 Event ids are symmetric. Without removal no action reads `task_event`,
and none ever reads `taken`: the view of `sched_events` drops both.
`WakeSourceUnique`, `RunningTasksExact` and `ResumedNotForgotten` hold only while no
task is removed: `remove_task` does not cancel callbacks, so a
removed and restarted task has two wake sources.

Deadlock is not checked: the simulation may end with every task finished, or every task
waiting for an event nobody sends. No fairness is assumed: all properties are safety
properties. How often user code can make a wake loop longer is up to it, and in the runs up
to the bound on sends, so that the end of a loop is not claimed.

## Join

`Join.tla` extends `Scheduler` with `fork`, `jfork`, `join`, `join_any` and `task_group`.
The event of a `jfork` is its handle; `child` names its task. `join[t]` holds the locals
of the API call that task `t` is inside of. A task resumed inside of a join takes the
step of the join first (`OneResumed`, `JoinResumed`, `AnyResumed`), user code comes after
it; nothing can run in between, because only the top activation takes steps. The end of a
joinable task (`JforkEnds`) is the end of `Scheduler`, with the send and the removal of
the event before it. `TaskGroup:fork` is two steps, `GroupFork` and `GroupInsert`, since
the forked task runs before its handle is tracked; `JoinGroup` is one round of the loop of
`TaskGroup:join_all`. A handle can be joined once `jfork` has returned it (`Known`).
`group_of` is a history variable, and says which members of a group hold `tg`.

| Run | Instance | Shows |
|---|---|---|
| `join` | 3 tasks, 2 handles with up to 2 waiters, 1 other event, 3 activations, 2 sends | `JoinTypeOK`, `JoinWokenByHandle`, `JoinNotStuck`, `JoinAfterEnd`, `GroupComplete` |

Three tasks are enough for two joiners of a third, and for an owner with two members, one of
them forked by the other while the owner waits; a second send is what nests a wake loop in
the delivery of a handle. Handles that have finished are joined like others. The properties
are safety properties: `JoinNotStuck` speaks of every state in which the scheduler has
returned to the simulator.

What a join assumes of its callers is in three constants. TLC shows what happens otherwise:

- `Sharing`: who may wait for a handle for which another task waits. In the run (`"joins"`) it
  is every `join`, of one handle or of several. The later of two joiners can then find
  `curr_wakeup_event_id` nil and fail the assertion at `init.lua:806`: the first one sends an
  event and yields, and the nested wake loop sets it to nil. This happens in the run, and
  `JoinWokenByHandle` says that such a join fails rather than count a wakeup that is not its
  own: whoever is resumed in a join finds no event at all, or a handle it still waits for
  whose task has ended. `JoinAssertionsHold`, that nobody fails, is violated under `"joins"`
  and proved under `"none"`, one waiter per handle. `"all"` lets `join_any` share handles as
  well. With two handles the properties hold there; `join_any` staying in the snapshot of an
  outer loop (`init.lua:869`) takes three, which is beyond the run.
- `PendingInJoin`: whether `join({...})` may get the handle of a task that has ended while its
  event is still in `pending_wakeup_event`; `FALSE` in the run. With `TRUE`,
  `JoinWokenByHandle` fails, and so does `JoinAfterEnd` when checked alone: `join({h1, h2})`
  registers the caller with h1 although its task has ended. Called by a task that h1 has just
  woken and that has sent an event, it is woken by the nested loop, which starts at h1 again,
  and returns before the task of h2 has ended. Handles whose event has been delivered do no
  harm, and `TaskGroup:join_all` leaves finished handles out by itself.
- `MaxUserWaiters` bounds the waiters of events that are not handles.

A task has ended when its function has returned. If one that left through `exit_task` counted
as well, `JoinNotStuck` would fail: the event of a joinable task is sent behind its function
(`init.lua:717`), and a join of it does not return.

## NativeClock

`NativeClock.tla` models the Rust instances, their Lua wrappers and the registry
`ACTIVE_SIGNALS`. `timers` is the simulator's side: the callbacks that will run with the
instance as `user_data`; `cb_handle` is what the instance believes. `Tick` lets time
pass once no callback is due. `held` is a history variable: the time since the signal was
last set. The pending-write queue between the toggle and the signal is abstracted to
setting the level. The toggle callback runs no Lua code, hence it is one step
and the flags `in_callback` and `destroy_pending` are false between steps.
`restart` is `stop` followed by `start`. The conversion of time units is left out: every
period and high time up to the bound is tried, and the checks of `start` are modelled.

| Run | Instance | Shows |
|---|---|---|
| `clock` | 2 instances on one signal, periods to 4, registrations may fail | `TypeOK`, `NoDanglingCallback`, `OneDriver`, `RegistryExact`, `PhaseLength`, `KeepsToggling` |
| `clock_two_drivers` | 3 instances, `DestroyForeign` | violation of `OneDriver` |

Instances are destroyed while they run and, as documented (`NativeClock.lua:13-14`), after
`stop()`. `DestroyForeign` is the one thing left out of `clock`: user code destroys an
instance that does not run while another one drives its signal.

Two instances are what a conflict takes; a period of 4 has duty cycles of 1, 2 and 3
steps, so that a swapped or shifted delay shows. `KeepsToggling` assumes weak fairness of
the simulator (time advances and callbacks that are due run), which is what an event-driven
simulator does. Deadlock is not checked: without a running clock nothing need happen.

## PutValue

`PutValue.tla` models how values reach the design: the queues `hdl_put_value` and
`hdl_put_value_bak`, the `put_value_*` fields of every handle (`put`), the flush and the
phase flags. The simulator is modelled as far as libverilua sees it: a time slot has the
phases `timed`, then `eval`, `rw`, `settle` as often as needed, then `ro`. For the
`verilator` build these are the nested loops of `verilator_main.cpp`, whose condition
`verilator_has_pending_put_values` is `HasPendingPutValues`; for the `bak` build (VCS,
Icarus) a slot goes on while read-write callbacks are registered.

Every family of setters in `value_setters.rs` is a set of records (flag, format, whether
its immediate form uses the handle's buffer); `Write` performs any of them, deferred
(`PostWrite`: `try_put_value`, the value, `do_push_hdl_put_value`) or at once (`ImmWrite`).
`SetFreeze`, `ReleaseValue` and `ReleaseImmValue` are actions. A flush is a
sequence of steps (`FireFlush` or `FireAwait`, then `ApplyOne` per entry, `NextRound`,
`FlushDone` or `AwaitDone`), because on `bak` builds tasks run between two entries. The
iterator walks over memory, not over a list: `queue.freed` is what `Vec::remove` leaves
behind the end of the queue, and applying an entry without a flag, which is undefined
behaviour, uses any flag. `stale[t]` is the comparison of two values of `flush_epoch`.

`PostedWrites.tla` is the promise: at most one posted write per signal, the last accepted
one, committed once and eventually. `ImplementsPostedWrites` checks that `PutValue`
implements it, fairness included, with the flag and value of a handle as the posted write.

| Run | Instance | Shows |
|---|---|---|
| `put_flush` | 2 signals, 1 awaiting task, 2 values, 2 formats, both builds, 2 writes per slot | `TypeOK`, `FlagIsQueued`, `QueueExact`, `FlushedBeforeReadOnly`, `OneChain`, `AwaitRwSeesValues`, `AwaitRwResumes`, `ImplementsPostedWrites` |
| `put_reentrant` | 3 signals, rewrites during a flush | violation of `FlagIsQueued` |

Two writes per slot are what a rewrite, a force against a set, or a write behind the flush
takes; writes are unlimited over all slots. `put_flush` has `ReentrantRewrites = FALSE`:
tasks that a flush runs write, but not to handles that are in line; `put_reentrant` shows
what happens otherwise. The flush behind a `verilua_*_step` call (`verilua_env.rs:665`, `700`),
outside the phases of a slot, is not modelled. Weak fairness of `Machine`: the simulator and libverilua
run on. Tasks need not do anything. Deadlock is not checked since a panic ends the process.

Abstractions: a value stands for all words of a signal, so that neither the upper words nor
`bval` are told apart; one handle per signal; pools of shuffled values are any value; a
forced signal is not distinguished from a driven one.

## EdgeCallbacks

`EdgeCallbacks.tla` models waiting for edges of one signal in the three builds: a callback
per wait (`direct`), chunks registered at the next sim time (`chunk`), and chunks that are
kept while all their tasks wait again (`merge`). `Await` is a task that asks outside of an
edge callback, `Fire` a callback with all the tasks it resumes, each of which may ask again
or not, `NextSimTime`, `RegisterChunk` and `Registered` the loops of
`libverilua_next_sim_time_cb`. The sixteen generated functions `edge_callback_chunk_<n>`
are one definition with the number of tasks as a parameter; the map names the first two.

`EdgeWaits.tla` is the promise: a change resumes once every task that has waited for that
edge since an earlier slot, and no task that does not wait. A wait of the same slot may be
served or not: that differs between the builds. `ImplementsEdgeWaits` checks it, with weak
fairness: a value change gets done with its tasks.

| Run | Instance | Shows |
|---|---|---|
| `edge` | 3 tasks, chunks of 2, all builds, 2 value changes per slot (merge builds: 1) | `TypeOK`, `WaitsCovered`, `CountExact`, `ImplementsEdgeWaits` |

Three tasks with chunks of two give a full and a short chunk, and a chunk of which one task
does not ask again. In merge builds a second matching edge within one slot goes wrong (TLC
shows it with `MergeChanges = 2`): the kept chunk fires for a wait that is still in the
pending map; when the task does not wait again, the next sim time registers a callback for
it all the same, which resumes it out of turn or panics in `unwrap()`. The bound of one change is
therefore an assumption: no glitches within a slot on signals that tasks wait for.

## Waveforms, hierarchy and lifecycle

Five modules model what the processes that use libverilua do to one another. (A sixth,
`Lists.tla`, has the parts of lists that they and `EdgeCallbacks` need, without recursion.)

- `WaveValues.tla`: reads of a signal as operators on bit sequences (words, digits, X and
  Z, the nearest time index), and what the getters of libverilua make of the values and
  strings they are given (padding of VCS, X as zero, decimals on Verilator), with bytes of 2 bits and words of 2 bytes in the runs: what
  matters is whether a width fills a byte, a word or a digit.
- `WaveVpi.tla`: the waveform backend. `ReadWave` and `LoadCaches` are the two halves of
  `wellen_initialize`, between which the file may change; `Lookup`; `SaveMeta` and
  `SaveSignals` are the two files `wellen_finalize` writes. `SaveCutShort` is a kill or a
  failed write in any place of it.
- `HierarchyCollect.tla`: the walk over modules and signals with its shared name cache, the
  cache file, and the answers to queries.
- `EnvLifecycle.tla`: `VeriluaEnv` from its creation to `finalize`, by way of the start
  callback, `verilua_init`, the step functions and their `_safe` forms, a callback whose
  task fails (it finalizes, then panics), or the destructor.
- `WaveSession.tla` composes them: a `wave` process is `wave_vpi_main`, with
  `endOfSimulation`, signal handlers and `exit`; an `embed` process calls `verilua_*` itself,
  and a `vcs` process is one of a build whose exit runs no destructor (`verilua_env.rs:601-610`).
  Processes follow one another; the files stay. A process that goes without the destructor and
  without a complete `endOfSimulation` has `"left"`: those of `vcs`, and one that SIGINT ends
  while `endOfSimulation` is already running (`Interrupt`).

Panics are steps to `"aborting"`: the size of a signal without any change (`SizePanics`), an
unloaded signal, the signals of hierarchy-only mode (`SourcePanics`), a read at a later time
index of a signal without a value yet (`ReadFails`, the assertion `read_asserts`).

`faults` and `hfaults` are history variables: a save was cut short between the files
(`files`), the wave was dumped anew while it was read (`race`), or the hierarchy file was
saved or loaded while the path or the time of the wave was not known, in which case the code
compares nothing (`unknown`; `Identities`, `Agree`). The properties name the faults they exclude.

| Run | Instance | Shows |
|---|---|---|
| `wave` | 3 waves (one dumped anew, one of the same age at another path), 3 names, two of them aliases, 3 hosts, reads at times to 4, 2 events | `TypeOK`, `CacheFresh`, `HandlesLoaded`, `ReadsRight`, `HierarchyExact`, `TreeRooted`, `CallbacksOnce`, `FinishedOnce` |
| `wave_crash` | 2 waves, 3 events | violation of `SignalsLoaded` |

An event is a new process, a change of the file, a lost file or a failed save; two are what
it takes for a process to find files made for another wave. The threshold below which
nothing is cached is 2 instead of 15. The widths of the signals are 1, 3, 4, 5 and 7 bits
with words of 4, and one value has an X. One signal of 7 bits has its first value at the
third time of its wave, and one signal has none at all.
No fairness: the properties are about states, and a process may end anywhere.

Met while modelling, and not stated as properties:

- The files of the caches are matched by the time in seconds and the size of the wave (no path),
  those of the hierarchy by time and path (no size): a wave dumped again within a second
  with the same size is not noticed, nor is another wave of the same time and size. In the
  model every wave has a stamp of its own.
- A vector read before the first change of a signal has one word (`lib.rs:1082`), but the
  getters read as many as the signal is wide (`beat_num`, `value_getters.rs:79-80`): what they
  return for the others is whatever lies behind it. `ReadsRight` lets those words be anything
  (`beyond`) and claims only the first.
- Before the first change, reads at a later time index panic (`lib.rs:1076`, `1154`), while
  `wellen_get_int_value` (`lib.rs:881`) returns 0 there.
- `vpiDecStrVal` of a two-state signal wider than a word is its last word; `ReadsRight`
  claims decimal strings for one word only.
- The comment at `lib.rs:51` says the cache is not used when there are more signals
  than the threshold; the code uses it when there are at least as many.
- In hierarchy-only mode a walk panics unless the hierarchy cache is there; a signal that
  has two names in one scope is listed once.

## What TLC found

1. `sched_rewake`. The list of sent events is cleared only when a loop ends. An
   activation nested in the loop that sends an event walks the list from its first entry,
   and wakes a task that has called `wait()` again although that event was not sent
   again; the comment in the loop says it is queued for the next send.
2. `sched_skip`. A task that has ended is marked by `remove_task` before the scheduler
   forgets it; a later `wakeup_task` does not clear the flag (the other two ways to start a
   task do), and the new coroutine is dropped instead of run.
3. `clock_two_drivers`. `stop`, and with it the destructor, removes the signal from the
   registry whoever registered it. Destroying an idle instance makes the registry forget
   another's signal, and a third instance is allowed to drive it as well.
4. `put_reentrant`. A flush has applied the first of three handles, and the value change
   resumes a task that releases (`release_imm`) that handle. Its
   entry is removed from the queue under the iterator: the second handle is skipped, the
   third is visited twice (`unwrap_unchecked` of a taken flag), and `clear` drops
   the second one, whose flag stays set. The next write to it fails the assertion of
   `try_put_value`, although the comment there claims to handle the re-entrant flush.
5. `wave_crash`. The meta file is written before the signal file and is all the next process
   looks at to decide that the caches are usable. Killed in between, it leaves references
   whose signals are not loaded, and the first lookup panics. With an older signal file in
   place the next process can read values of another wave (`CacheFresh` excludes it).

## Proofs

`SchedulerProofs.tla` proves `TypeOK`, `CurrTaskIsInnermost`, `NoLostWakeup` and
`RemovalCounted` for every number of tasks, every set of events, every set of operations
and all bounds; `NoLostWakeup` from `KeepsWaiters`, that user code has no `"renew_event"`. None
is inductive alone. The invariant `IInv` adds:

- `ShapeOf`: the shape of the stack. Only the top activation is about to resume its
  coroutine, one that starts a new coroutine sits on the body that called the API, the walk
  over all tasks is outermost, and only wake loops hold a snapshot;
- `CurrOf`: every body's `old` is the task of the innermost body below it, which is what
  makes restoring it right;
- `CountInv`: the number of removal flags is at most `nr_removed`, and `nr_pending` is the
  length of its list;
- `SendInv`: `has_wakeup` is set only while a body runs, or an activation that a body has
  just started, either of which will run the loop; the list of sent events is filled only
  while it is set or a loop runs;
- `OwedInv`: an owed task is in a snapshot, or about to be resumed, or a waiter of a sent
  event that is still ahead of the innermost loop (or of the loop `has_wakeup` announces).

The last two are the argument for `NoLostWakeup`: nested loops share the list and may
clear it, but an inner loop clears it only after having visited every entry, so nothing an
outer loop still had to do is lost. There is one lemma per action;
`StepInv` combines them, the theorems follow by PTL.

`NativeClockProofs.tla` proves `TypeOK` and `NoDanglingCallback` without conditions, and
`OneDriver`, `RegistryExact`, `PhaseLength` from `~DestroyForeign`, which the violation above
shows to be needed; `stop()` followed by `destroy()` is covered. `MemoryInv`
adds to them that an instance with a callback is running in Lua and has a period and a
high time that `start` accepted; `ClockInv` adds the registry and the phase.

`PutValueProofs.tla` proves `TypeOK`, `QueueExact` and `FlagIsQueued` from
`~ReentrantRewrites`, which the violation of `put_reentrant` shows to be needed.
`QueueExact` is not inductive: that a write during a flush goes to the backup queue
depends on the build and the phase. `FlushInv` adds that a flush runs inside a callback
of the rw phase, that tasks run during it only on `bak` builds, and that the backup queue
is empty otherwise. `LineInv` states `QueueExact` without the concatenation, split into
the entries of `hdl_put_value` ahead of the iterator (`Ahead`) and the backup; the two
are disjoint and duplicate-free. `ApplyOne` moves one handle out of the first part as its
flag is taken, `NextRound` swaps the parts when the first is empty, and a write outside
of a flush removes the old entry before it appends the new one (`WithoutMembers`,
`AppendMembers`).

`WakeProofs.tla` proves `WakeSourceUnique`, `RunningTasksExact` and `ResumedNotForgotten`
from `NoRemoval`: user code neither removes tasks nor creates an event anew for which tasks
wait (`"renew_event"`). Both are needed. `remove_task` leaves the callbacks of a task registered, and a new event under an
old id forgets the tasks that wait for the old one. `WakeInv` is inductive together with
`IInv`; its parts are:

- `SourceInv`: a task is in one place only of all waiter lists, all snapshots on the stack,
  the callbacks, and the activation about to enter a coroutine; a suspended task is in
  one, an ended or active task in none;
- `BodyInv`: an activation in its body runs the coroutine of its task, and no two
  activations do so for one task;
- `TableInv`: the tasks that are running and not about to be forgotten are those whose
  coroutine has not ended;
- `FiredInv`: a task that has not fired has not begun, unless `schedule_all_tasks` is just
  running it.

The argument follows the source of a task: a wait creates it when the task has none, since
it was active; then it moves from the waiter list to a snapshot, from there to an
activation (or from a callback to one), and is used up when the coroutine is entered. A
wake loop takes the whole waiter list of an event in one step, which is why a nested loop
that visits the same event finds only tasks that have waited again since.

`JoinProofs.tla` proves the five properties of the run `join` for every number of tasks and
handles and all bounds, and `JoinAssertionsHold`, from `JoinUse` (`Sharing = "none"` and
`~PendingInJoin`). The counterexamples under Join show that the second part is needed, and that
`JoinAssertionsHold` needs the first; the run checks the other properties for `"joins"` too. The
set of handles is assumed to be finite,
since joins count. `JInv` is inductive. Its first half, `BaseInv`, holds however the
simulation ends: `IInv`, which has to be shown again for the steps of `Join` that edit waiter
lists (`GoOnInv`); `PlainInv` (no task is removed); `JoinTypes`; `CallInv`, that the locals of
every call agree with each other, with `left` the number of handles a join has still to be
woken by; `ChildInv`, that a handle has a task of its own and is removed exactly when that
task ends; and `SentInv`, that a handle is sent only then. The second half, `LiveInv`, is
for a simulation that runs:

- `PlainSource` is `SourceInv` of `WakeProofs` for the events that are not handles. A task in a
  join is a waiter of several lists at once, so `SourceInv` itself fails;
- `HandleSource`: a task in a join has no other source, and either sleeps and waits for
  exactly the handles its call has still open (`Parked`), or was woken by one of them
  (`Delivered`), waits for the others and is on its way: in the snapshot of the top wake loop,
  about to be resumed, or just resumed (`Arriving`). That it can be told by `curr_wakeup` is
  what `JoinWokenByHandle` needs;
- `DeliverInv`: if the task of a handle has ended and somebody waits for it, its entry in the
  list of sent events is still ahead of a loop; with an empty stack this is `JoinNotStuck`;
- `InsertInv` and `GroupInv`: the handle of a task forked into a group is tracked, or its
  task has ended, or a `TaskGroup:fork` on the stack is about to track it, in a body of the
  group below that of the new task.

A handle that is visited has one waiter, whose join is `Parked`; the loop takes it, and
between this step and the resumption only that task moves, so no nested loop comes between
(`Arriving`); this is where `Sharing = "none"` enters. `~PendingInJoin` keeps a join from being
woken by a send before the call; a handle whose event has been delivered is never sent again,
and its join does not count on it. `GroupComplete` needs
an argument of its own (`NoOpenFork`): when the owner closes the group all tracked handles
have ended, but a `TaskGroup:fork` may not have tracked its handle yet. The body that called
it is the owner's, which is closing the group instead, or that of a task of the group that
has not ended; the handle of that one is not tracked either, so below it on the stack is
another such body, and the stack is finite.

`PutValueProofs.tla` goes on with the slot. `OneChain` needs no hypothesis: `ChainInv` adds
that a next sim time callback runs before anything else in a slot. The others are for
`~ReentrantRewrites`. `LateInv`, for `FlushedBeforeReadOnly`, says that the flag
`rw_cb_re_registered` stands for a flush that is registered or has begun, and that a value
posted after the flush has one to come. `AwaitInv`, for the action property
`AwaitRwSeesValues`, says that a flush which has put a value has made every task stale
that waits in this pass. `PutImplementsPostedWrites` is the safety part of the refinement
(initial states and steps): the posted write of a signal is the flag and value of its
handle, `ApplyOne` commits it, and every other step of the flush is a stutter; that the
entry applied carries a flag is what `LineInv` gives.

`EdgeProofs.tla` proves `TypeOK` without hypotheses, and `CountExact`, `WaitsCovered` and
the safety part of the refinement of `EdgeWaits` from `OneMergeChange`, which the
counterexample for `MergeChanges = 2` shows to be needed. `EdgeInv` says that no two
callbacks share a task (`CallbacksInv`), that the maps hold the waits of this slot once
(`MapsInv`), that a wait is both in a map and with a callback only when the callback is
kept, all its tasks are in the map, and the change of this slot has been
(`OverlapInv`), and that every wait is somewhere (`CoverInv`). `OverlapInv` is the reason
for the hypothesis: with a second change the kept callback fires for waits that are still
in the map. The abstract set of tasks to be served is `Due`, the tasks of the callbacks
still to be called for the change in progress.

`WaveSessionProofs.tla` proves `CallbacksOnce` and `FinishedOnce` from `EnvInv` (a callback is
registered once if its flag is set and not otherwise, and the flags are set in order) and
`EndInv` (a process that ends as `"exited"` does so after finalize); then `TypeOK`, `HandlesLoaded` and, for waves
with different stamps (`StampsDiffer`), `CacheFresh`. `StampsDiffer` says what the code
relies on: the meta file is recognised by the time and size of the wave. `CacheInv` relates
the caches in memory to the wave played (`CacheGood`), the meta file to the wave of its
stamp (`MetaInv`), the signal file to the meta file between two saves (`BinInv`) and to the
caches in the middle of one (`SavingInv`). Lookups, and a walk over the hierarchy with
its loops over modules, kinds and names, keep `CacheGood`. The constants are
assumed to be waves that a reader can return: names in the hierarchy have references, and
references have signals.

From `HierInv` follow `TreeRooted` and `HierarchyExact`. `HierInv` says of the entries in
memory and of those in the cache file that they are rooted (`Rooted`: the path of each,
without its last segment, is that of another), and that they are exact (`EntriesExact`): all
are entries of modules and variables of the wave, every visited module has its own, and every
signal of it one under a name that this module has for it. For the file, "the wave" is the one
it names, which is why the invariant speaks of both. `CollectExact` shows that a walk
establishes it. The hard part is inside `CollectSignals`: all names of one kind are opened
before any is scanned, and the path of an entry is the name under which its reference was
opened last. `Named` says that this is one of the names just opened, hence a variable of this
module and kind even if another module has a name for the same signal; and `visited`, which
skips paths, never skips a signal of the next kind. The theorems rest on
`HierarchyAssumption`: the full name of a variable is the path of its scope and its own name
(`lib.rs:1303`), and every variable is iterated as one of the three kinds (`lib.rs:1266-1272`).
`TreeRooted` needs nothing else. `HierarchyExact` speaks of states without faults, and needs
three things, each false for some waves,
for which the code may list something else: `StampsDiffer`; `FilesDiffer`, because the
hierarchy file is recognised by path and time; and `PathsDiffer`, that a path is not that of
a module and a variable or of variables of two kinds, which `push_hierarchy_entry` makes one
entry of. The waves of the run satisfy all three.

`ListProofs.tla` has the facts about `Lists`: the entries of a list at a set of indices, or in
a set of elements, are those entries in their order. They are defined by ranks instead of
recursion, and where a proof calls for induction over a number (also in the loops of
`WaveSessionProofs`) it takes the least counterexample (`LeastNat`).

Only model-checked:

- `KeepsToggling`, `AwaitRwResumes` and the fairness of `PostedWrites` and
  `EdgeWaits`: liveness is out of the prover's reach;
- `ReadsRight`, a comparison of the getters with a reference on given bit patterns, whose
  digits and words are computed by recursion over the width: the powers, quotients and
  remainders in it are beyond the SMT solver.

## Plan

Done: `Scheduler`, `NativeClock`, `PutValue` and `EdgeCallbacks` with their proofs and the
abstract specifications `PostedWrites` and `EdgeWaits`; `Join` with its proofs; `EnvLifecycle`, `WaveVpi`,
`WaveValues`, `HierarchyCollect` and `WaveSession`, which composes them, with the proofs about
caches, hierarchy and lifecycle. Left, in this order:

1. STEP and EDGE_STEP modes of the scheduler.
2. `Queue`, `StaticQueue`, `AgeStaticQueue`, `IDPool` as refinements of abstract
   containers; conversion of time units.

## Not modelled

- Step modes, queues: see the plan. Several nested task groups of one task.
- Generated or mechanical code: `vpi_user.rs` (bindings, twice), `turso_ffi`, accessors
  generated per width, meta getters, logging, performance counters.
- Text: wildcard matching of paths, the slang-based SystemVerilog tools. They translate text in batch and have no state between calls.
- The flush behind `verilua_*_step` outside the phases of a time slot.
- Edge callbacks that stay registered (`always_await_posedge_hdl`), `inertial_put` builds.
- wave_vpi: the replay loop, its JIT threads, and FSDB, whose reader is not in the
  repository. LightSSS, which forks the simulator.
- Databases and configuration: bindings and settings, pure I/O.
