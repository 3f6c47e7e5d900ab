----------------------------- MODULE Scheduler -----------------------------
(* The Lua task scheduler of Verilua in NORMAL mode, translated from the
   template src/src/gen/gen_scheduler.lua (from which the six schedulers
   under src/src/lua/verilua/scheduler are generated).

   Tasks are coroutines.  schedule_task(id) resumes one coroutine and, when
   it has yielded, wakes the waiters of every event sent meanwhile, by
   recursive calls of schedule_task.  It is also called by the API
   (append_task, wakeup_task, try_wakeup_task) from inside the body of
   another task.  The model keeps the call stack of schedule_task as a
   sequence of frames; only the top frame takes steps.

   What a task body does between two yields is the choice of user code: the
   body of the top frame may call any operation of the scheduler, in any
   order, and then yields, returns or fails.                              *)
EXTENDS Integers, Sequences, FiniteSets

CONSTANTS
    MaxTaskId,   \* SCHEDULER_MAX_TASK_ID
    Events,      \* event ids
    NoEvent,     \* nil where an event id is expected
    Ops,         \* the operations user code calls (all of them: AllOps)
    MaxDepth,    \* user code nests no deeper than this many frames
    MaxSends,    \* entries of pending_wakeup_event
    MaxWaiters,  \* entries of one waiter list
    MaxCbs,      \* outstanding VPI callbacks of one task id
    MaxRemovals  \* nr_user_removal_tasks

NULL_TASK_ID == 0

TaskIds == 1 .. MaxTaskId

AllOps == {"await_callback", "wait", "send", "append", "append_id", "later",
           "wakeup", "try_wakeup", "remove", "new_event", "renew_event",
           "remove_event", "exit", "error"}

ASSUME ConstantsAssumption ==
    /\ MaxTaskId \in Nat
    /\ NoEvent \notin Events
    /\ Ops \subseteq AllOps
    /\ MaxDepth \in Nat
    /\ MaxSends \in Nat
    /\ MaxWaiters \in Nat
    /\ MaxCbs \in Nat
    /\ MaxRemovals \in Nat

VARIABLES
    running,       \* DOMAIN task_name_map_running
    archived,      \* DOMAIN task_name_map_archived
    fired,         \* the ids whose task_fired_status_map is true
    next_task_id,
    co,            \* state of task_coroutine_map[id]
    pending,       \* pending_removal_tasks
    nr_pending,    \* nr_pending_removal_tasks
    removed,       \* user_removal_tasks_set
    nr_removed,    \* nr_user_removal_tasks
    event_names,   \* DOMAIN event_name_map
    waiters,       \* event_task_id_list_map
    task_event,    \* task_id_to_event_id_map
    has_wakeup,    \* has_wakeup_event
    pending_wakeup,\* pending_wakeup_event
    curr_wakeup,   \* curr_wakeup_event_id
    curr_task,     \* curr_task_id
    stack,         \* the activations of schedule_task, innermost last
    cbs,           \* VPI callbacks registered and not yet fired, per task id
    phase,         \* "load": before verilua_init; "sim": after it
    unvisited,     \* keys schedule_all_tasks has still to visit
    status,        \* "ok", or why the simulation was aborted
    owed,          \* history: waiters of sent events not yet rescheduled
    taken          \* history: entries of pending_wakeup taken since it was empty

taskVars   == <<running, archived, fired, next_task_id>>
removalVars== <<pending, nr_pending, removed, nr_removed>>
eventVars  == <<event_names, waiters, task_event>>
wakeVars   == <<has_wakeup, pending_wakeup, curr_wakeup>>
outerVars  == <<phase, unvisited, status>>
ghostVars  == <<owed, taken>>

vars == <<taskVars, co, removalVars, eventVars, wakeVars, curr_task, stack,
          cbs, outerVars, ghostVars>>

----------------------------------------------------------------------------
(* Frames.  pc says where the activation is:
     "start"   called by append_task, wakeup_task or try_wakeup_task for a
               new coroutine; its first statement is next
     "woken"   called by the wake loop of the frame below
     "resume"  called by sim_event or schedule_all_tasks
     "body"    inside coro_resume: user code runs
     "wake"    in the loop over pending_wakeup_event
     "all"     not schedule_task but schedule_all_tasks, walking the tasks
   stale is TRUE once the task got another coroutine while this one runs. *)
Entering == {"start", "woken", "resume"}

PCs == Entering \cup {"body", "wake", "all"}

Frame == [id : 0 .. MaxTaskId, pc : PCs, old : 0 .. MaxTaskId,
          stale : BOOLEAN, pos : Nat \ {0}, snap : Seq(TaskIds)]

NewFrame(t, at) == [id |-> t, pc |-> at, old |-> NULL_TASK_ID,
                    stale |-> FALSE, pos |-> 1, snap |-> <<>>]

Top == stack[Len(stack)]

Push(s, f) == Append(s, f)

Pop(s) == SubSeq(s, 1, Len(s) - 1)

SetTop(s, f) == [s EXCEPT ![Len(s)] = f]

Elems(s) == {s[k] : k \in 1 .. Len(s)}

Positions(s, t) == {k \in 1 .. Len(s) : s[k] = t}

\* table_remove(s, k)
RemoveAt(s, k) == [i \in 1 .. Len(s) - 1 |-> IF i < k THEN s[i] ELSE s[i + 1]]

At(pc) == status = "ok" /\ stack # <<>> /\ Top.pc = pc

InBody(op) == At("body") /\ op \in Ops

----------------------------------------------------------------------------
Init ==
    /\ running = {} /\ archived = {} /\ fired = {} /\ next_task_id = 1
    /\ co = [t \in TaskIds |-> "none"]
    /\ pending = <<>> /\ nr_pending = 0 /\ removed = {} /\ nr_removed = 0
    /\ event_names = Events
    /\ waiters = [e \in Events |-> <<>>]
    /\ task_event = [t \in TaskIds |-> NoEvent]
    /\ has_wakeup = FALSE /\ pending_wakeup = <<>> /\ curr_wakeup = NoEvent
    /\ curr_task = NULL_TASK_ID
    /\ stack = <<>>
    /\ cbs = [t \in TaskIds |-> 0]
    /\ phase = "load" /\ unvisited = {} /\ status = "ok"
    /\ owed = {} /\ taken = 0

\* An error in a task body fails coro_resume; every activation below restores
\* curr_task_id and asserts in turn, and the simulation is shut down.
Abort(why) ==
    /\ status' = why
    /\ stack' = <<>>
    /\ curr_task' = NULL_TASK_ID
    /\ UNCHANGED <<taskVars, co, removalVars, eventVars, wakeVars, cbs, phase,
                   unvisited, ghostVars>>

----------------------------------------------------------------------------
(* schedule_task, from its first statement to coro_resume *)

\* Both the mapped tasks that ended and their fired status are forgotten.
ForgetEnded ==
    /\ pending' = <<>>
    /\ nr_pending' = 0

\* A task that remove_task marked is dropped instead of resumed.
SkipRemoved ==
    /\ \E pc \in Entering : At(pc)
    /\ nr_removed > 0 /\ Top.id \in removed
    /\ ForgetEnded
    /\ running' = (running \ Elems(pending)) \ {Top.id}
    /\ fired' = (fired \ Elems(pending)) \ {Top.id}
    /\ removed' = removed \ {Top.id}
    /\ nr_removed' = nr_removed - 1
    /\ stack' = Pop(stack)
    /\ owed' = owed \ {Top.id}
    /\ UNCHANGED <<archived, next_task_id, co, eventVars, wakeVars, curr_task,
                   cbs, outerVars, taken>>

\* coro_resume succeeds on a coroutine that has not run yet, awaits
\* something, or left through exit_task.
Resumable == {"fresh", "suspended", "exited"}

Resume ==
    /\ \E pc \in Entering : At(pc)
    /\ ~(nr_removed > 0 /\ Top.id \in removed)
    /\ co[Top.id] \in Resumable
    /\ ForgetEnded
    /\ running' = running \ Elems(pending)
    /\ fired' = fired \ Elems(pending)
    /\ co' = [co EXCEPT ![Top.id] = "active"]
    /\ curr_task' = Top.id
    /\ stack' = SetTop(stack, [Top EXCEPT !.pc = "body", !.old = curr_task])
    /\ owed' = owed \ {Top.id}
    /\ UNCHANGED <<archived, next_task_id, removed, nr_removed, eventVars,
                   wakeVars, cbs, outerVars, taken>>

\* It fails on a finished coroutine, and on one that is itself resuming
\* another: "cannot resume dead / non-suspended coroutine".
ResumeFails ==
    /\ \E pc \in Entering : At(pc)
    /\ ~(nr_removed > 0 /\ Top.id \in removed)
    /\ co[Top.id] \notin Resumable
    /\ Abort("resume")

----------------------------------------------------------------------------
(* schedule_task, from the return of coro_resume on *)

\* Mutant: schedule_task clears curr_task_id instead of restoring it.
MutNoRestore(st) ==
    /\ curr_task' = NULL_TASK_ID
    /\ co' = IF Top.stale THEN co ELSE [co EXCEPT ![Top.id] = st]
    /\ IF has_wakeup
       THEN stack' = SetTop(stack, NewFrame(Top.id, "wake"))
       ELSE stack' = Pop(stack)
    /\ has_wakeup' = FALSE
    /\ UNCHANGED <<taskVars, removed, nr_removed, event_names, pending_wakeup,
                   curr_wakeup, outerVars, ghostVars>>

\* The coroutine of the top frame has left its body in state st:
\* curr_task_id is restored, and the wake loop starts if an event was sent.
AfterBody(st) ==
    /\ curr_task' = Top.old
    /\ co' = IF Top.stale THEN co ELSE [co EXCEPT ![Top.id] = st]
    /\ IF has_wakeup
       THEN stack' = SetTop(stack, NewFrame(Top.id, "wake"))
       ELSE stack' = Pop(stack)
    /\ has_wakeup' = FALSE
    /\ UNCHANGED <<taskVars, removed, nr_removed, event_names, pending_wakeup,
                   curr_wakeup, outerVars, ghostVars>>

\* The body yields NOOP after registering its task for a wakeup.
Yield ==
    /\ AfterBody("suspended")
    /\ UNCHANGED <<pending, nr_pending>>

\* Mutant: a task that leaves through exit_task is not removed.
MutEndKeepsExited(st) ==
    /\ AfterBody(st)
    /\ pending' = IF st = "dead" THEN Append(pending, Top.id) ELSE pending
    /\ nr_pending' = IF st = "dead" THEN nr_pending + 1 ELSE nr_pending
    /\ UNCHANGED <<waiters, task_event, cbs>>

\* _remove_task: the body returned, or yielded EarlyExit.
End(st) ==
    /\ AfterBody(st)
    /\ pending' = Append(pending, Top.id)
    /\ nr_pending' = nr_pending + 1
    /\ UNCHANGED <<waiters, task_event, cbs>>

\* Mutant: the waiters are copied and not cleared.
MutKeepWaiters ==
    /\ At("wake") /\ Top.snap = <<>> /\ Top.pos <= Len(pending_wakeup)
    /\ LET e == pending_wakeup[Top.pos] IN
       /\ curr_wakeup' = e
       /\ stack' = SetTop(stack, [Top EXCEPT !.pos = @ + 1,
                                             !.snap = waiters[e]])
    /\ taken' = IF Top.pos > taken THEN Top.pos ELSE taken
    /\ UNCHANGED <<taskVars, co, removalVars, eventVars, has_wakeup,
                   pending_wakeup, curr_task, cbs, outerVars, owed>>

\* The next entry of the list, read afresh: bodies run by the loop may have
\* appended to it, or cleared it.  Its waiters are copied and cleared.
TakeEvent ==
    /\ At("wake") /\ Top.snap = <<>> /\ Top.pos <= Len(pending_wakeup)
    /\ LET e == pending_wakeup[Top.pos] IN
       /\ curr_wakeup' = e
       /\ stack' = SetTop(stack, [Top EXCEPT !.pos = @ + 1,
                                             !.snap = waiters[e]])
       /\ waiters' = [waiters EXCEPT ![e] = <<>>]
    /\ taken' = IF Top.pos > taken THEN Top.pos ELSE taken
    /\ UNCHANGED <<taskVars, co, removalVars, event_names, task_event,
                   has_wakeup, pending_wakeup, curr_task, cbs, outerVars, owed>>

WakeWaiter ==
    /\ At("wake") /\ Top.snap # <<>>
    /\ stack' = Push(SetTop(stack, [Top EXCEPT !.snap = Tail(@)]),
                     NewFrame(Head(Top.snap), "woken"))
    /\ UNCHANGED <<taskVars, co, removalVars, eventVars, wakeVars, curr_task,
                   cbs, outerVars, ghostVars>>

\* The loop ends at the current end of the list, which is then cleared.
WakeDone ==
    /\ At("wake") /\ Top.snap = <<>> /\ Top.pos > Len(pending_wakeup)
    /\ pending_wakeup' = <<>>
    /\ curr_wakeup' = NoEvent
    /\ taken' = 0
    /\ stack' = Pop(stack)
    /\ UNCHANGED <<taskVars, co, removalVars, eventVars, has_wakeup, curr_task,
                   cbs, outerVars, owed>>

----------------------------------------------------------------------------
(* What a task body may do.  An operation whose assertions fail raises an
   error in the body: TaskError.                                          *)

\* await_time*, await_posedge_hdl, await_negedge_hdl, await_edge_hdl, await_rw,
\* await_rd, await_nsim: one VPI callback for curr_task_id, then a yield.
AwaitCallback ==
    /\ InBody("await_callback")
    /\ cbs[curr_task] < MaxCbs
    /\ cbs' = [cbs EXCEPT ![curr_task] = @ + 1]
    /\ Yield
    /\ UNCHANGED <<waiters, task_event>>

RegisterEvent(e, t) ==
    /\ e \in event_names
    /\ task_event' = [task_event EXCEPT ![t] = e]
    /\ waiters' = [waiters EXCEPT ![e] = Append(@, t)]

\* EventHandle:wait and await_event
WaitEvent(e) ==
    /\ InBody("wait")
    /\ Len(waiters[e]) < MaxWaiters
    /\ RegisterEvent(e, curr_task)
    /\ Yield
    /\ UNCHANGED cbs

Finish == At("body") /\ End("dead")

ExitTask == InBody("exit") /\ End("exited")

\* Mutant: a send replaces the events sent before it.
MutSendReplaces(e) ==
    /\ InBody("send")
    /\ Len(pending_wakeup) < MaxSends /\ Len(stack) < MaxDepth
    /\ pending_wakeup' = <<e>>
    /\ has_wakeup' = TRUE
    /\ owed' = owed \cup Elems(waiters[e])
    /\ UNCHANGED <<taskVars, co, removalVars, eventVars, curr_wakeup,
                   curr_task, stack, cbs, outerVars, taken>>

TaskError == InBody("error") /\ Abort("error")

SendEvent(e) ==
    /\ InBody("send")
    /\ Len(pending_wakeup) < MaxSends /\ Len(stack) < MaxDepth
    /\ pending_wakeup' = Append(pending_wakeup, e)
    /\ has_wakeup' = TRUE
    /\ owed' = owed \cup Elems(waiters[e])
    /\ UNCHANGED <<taskVars, co, removalVars, eventVars, curr_wakeup,
                   curr_task, stack, cbs, outerVars, taken>>

\* new_event_hdl with an id; the handle of an existing event starts afresh.
\* Those who wait for it are dropped: only the operation "renew_event" does
\* that to an event with waiters.
NewEventHdl(e) ==
    /\ InBody("new_event")
    /\ "renew_event" \in Ops \/ waiters[e] = <<>>
    /\ event_names' = event_names \cup {e}
    /\ waiters' = [waiters EXCEPT ![e] = <<>>]
    /\ UNCHANGED <<taskVars, co, removalVars, task_event, wakeVars, curr_task,
                   stack, cbs, outerVars, ghostVars>>

\* EventHandle:remove
RemoveEvent(e) ==
    /\ InBody("remove_event")
    /\ event_names' = event_names \ {e}
    /\ UNCHANGED <<taskVars, co, removalVars, waiters, task_event, wakeVars,
                   curr_task, stack, cbs, outerVars, ghostVars>>

\* coro_create for t: a frame that runs its previous coroutine is stale.
Stale(s, t) ==
    [k \in 1 .. Len(s) |->
        IF s[k].id = t /\ s[k].pc = "body" THEN [s[k] EXCEPT !.stale = TRUE]
                                           ELSE s[k]]

\* coro_create and the call of schedule_task
StartCoroutine(t) ==
    /\ Len(stack) < MaxDepth
    /\ co' = [co EXCEPT ![t] = "fresh"]
    /\ running' = running \cup {t}
    /\ fired' = fired \cup {t}
    /\ stack' = Push(Stale(stack, t), NewFrame(t, "start"))

\* Mutant: the count goes down whether or not the flag was set.
MutAlwaysDecrement(t) ==
    /\ removed' = removed \ {t}
    /\ nr_removed' = nr_removed - 1

\* Mutant: the count goes down and the flag stays.
MutKeepFlag(t) ==
    /\ removed' = removed
    /\ nr_removed' = IF t \in removed THEN nr_removed - 1 ELSE nr_removed

\* clears the user_removal flag of t, if it is set
ClearRemoved(t) ==
    /\ removed' = removed \ {t}
    /\ nr_removed' = IF t \in removed THEN nr_removed - 1 ELSE nr_removed

\* A key added to task_name_map_running while pairs() walks it may or may
\* not be visited.
Walked(t) ==
    IF stack # <<>> /\ stack[1].pc = "all"
    THEN unvisited' \in {unvisited, unvisited \cup {t}}
    ELSE unvisited' = unvisited

\* append_task once the id is chosen
Register(t, start_now) ==
    /\ archived' = archived \cup {t}
    /\ ClearRemoved(t)
    /\ Walked(t)
    /\ \/ /\ start_now
          /\ StartCoroutine(t)
       \/ /\ ~start_now /\ "later" \in Ops
          /\ co' = [co EXCEPT ![t] = "fresh"]
          /\ running' = running \cup {t}
          /\ fired' = fired \ {t}
          /\ stack' = Stale(stack, t)
    /\ UNCHANGED <<pending, nr_pending, eventVars, wakeVars, curr_task, cbs,
                   phase, status, ghostVars>>

\* Tasks call the API; so does the main script, before the simulation starts.
UserCode(op) ==
    \/ InBody(op)
    \/ status = "ok" /\ phase = "load" /\ stack = <<>> /\ op \in Ops

\* check_task_exists(t) and not user_removal_tasks_set[t]
StillRunning(t) == t \in running /\ t \notin removed

GetRunningTasks == (running \ removed) \ Elems(pending)

\* append_task(id, ...)
AppendTaskId(t, start_now) ==
    /\ UserCode("append_id")
    /\ ~StillRunning(t)
    /\ Register(t, start_now)
    /\ UNCHANGED next_task_id

\* append_task(nil, ...): the first id from next_task_id on that was never used.
\* The last id is never handed out: _alloc_task_id asserts next_task_id + 1.
AppendTask(t, start_now) ==
    /\ UserCode("append")
    /\ t >= next_task_id /\ t \notin archived
    /\ \A u \in next_task_id .. t - 1 : u \in archived
    /\ t + 1 <= MaxTaskId
    /\ next_task_id' = t + 1
    /\ Register(t, start_now)

\* Mutant: wakeup_task leaves an ended task among those to be forgotten.
MutWakeupKeepsPending(t) ==
    /\ InBody("wakeup")
    /\ t \in archived
    /\ t \in running => t \in removed \/ Positions(pending, t) # {}
    /\ ClearRemoved(t)
    /\ StartCoroutine(t)
    /\ Walked(t)
    /\ UNCHANGED <<archived, next_task_id, pending, nr_pending, eventVars,
                   wakeVars, curr_task, cbs, phase, status, ghostVars>>

\* wakeup_task.  A task that is not running keeps its user_removal flag.
WakeupTask(t) ==
    /\ InBody("wakeup")
    /\ t \in archived
    /\ \/ /\ t \notin running
          /\ UNCHANGED removalVars
       \/ /\ t \in running /\ t \in removed
          /\ ClearRemoved(t)
          /\ UNCHANGED <<pending, nr_pending>>
       \/ /\ t \in running /\ t \notin removed
          /\ \E k \in Positions(pending, t) :
                /\ \A j \in 1 .. k - 1 : pending[j] # t
                /\ pending' = RemoveAt(pending, k)
          /\ nr_pending' = nr_pending - 1
          /\ UNCHANGED <<removed, nr_removed>>
    /\ StartCoroutine(t)
    /\ Walked(t)
    /\ UNCHANGED <<archived, next_task_id, eventVars, wakeVars, curr_task, cbs,
                   phase, status, ghostVars>>

\* try_wakeup_task; nothing happens when the task is still running
TryWakeupTask(t) ==
    /\ InBody("try_wakeup")
    /\ ~StillRunning(t)
    /\ t \in archived
    /\ ClearRemoved(t)
    /\ StartCoroutine(t)
    /\ Walked(t)
    /\ UNCHANGED <<archived, next_task_id, pending, nr_pending, eventVars,
                   wakeVars, curr_task, cbs, phase, status, ghostVars>>

\* remove_task: the task is dropped at its next activation, and leaves the
\* waiters of the event it waited for last.
RemoveTask(t) ==
    /\ InBody("remove")
    /\ t \in archived
    /\ nr_removed < MaxRemovals
    /\ removed' = IF t \in running THEN removed \cup {t} ELSE removed
    /\ nr_removed' = IF t \in running THEN nr_removed + 1 ELSE nr_removed
    /\ LET e == task_event[t] IN
       \/ /\ e # NoEvent => Positions(waiters[e], t) = {}
          /\ UNCHANGED <<waiters, owed>>
       \/ /\ e # NoEvent
          /\ \E k \in Positions(waiters[e], t) :
                /\ Positions(waiters[e], t) = {k}
                /\ waiters' = [waiters EXCEPT ![e] = RemoveAt(@, k)]
          /\ owed' = owed \ {t}
    /\ UNCHANGED <<taskVars, co, pending, nr_pending, event_names, task_event,
                   wakeVars, curr_task, stack, cbs, outerVars, taken>>

----------------------------------------------------------------------------
(* The callers of the scheduler *)

\* verilua_init calls schedule_all_tasks.
StartCallback ==
    /\ status = "ok" /\ phase = "load" /\ stack = <<>>
    /\ phase' = "sim"
    /\ unvisited' = running
    /\ stack' = <<NewFrame(NULL_TASK_ID, "all")>>
    /\ UNCHANGED <<taskVars, co, removalVars, eventVars, wakeVars, curr_task,
                   cbs, status, ghostVars>>

\* schedule_all_tasks marks a task as fired after schedule_task returned.
WalkFired == IF Top.id = NULL_TASK_ID THEN fired ELSE fired \cup {Top.id}

\* ... and schedules the tasks it meets that have not fired.
WalkNext(t) ==
    /\ At("all")
    /\ t \in (unvisited \cap running) \ WalkFired
    /\ fired' = WalkFired
    /\ unvisited' = unvisited \ {t}
    /\ stack' = Push(SetTop(stack, [Top EXCEPT !.id = t]), NewFrame(t, "resume"))
    /\ UNCHANGED <<running, archived, next_task_id, co, removalVars, eventVars,
                   wakeVars, curr_task, cbs, phase, status, ghostVars>>

WalkDone ==
    /\ At("all")
    /\ (unvisited \cap running) \ WalkFired = {}
    /\ fired' = WalkFired
    /\ unvisited' = {}
    /\ stack' = Pop(stack)
    /\ UNCHANGED <<running, archived, next_task_id, co, removalVars, eventVars,
                   wakeVars, curr_task, cbs, phase, status, ghostVars>>

\* A VPI callback fires: sim_event(t).
SimEvent(t) ==
    /\ status = "ok" /\ phase = "sim" /\ stack = <<>>
    /\ cbs[t] > 0
    /\ cbs' = [cbs EXCEPT ![t] = @ - 1]
    /\ stack' = <<NewFrame(t, "resume")>>
    /\ UNCHANGED <<taskVars, co, removalVars, eventVars, wakeVars, curr_task,
                   outerVars, ghostVars>>

----------------------------------------------------------------------------
\* What the scheduler itself does, without user code or the simulator.
Engine ==
    \/ SkipRemoved \/ Resume \/ ResumeFails
    \/ TakeEvent \/ WakeWaiter \/ WakeDone
    \/ WalkDone \/ \E t \in TaskIds : WalkNext(t)

\* What the body of the running task does.
Body ==
    \/ AwaitCallback \/ Finish \/ ExitTask \/ TaskError
    \/ \E e \in Events : \/ WaitEvent(e) \/ SendEvent(e)
                         \/ NewEventHdl(e) \/ RemoveEvent(e)
    \/ \E t \in TaskIds : WakeupTask(t) \/ TryWakeupTask(t) \/ RemoveTask(t)
    \/ \E t \in TaskIds, start_now \in BOOLEAN :
            AppendTaskId(t, start_now) \/ AppendTask(t, start_now)

Next == Engine \/ Body \/ StartCallback \/ \E t \in TaskIds : SimEvent(t)

Spec == Init /\ [][Next]_vars

----------------------------------------------------------------------------
(* Properties *)

\* Type correctness of the scheduler's fields.
TypeOK ==
    /\ running \subseteq TaskIds /\ archived \subseteq TaskIds
    /\ fired \subseteq TaskIds /\ next_task_id \in 1 .. MaxTaskId + 1
    /\ co \in [TaskIds -> {"none", "fresh", "suspended", "active", "exited", "dead"}]
    /\ pending \in Seq(TaskIds) /\ nr_pending \in Nat
    /\ removed \subseteq TaskIds /\ nr_removed \in Nat
    /\ event_names \subseteq Events
    /\ waiters \in [Events -> Seq(TaskIds)]
    /\ task_event \in [TaskIds -> Events \cup {NoEvent}]
    /\ has_wakeup \in BOOLEAN /\ pending_wakeup \in Seq(Events)
    /\ curr_wakeup \in Events \cup {NoEvent}
    /\ curr_task \in 0 .. MaxTaskId
    /\ stack \in Seq(Frame)
    /\ cbs \in [TaskIds -> Nat]
    /\ phase \in {"load", "sim"} /\ unvisited \subseteq TaskIds
    /\ status \in {"ok", "error", "resume"}
    /\ owed \subseteq TaskIds /\ taken \in Nat

\* t is the task of the innermost body among the first n frames of s.
InnermostBody(s, n, t) ==
    \/ /\ t = NULL_TASK_ID
       /\ \A k \in 1 .. n : s[k].pc # "body"
    \/ \E k \in 1 .. n :
          /\ s[k].pc = "body" /\ s[k].id = t
          /\ \A j \in k + 1 .. n : s[j].pc # "body"

\* curr_task_id names the task whose body runs, however deep schedule_task
\* is nested and whichever way the inner activations ended (schedule_task
\* saves and restores it); await_* and wait register that task.
CurrTaskIsInnermost == InnermostBody(stack, Len(stack), curr_task)

\* As long as user code re-creates no event that tasks wait for, nothing is left
\* to wake between two simulator events: every send has been delivered to every
\* task that waited for the event when it was sent, except those removed
\* meanwhile.  The loop of schedule_task reads pending_wakeup_event while nested
\* activations append to it and clear it.
NoLostWakeup ==
    stack = <<>> /\ status = "ok" =>
        ~has_wakeup /\ pending_wakeup = <<>> /\ owed = {}

\* schedule_task looks at user_removal_tasks_set only while
\* nr_user_removal_tasks is positive: a set flag never hides behind a zero
\* count, and the count of ended tasks is the length of their list.
RemovalCounted ==
    /\ removed # {} => nr_removed > 0
    /\ nr_pending = Len(pending)

\* The ways in which task t can be resumed: a registered callback, an entry of
\* a waiter list, an entry of a snapshot, an activation about to resume it.
WakeSources(t) ==
    LET InWaiters == UNION {{<<e, k>> : k \in {j \in 1 .. Len(waiters[e]) :
                                 waiters[e][j] = t}} : e \in Events}
        InSnaps == UNION {{<<f, k>> : k \in {j \in 1 .. Len(stack[f].snap) :
                                 stack[f].snap[j] = t}} : f \in 1 .. Len(stack)}
        Entries == {f \in 1 .. Len(stack) :
                       stack[f].id = t /\ stack[f].pc \in Entering}
    IN cbs[t] + Cardinality(InWaiters) + Cardinality(InSnaps)
              + Cardinality(Entries)

\* As long as user code removes no task and re-creates no event that tasks wait
\* for, every task has exactly one way to be resumed while it is suspended, and
\* none while it runs or after it has ended: no wakeup is lost or delivered
\* twice, whatever mixture of callbacks, events, restarts and nested starts led
\* there, and no finished coroutine is ever resumed.
WakeSourceUnique ==
    /\ status # "resume"
    /\ status = "ok" => \A t \in TaskIds :
         CASE co[t] = "suspended" -> WakeSources(t) = 1
           [] co[t] = "fresh"     -> WakeSources(t) <= 1
           [] OTHER               -> WakeSources(t) = 0

\* As long as user code removes no task, get_running_tasks returns exactly the
\* tasks that have begun or will begin and have not ended, although the tasks
\* that ended leave task_name_map_running only at the next schedule_task.
RunningTasksExact ==
    status = "ok" =>
        GetRunningTasks = {t \in TaskIds : co[t] \in {"fresh", "suspended", "active"}}

\* The comment in schedule_task: tasks that call wait() again during a wakeup
\* are queued for the next send.  When a loop comes to an entry that another
\* loop has delivered, and the event has not been sent again, nobody is woken.
WaitQueuedForNextSend ==
    At("wake") /\ Top.snap = <<>> /\ Top.pos <= taken
      /\ (\A j \in taken + 1 .. Len(pending_wakeup) :
                pending_wakeup[j] # pending_wakeup[Top.pos])
        => waiters[pending_wakeup[Top.pos]] = <<>>

\* wakeup_task "wakes a task that has ended", append_task and try_wakeup_task
\* clear the removal flag so that the new coroutine is not skipped: no
\* activation for a new coroutine finds its task marked for removal.
StartNotSkipped == At("start") => Top.id \notin removed

\* The SAFETY assertion of schedule_task, which holds as long as user code
\* removes no task: the task to be resumed is not among the ended tasks that
\* schedule_task is about to forget (and would then run unregistered).
ResumedNotForgotten ==
    (\E pc \in Entering : At(pc)) => Top.id \notin Elems(pending)
=============================================================================
