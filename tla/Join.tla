-------------------------------- MODULE Join --------------------------------
(* fork, jfork, join, join_any and task_group, translated from
   src/src/lua/verilua/init.lua, on top of Scheduler.

   A task that jfork starts has an event, the handle.  When its function has
   returned it sends the event, if somebody waits, and removes it.  A task
   inside a join takes the step of the join as soon as it is resumed, before
   any other user code: there is no yield in between.

   One task runs one task_group at a time, and the handles passed to a join
   differ from one another and from the handle of the caller.              *)
EXTENDS Scheduler

CONSTANTS
    Handles,        \* the events that jfork creates
    Sharing,        \* several tasks wait for one handle: "none" do, those in
                    \* "joins" of one or all handles, or "all", join_any too
    MaxUserWaiters, \* entries of the waiter list of an event of user code
    PendingInJoin   \* join({...}) is given handles of tasks that have ended
                    \* while pending_wakeup_event still holds their event

ASSUME JoinAssumption ==
    /\ Handles \subseteq Events /\ IsFiniteSet(Handles)
    /\ Sharing \in {"none", "joins", "all"}
    /\ MaxUserWaiters \in Nat /\ PendingInJoin \in BOOLEAN

VARIABLES
    child,     \* child[e]: the task jfork started for e, or NULL_TASK_ID
    group_of,  \* history: the owner of the task_group e was forked into
    tg,        \* tg[t]: the task_group of t, and its _handles
    join       \* join[t]: the API call that t is inside of, and its locals

joinVars == <<child, group_of, tg, join>>

jvars == <<vars, joinVars>>

(* join[t].kind is
     "none"    t runs user code
     "one"     waits for one handle, without looking at what woke it
     "all"     in the loop of join({...}): the handles whose tasks had not
               ended, finished_ehdl_vec, and how many wakeups are left; next
               says who called it: the user, or TaskGroup:join_all, from the
               user or at the end of the scope
     "any"     in join_any
     "insert"  in TaskGroup:fork, which tracks the handle after jfork returned *)
NoCall == [kind |-> "none", handles |-> {}, finished |-> {}, left |-> 0,
           next |-> "user", drained |-> {}, group |-> NULL_TASK_ID]

NoGroup == [open |-> FALSE, handles |-> {}]

JInit ==
    /\ Init
    /\ child = [e \in Handles |-> NULL_TASK_ID]
    /\ group_of = [e \in Handles |-> NULL_TASK_ID]
    /\ tg = [t \in TaskIds |-> NoGroup]
    /\ join = [t \in TaskIds |-> NoCall]

\* The body that runs is user code.
Free == At("body") /\ join[curr_task].kind = "none"

\* The body that runs was resumed inside of a join, or TaskGroup:fork goes on.
Inside(kind) == At("body") /\ join[curr_task].kind = kind

\* Everything but the waiter lists stays as it is: the body goes on.
GoOn == UNCHANGED <<taskVars, co, removalVars, event_names, task_event,
                    wakeVars, curr_task, stack, cbs, outerVars, ghostVars>>

\* await_noop
AwaitNoop == Yield /\ UNCHANGED <<task_event, cbs>>

Enter(call) == join' = [join EXCEPT ![curr_task] = call]

Return == Enter(NoCall)

\* An assertion in a join fails: an error in the body of the task.
JoinAsserts == Abort("error") /\ UNCHANGED joinVars

----------------------------------------------------------------------------
(* Forks *)

\* fork
Fork(t) ==
    /\ Free \/ stack = <<>>
    /\ AppendTask(t, TRUE)
    /\ UNCHANGED joinVars

\* jfork; the task starts at once
Jfork(e, t) ==
    /\ Free /\ child[e] = NULL_TASK_ID
    /\ AppendTask(t, TRUE)
    /\ child' = [child EXCEPT ![e] = t]

ForkJoinable(e, t) == Jfork(e, t) /\ UNCHANGED <<group_of, tg, join>>

\* Mutant: the event is not sent.
MutNoSend(e) ==
    /\ Free /\ child[e] = curr_task /\ ~ tg[curr_task].open
    /\ event_names' = event_names \ {e}
    /\ has_wakeup' = FALSE
    /\ stack' = IF has_wakeup THEN SetTop(stack, NewFrame(Top.id, "wake"))
                ELSE Pop(stack)
    /\ curr_task' = Top.old
    /\ co' = [co EXCEPT ![Top.id] = "dead"]
    /\ pending' = Append(pending, Top.id) /\ nr_pending' = nr_pending + 1
    /\ UNCHANGED <<taskVars, removed, nr_removed, waiters, task_event, owed,
                   pending_wakeup, curr_wakeup, cbs, outerVars, taken, joinVars>>

\* Mutant: the event is not removed.
MutNoRemove(e) ==
    /\ Free /\ child[e] = curr_task /\ ~ tg[curr_task].open
    /\ LET send == waiters[e] # <<>> IN
       /\ pending_wakeup' = IF send THEN Append(pending_wakeup, e)
                            ELSE pending_wakeup
       /\ stack' = IF has_wakeup \/ send
                   THEN SetTop(stack, NewFrame(Top.id, "wake"))
                   ELSE Pop(stack)
    /\ owed' = owed \cup Elems(waiters[e])
    /\ has_wakeup' = FALSE
    /\ curr_task' = Top.old
    /\ co' = [co EXCEPT ![Top.id] = "dead"]
    /\ pending' = Append(pending, Top.id) /\ nr_pending' = nr_pending + 1
    /\ UNCHANGED <<taskVars, removed, nr_removed, eventVars, curr_wakeup, cbs,
                   outerVars, taken, joinVars>>

\* The function of a task started by jfork returns: has_pending_wait, send,
\* remove, and the end of the coroutine.
JforkEnds(e) ==
    /\ Free /\ child[e] = curr_task /\ ~ tg[curr_task].open
    /\ LET send == waiters[e] # <<>> IN
       /\ pending_wakeup' = IF send THEN Append(pending_wakeup, e)
                            ELSE pending_wakeup
       /\ stack' = IF has_wakeup \/ send
                   THEN SetTop(stack, NewFrame(Top.id, "wake"))
                   ELSE Pop(stack)
    /\ owed' = owed \cup Elems(waiters[e])
    /\ event_names' = event_names \ {e}
    /\ has_wakeup' = FALSE
    /\ curr_task' = Top.old
    /\ co' = [co EXCEPT ![Top.id] = "dead"]
    /\ pending' = Append(pending, Top.id) /\ nr_pending' = nr_pending + 1
    /\ UNCHANGED <<taskVars, removed, nr_removed, waiters, task_event,
                   curr_wakeup, cbs, outerVars, taken, joinVars>>

----------------------------------------------------------------------------
(* Joins *)

\* jfork has returned the handle e: its task is not still being started.
Known(e) ==
    /\ child[e] # NULL_TASK_ID
    /\ \A k \in 2 .. Len(stack) :
         ~ (stack[k].id = child[e] /\ stack[k - 1].pc = "body")

Waiting(t) == join[t].kind \in {"one", "all", "any"}

\* The running task can pass e to a join of this kind.
MayJoin(e, kind) ==
    /\ Known(e) /\ child[e] # curr_task
    /\ \A t \in TaskIds : Waiting(t) /\ e \in join[t].handles =>
          \/ Sharing = "all"
          \/ Sharing = "joins" /\ "any" \notin {kind, join[t].kind}

\* e can be passed to join({...}) although its task may have ended.
Settled(e) == PendingInJoin \/ e \in event_names \/ e \notin Elems(pending_wakeup)

\* ehdl:wait()
WaitOne(e) ==
    /\ WaitEvent(e)
    /\ Enter([NoCall EXCEPT !.kind = "one", !.handles = {e}])

\* join(e).  A handle of a task that has ended makes it return at once.
JoinOne(e) ==
    /\ Free /\ MayJoin(e, "one") /\ e \in event_names
    /\ WaitOne(e)
    /\ UNCHANGED <<child, group_of, tg>>

InsertWaiter(S) ==
    /\ \A e \in S : Len(waiters[e]) < MaxWaiters
    /\ waiters' = [e \in Events |-> IF e \in S THEN Append(waiters[e], curr_task)
                                    ELSE waiters[e]]

\* Mutant: join returns at the first wakeup.
MutJoinFirst(S, call) ==
    /\ InsertWaiter(S) /\ AwaitNoop
    /\ Enter([call EXCEPT !.kind = "all", !.handles = S \cap event_names,
                          !.left = 1])

\* join(S) up to its first yield, if it comes to one.  The task becomes a
\* waiter of all handles, and expects a wakeup by those not yet finished.
JoinVec(S, call) ==
    LET expect == S \cap event_names IN
    /\ InsertWaiter(S)
    /\ IF expect = {} THEN GoOn /\ Return
       ELSE AwaitNoop /\ Enter([call EXCEPT !.kind = "all", !.handles = expect,
                                            !.finished = {},
                                            !.left = Cardinality(expect)])

JoinAll(S) ==
    /\ Free /\ S # {} /\ \A e \in S : MayJoin(e, "all") /\ Settled(e)
    /\ JoinVec(S, NoCall)
    /\ UNCHANGED <<child, group_of, tg>>

\* Mutant: the handles that were added meanwhile are not joined.
MutDrainOnce(drained, next) ==
    LET todo == tg[curr_task].handles \cap event_names
    IN  IF todo = {} \/ drained # {}
        THEN /\ GoOn /\ UNCHANGED waiters
             /\ Return
             /\ tg' = IF next = "close" THEN [tg EXCEPT ![curr_task] = NoGroup]
                      ELSE tg
        ELSE /\ \A e \in todo : MayJoin(e, "all")
             /\ JoinVec(todo, [NoCall EXCEPT !.next = next,
                                             !.drained = todo])
             /\ UNCHANGED tg

\* One round of the loop of TaskGroup:join_all: the handles added
\* since the last round are joined, if their tasks have not ended.
JoinGroup(drained, next) ==
    LET g == tg[curr_task]
        todo == (g.handles \ drained) \cap event_names
    IN  IF todo = {}
        THEN /\ GoOn /\ UNCHANGED waiters
             /\ Return
             /\ tg' = IF next = "close" THEN [tg EXCEPT ![curr_task] = NoGroup]
                      ELSE tg
        ELSE /\ \A e \in todo : MayJoin(e, "all")
             /\ JoinVec(todo, [NoCall EXCEPT !.next = next,
                                             !.drained = g.handles])
             /\ UNCHANGED tg

\* The rest of the loop of join, once the task is resumed
JoinResumed ==
    /\ Inside("all")
    /\ LET j == join[curr_task]
       IN  IF curr_wakeup = NoEvent \/ curr_wakeup \in j.finished
           THEN JoinAsserts
           ELSE /\ \/ /\ j.left > 1
                      /\ AwaitNoop
                      /\ Enter([j EXCEPT !.left = @ - 1,
                                         !.finished = @ \cup {curr_wakeup}])
                      /\ UNCHANGED <<waiters, tg>>
                   \/ /\ j.left = 1 /\ j.next = "user"
                      /\ GoOn /\ Return
                      /\ UNCHANGED <<waiters, tg>>
                   \/ /\ j.left = 1 /\ j.next # "user"
                      /\ JoinGroup(j.drained, j.next)
                /\ UNCHANGED <<child, group_of>>

OneResumed ==
    /\ Inside("one")
    /\ GoOn /\ Return
    /\ UNCHANGED <<waiters, child, group_of, tg>>

\* join_any(S), when none of the tasks has ended; otherwise it returns at once
WaitAny(S) ==
    \/ \E e \in S : S = {e} /\ WaitOne(e)
    \/ /\ Cardinality(S) > 1
       /\ InsertWaiter(S)
       /\ AwaitNoop
       /\ Enter([NoCall EXCEPT !.kind = "any", !.handles = S])

JoinAny(S) ==
    /\ Free /\ S # {} /\ \A e \in S : MayJoin(e, "any")
    /\ S \subseteq event_names
    /\ WaitAny(S)
    /\ UNCHANGED <<child, group_of, tg>>

\* The loop that removes the last entry of t
Unregister(s, t) ==
    IF Positions(s, t) = {} THEN s
    ELSE RemoveAt(s, CHOOSE k \in Positions(s, t) :
                       \A j \in Positions(s, t) : j <= k)

AnyResumed ==
    /\ Inside("any")
    /\ LET S == join[curr_task].handles
       IN  IF curr_wakeup \notin S THEN JoinAsserts
           ELSE /\ waiters' = [e \in Events |->
                                 IF e \in S \ {curr_wakeup}
                                 THEN Unregister(waiters[e], curr_task)
                                 ELSE waiters[e]]
                /\ GoOn /\ Return
                /\ UNCHANGED <<child, group_of, tg>>

----------------------------------------------------------------------------
(* task_group *)

\* task_group calls its body.
OpenGroup ==
    /\ Free /\ ~ tg[curr_task].open
    /\ tg' = [tg EXCEPT ![curr_task].open = TRUE]
    /\ GoOn
    /\ UNCHANGED <<waiters, child, group_of, join>>

\* The owner of a group, and the tasks forked into it, have tg.
InGroup(g) ==
    \/ curr_task = g
    \/ \E e \in Handles : child[e] = curr_task /\ group_of[e] = g

\* TaskGroup:fork, up to the return of jfork ...
GroupFork(g, e, t) ==
    /\ Free /\ tg[g].open /\ InGroup(g)
    /\ Jfork(e, t)
    /\ group_of' = [group_of EXCEPT ![e] = g]
    /\ Enter([NoCall EXCEPT !.kind = "insert", !.handles = {e}, !.group = g])
    /\ UNCHANGED tg

\* Mutant: the second result of jfork, the task id, is tracked.
MutInsertTask ==
    /\ Inside("insert")
    /\ tg' = [tg EXCEPT ![join[curr_task].group].handles =
                @ \cup {child[e] : e \in join[curr_task].handles}]
    /\ GoOn /\ Return
    /\ UNCHANGED <<waiters, child, group_of>>

\* ... and table_insert
GroupInsert ==
    /\ Inside("insert")
    /\ tg' = [tg EXCEPT ![join[curr_task].group].handles =
                @ \cup join[curr_task].handles]
    /\ GoOn /\ Return
    /\ UNCHANGED <<waiters, child, group_of>>

\* tg:join_all() in the body of the group, or at its end
GroupJoinAll(next) ==
    /\ Free /\ tg[curr_task].open
    /\ JoinGroup({}, next)
    /\ UNCHANGED <<child, group_of>>

\* tg:join_any()
GroupJoinAny ==
    /\ Free /\ tg[curr_task].open
    /\ LET S == tg[curr_task].handles \cap event_names
       IN  (\A e \in S : MayJoin(e, "any")) /\ WaitAny(S)
    /\ UNCHANGED <<child, group_of, tg>>

----------------------------------------------------------------------------
\* What else a body does.  A task leaves its group before it ends.
UserStep ==
    /\ Free
    /\ \/ AwaitCallback
       \/ \E e \in Events \ Handles :
             \/ SendEvent(e)
             \/ Len(waiters[e]) < MaxUserWaiters /\ WaitEvent(e)
       \/ /\ \A e \in Handles : child[e] # curr_task
          /\ ~ tg[curr_task].open /\ Finish
       \/ ExitTask
    /\ UNCHANGED joinVars

JBody ==
    \/ UserStep
    \/ \E e \in Handles : JforkEnds(e)
    \/ \E e \in Handles : JoinOne(e)
    \/ \E S \in SUBSET Handles : JoinAll(S) \/ JoinAny(S)
    \/ \E t \in TaskIds : Fork(t) \/ \E e \in Handles : ForkJoinable(e, t)
    \/ \E g, t \in TaskIds, e \in Handles : GroupFork(g, e, t)
    \/ OpenGroup \/ GroupJoinAny
    \/ \E next \in {"all", "close"} : GroupJoinAll(next)

\* What a join does when its task is resumed
JoinSteps == OneResumed \/ JoinResumed \/ AnyResumed \/ GroupInsert

JEngine ==
    /\ \/ Engine \/ StartCallback
       \/ \E t \in TaskIds : SimEvent(t)
    /\ UNCHANGED joinVars

JNext == JEngine \/ JBody \/ JoinSteps

JSpec == JInit /\ [][JNext]_jvars

----------------------------------------------------------------------------
(* Properties *)

Finished(e) == child[e] # NULL_TASK_ID /\ e \notin event_names

\* Type correctness.  The handles that a join has counted are among those it
\* was called with.
JoinTypeOK ==
    /\ child \in [Handles -> 0 .. MaxTaskId]
    /\ group_of \in [Handles -> 0 .. MaxTaskId]
    /\ tg \in [TaskIds -> [open : BOOLEAN, handles : SUBSET Handles]]
    /\ \A t \in TaskIds :
         /\ join[t].kind \in {"none", "one", "all", "any", "insert"}
         /\ join[t].handles \subseteq Handles
         /\ join[t].finished \subseteq join[t].handles
         /\ join[t].left \in 0 .. Cardinality(Handles)
         /\ join[t].next \in {"user", "all", "close"}

\* The handle that a task inside of join waits for, has not counted yet, and
\* whose task has ended
AwaitedEnd(e) ==
    e \in join[curr_task].handles \ join[curr_task].finished /\ Finished(e)

\* join({...}) counts wakeups, and finished_ehdl_vec of a foreign event is nil,
\* which its assertion lets pass: a task that is resumed inside of it, or of
\* join_any, was woken by one of its own handles, for the first time and after
\* the end of its task, or else finds curr_wakeup_event_id nil, as a later
\* waiter does behind a nested wake loop, and fails at init.lua:806 or 866
\* instead of counting.
JoinWokenByHandle ==
    \A kind \in {"all", "any"} : Inside(kind) =>
        curr_wakeup = NoEvent \/ AwaitedEnd(curr_wakeup)

\* The assertions of join and join_any hold (init.lua:806, 807, 866, 891).
JoinAssertionsHold ==
    \A kind \in {"all", "any"} : Inside(kind) => AwaitedEnd(curr_wakeup)

\* "Wait here until both tasks finished": a join of one or of several handles
\* returns only after all their tasks have ended.
JoinAfterEnd ==
    [][\A t \in TaskIds :
         join[t].kind \in {"one", "all"} /\ join'[t].handles # join[t].handles
           => \A e \in join[t].handles : Finished(e)]_jvars

\* Nobody is left behind in a join: when the scheduler has returned to the
\* simulator, a task in join waits for a task whose function has not returned,
\* and a task in join_any only for such.
Behind(t) ==
    LET ended == {e \in join[t].handles : co[child[e]] = "dead"}
    IN  IF join[t].kind = "any" THEN ended # {} ELSE ended = join[t].handles

JoinNotStuck ==
    stack = <<>> /\ status = "ok" =>
        \A t \in TaskIds : Waiting(t) => ~ Behind(t)

\* "All tasks guaranteed to be finished here": when task_group returns, every
\* task that was forked into the group has ended, those forked by other
\* members of the group while it was waiting included.
GroupComplete ==
    [][\A g \in TaskIds : tg[g].open /\ ~ tg'[g].open =>
         \A e \in Handles : group_of[e] = g => Finished(e)]_jvars
=============================================================================
