----------------------------- MODULE JoinProofs -----------------------------
(* Proofs about Join, for every number of tasks and handles and all bounds,
   under JoinUse: tasks do not share a handle, and join({...}) is not given the
   handle of a task that has ended while its event is still pending.       *)
EXTENDS Join, WakeProofs, ListProofs

----------------------------------------------------------------------------
(* The inductive invariant *)

\* What the proofs assume of the callers of join.
JoinUse == Sharing = "none" /\ ~ PendingInJoin

Calls == [kind : {"none", "one", "all", "any", "insert"},
          handles : SUBSET Handles, finished : SUBSET Handles, left : Nat,
          next : {"user", "all", "close"}, drained : SUBSET Handles,
          group : 0 .. MaxTaskId]

JoinTypes ==
    /\ child \in [Handles -> 0 .. MaxTaskId]
    /\ group_of \in [Handles -> 0 .. MaxTaskId]
    /\ tg \in [TaskIds -> [open : BOOLEAN, handles : SUBSET Handles]]
    /\ join \in [TaskIds -> Calls]

\* No task is removed, and tasks start when they are created.
PlainInv == removed = {} /\ nr_removed = 0 /\ running \subseteq fired

\* The handles that a join has still to be woken by
Open(j) == j.handles \ j.finished

\* The locals of an API call agree with each other, with the tasks started for
\* the handles (ch) and with the handles that are not removed yet (ev).
CallOk(j, ch, ev) ==
    /\ j.finished \subseteq j.handles
    /\ j.kind = "all" => j.left = Cardinality(Open(j)) /\ Open(j) # {}
    /\ j.kind # "all" => j.finished = {} /\ j.left = 0
    /\ j.kind \in {"one", "insert"} => \E e \in Handles : j.handles = {e}
    /\ j.kind = "any" => j.handles # {}
    /\ \A e \in j.handles : ch[e] # NULL_TASK_ID
    /\ \A e \in j.finished : e \notin ev
    /\ j.kind = "all" /\ j.next # "user" =>
         \A e \in j.drained : e \notin ev \/ e \in j.handles

CallInv == \A t \in TaskIds : CallOk(join[t], child, event_names)

\* A handle has a task of its own, and is removed when that task ends.
ChildInv ==
    /\ \A e, f \in Handles : child[e] = child[f] /\ child[e] # NULL_TASK_ID => e = f
    /\ \A e \in Handles : IF child[e] = NULL_TASK_ID THEN e \in event_names
                          ELSE /\ child[e] \in archived
                               /\ e \notin event_names <=> co[child[e]] = "dead"
    /\ \A g \in TaskIds : \A e \in tg[g].handles : child[e] # NULL_TASK_ID
    /\ \A t \in TaskIds : t \notin archived => co[t] = "none"

\* A handle is sent when its task has ended.
SentInv == \A k \in 1 .. Len(pending_wakeup) :
             pending_wakeup[k] \in Handles => pending_wakeup[k] \notin event_names

\* The event of a handle whose task has ended is sent no more.  Its waiter list
\* holds those who passed it to a join({...}) after that.
Spent(e) == e \in Handles /\ e \notin event_names /\ e \notin Elems(pending_wakeup)

\* The waiters that can still be woken
Due == [e \in Events |-> IF Spent(e) THEN <<>> ELSE waiters[e]]

\* The waiters of the events that are not handles
Plain(w) == [e \in Events |-> IF e \in Handles THEN <<>> ELSE w[e]]

\* Callbacks, waiter lists of the other events, snapshots and the frame that is
\* about to enter a coroutine hold a task at most once.
PlainTask(c, w, s, x, t) ==
    /\ OneSource(c, w, s, t)
    /\ Sourced(c, w, s, t) => x[t] \in {"suspended", "fresh"}

PlainSource(c, w, s, x) ==
    /\ UniqueWaiters(w)
    /\ \A t \in TaskIds : PlainTask(c, w, s, x, t)

\* Among the handles, those in S have t as a waiter.
Registered(w, t, S) == \A e \in Handles : t \in Elems(w[e]) <=> e \in S

\* t sleeps in its join, and waits for every open handle of it.
Parked(t) ==
    /\ co[t] = "suspended" /\ ~ InSnaps(stack, t) /\ ~ IsEntering(stack, t)
    /\ Registered(Due, t, Open(join[t]))

\* t is on its way from a snapshot to the rest of its join.
Arriving(t) ==
    /\ stack # <<>>
    /\ \/ Top.pc = "wake" /\ Top.snap = <<t>> /\ co[t] = "suspended"
       \/ Top.pc = "woken" /\ Top.id = t /\ co[t] = "suspended"
       \/ Top.pc = "body" /\ Top.id = t /\ t \notin owed

\* t was woken by an open handle, whose task has ended.
Delivered(t) ==
    /\ curr_wakeup \in Open(join[t]) /\ curr_wakeup \notin event_names
    /\ Registered(Due, t, Open(join[t]) \ {curr_wakeup})
    /\ Arriving(t)

\* A task in a join has no source but its handles.
HandleTask(t) ==
    IF Waiting(t)
    THEN /\ cbs[t] = 0 /\ ~ InWaiters(Plain(Due), t)
         /\ Parked(t) \/ Delivered(t)
    ELSE Registered(Due, t, {})

HandleSource ==
    /\ \A e \in Handles : Len(Due[e]) <= 1
    /\ \A t \in TaskIds : HandleTask(t)

\* The waiters of a handle whose task has ended will be woken.
DeliverInv ==
    \A e \in Handles : e \notin event_names /\ Due[e] # <<>> =>
      \E k \in 1 .. Len(pending_wakeup) :
        pending_wakeup[k] = e /\ (has_wakeup \/ WillTake(stack, k))

\* TaskGroup:fork goes on in its body, below the body of the task it forked,
\* and it was called by the owner or a task of the group.
InsertTask(u) ==
    /\ \A e \in join[u].handles : group_of[e] = join[u].group
    /\ \/ u = join[u].group
       \/ \E e \in Handles : child[e] = u /\ group_of[e] = join[u].group
    /\ \E k \in 1 .. Len(stack) :
         /\ BodyAt(stack, k, u)
         /\ \A m \in 1 .. Len(stack), e \in join[u].handles :
              BodyAt(stack, m, child[e]) => m > k

InsertInv == \A u \in TaskIds : join[u].kind = "insert" => InsertTask(u)

\* A task of a group has ended, or its handle is tracked or is about to be.
GroupInv ==
    \A e \in Handles : group_of[e] # NULL_TASK_ID =>
      \/ e \notin event_names /\ child[e] # NULL_TASK_ID
      \/ e \in tg[group_of[e]].handles
      \/ \E u \in TaskIds : join[u].kind = "insert" /\ join[u].handles = {e}

\* The part that holds however the simulation ended
BaseInv == IInv /\ PlainInv /\ JoinTypes /\ CallInv /\ ChildInv /\ SentInv

LiveInv ==
    /\ StackOk /\ PlainSource(cbs, Plain(Due), stack, co) /\ HandleSource
    /\ DeliverInv /\ InsertInv /\ GroupInv

JInv == BaseInv /\ (status = "ok" => LiveInv)

----------------------------------------------------------------------------
(* What a step keeps *)

\* A task keeps its place among the sources if it gets no new one.
LEMMA PlainKept ==
    ASSUME NEW c, NEW w, NEW s, NEW x, NEW y, PlainTask(c, w, s, x, y),
           NEW d, NEW v, NEW r, NEW z, d[y] = c[y], z[y] = x[y],
           InWaiters(v, y) => InWaiters(w, y), InSnaps(r, y) => InSnaps(s, y),
           IsEntering(r, y) => IsEntering(s, y)
    PROVE  PlainTask(d, v, r, z, y)
  BY DEF PlainTask, OneSource, Sourced

\* A task that does not go on with its join keeps the sources of the join.
LEMMA HandleKept ==
    ASSUME NEW t \in TaskIds, HandleTask(t), Waiting(t) => Parked(t),
           join'[t] = join[t],
           \A e \in Handles : t \in Elems(Due'[e]) <=> t \in Elems(Due[e]),
           Waiting(t) =>
             /\ cbs'[t] = cbs[t] /\ co'[t] = co[t]
             /\ InWaiters(Plain(Due'), t) => InWaiters(Plain(Due), t)
             /\ InSnaps(stack', t) => InSnaps(stack, t)
             /\ IsEntering(stack', t) => IsEntering(stack, t)
    PROVE  HandleTask(t)'
  BY DEF HandleTask, Waiting, Parked, Registered

\* A body that waits to track a handle goes on below the task it forked.
LEMMA InsertKept ==
    ASSUME NEW u \in TaskIds, InsertTask(u), join'[u] = join[u],
           \A e \in Handles : child[e] # NULL_TASK_ID =>
             child'[e] = child[e] /\ group_of'[e] = group_of[e],
           \A e \in join[u].handles : e \in Handles /\ child[e] # NULL_TASK_ID,
           \A k : BodyAt(stack, k, u) => BodyAt(stack', k, u),
           \A m, y : \/ ~ BodyAt(stack', m, y) \/ BodyAt(stack, m, y)
                     \/ \A k : BodyAt(stack, k, u) => m > k
    PROVE  InsertTask(u)'
  <1>1. PICK k \in 1 .. Len(stack) :
          /\ BodyAt(stack, k, u)
          /\ \A m \in 1 .. Len(stack), e \in join[u].handles :
               BodyAt(stack, m, child[e]) => m > k
    BY DEF InsertTask
  <1>2. BodyAt(stack', k, u) /\ k \in 1 .. Len(stack')
    BY <1>1 DEF BodyAt
  <1>3. ASSUME NEW m \in 1 .. Len(stack'), NEW e \in join[u].handles,
               BodyAt(stack', m, child'[e])
        PROVE  m > k
    <2>1. BodyAt(stack', m, child[e])
      BY <1>3
    <2>2. CASE BodyAt(stack, m, child[e])
      <3>1. m \in 1 .. Len(stack)
        BY <2>2 DEF BodyAt
      <3> QED
        BY <1>1, <2>2, <3>1
    <2> QED
      BY <1>1, <2>1, <2>2
  <1>4. /\ \A e \in join[u].handles : group_of'[e] = join[u].group
        /\ \/ u = join[u].group
           \/ \E e \in Handles : child'[e] = u /\ group_of'[e] = join[u].group
    BY TaskIdLemma DEF InsertTask
  <1> QED
    BY <1>2, <1>3, <1>4 DEF InsertTask

\* The locals of a call stay in order while handles get tasks and end.
LEMMA CallKept ==
    ASSUME NEW j, NEW ch, NEW ev, CallOk(j, ch, ev), NEW dh, NEW fv,
           \A e \in j.handles : e \in Handles,
           \A e \in Handles : ch[e] # NULL_TASK_ID => dh[e] = ch[e],
           fv \subseteq ev
    PROVE  CallOk(j, dh, fv)
  BY DEF CallOk

\* What a step of the scheduler keeps that leaves the tables of Join alone, and
\* neither creates nor ends a task.
LEMMA BaseKept ==
    ASSUME BaseInv, IInv', UNCHANGED joinVars,
           UNCHANGED <<event_names, archived, removed, nr_removed>>,
           running' \subseteq fired',
           \A t \in TaskIds : /\ co'[t] = "dead" <=> co[t] = "dead"
                              /\ co'[t] = "none" <=> co[t] = "none",
           \A k \in 1 .. Len(pending_wakeup') : pending_wakeup'[k] \in Handles =>
             k \in 1 .. Len(pending_wakeup) /\ pending_wakeup[k] = pending_wakeup'[k]
    PROVE  BaseInv'
  <1>1. PlainInv' /\ JoinTypes' /\ CallInv'
    BY DEF BaseInv, PlainInv, JoinTypes, CallInv, joinVars
  <1>2. ChildInv'
    <2>1. \A e \in Handles : child[e] \in 0 .. MaxTaskId
      BY DEF BaseInv, JoinTypes
    <2>2. \A e \in Handles : child[e] # NULL_TASK_ID => child[e] \in TaskIds
      BY <2>1 DEF NULL_TASK_ID, TaskIds
    <2> QED
      BY <2>2 DEF BaseInv, ChildInv, joinVars
  <1>3. SentInv'
    BY DEF BaseInv, SentInv
  <1> QED
    BY <1>1, <1>2, <1>3 DEF BaseInv

\* What a step keeps of the groups and the bodies that fork into them.
LEMMA GroupsKept ==
    ASSUME BaseInv, LiveInv, UNCHANGED joinVars, event_names' = event_names,
           \A k, u : BodyAt(stack, k, u) /\ join[u].kind = "insert" => BodyAt(stack', k, u),
           \A m, y : \/ ~ BodyAt(stack', m, y) \/ BodyAt(stack, m, y)
                     \/ \A k, u : BodyAt(stack, k, u) => m > k
    PROVE  InsertInv' /\ GroupInv'
  <1>1. GroupInv'
    BY DEF LiveInv, GroupInv, joinVars
  <1>2. ASSUME NEW u \in TaskIds, join[u].kind = "insert"
        PROVE  InsertTask(u)'
    <2>1. InsertTask(u)
      BY <1>2 DEF LiveInv, InsertInv
    <2>2. \A e \in join[u].handles : e \in Handles /\ child[e] # NULL_TASK_ID
      BY <1>2 DEF BaseInv, CallInv, CallOk, JoinTypes, Calls
    <2> QED
      BY <1>2, <2>1, <2>2, InsertKept DEF joinVars
  <1> QED
    BY <1>1, <1>2 DEF InsertInv, joinVars

\* The waiters of the handles that were sent are still ahead of a loop.
LEMMA DeliverKept ==
    ASSUME IInv, DeliverInv,
           \A e \in Handles : e \notin event_names' /\ Due'[e] # <<>> =>
             e \notin event_names /\ Due[e] # <<>>,
           \A k \in 1 .. Len(pending_wakeup) :
             k \in 1 .. Len(pending_wakeup') /\ pending_wakeup'[k] = pending_wakeup[k],
           \A k \in Nat : k >= 1 /\ (has_wakeup \/ WillTake(stack, k)) =>
             has_wakeup' \/ WillTake(stack', k)
    PROVE  DeliverInv'
  <1> SUFFICES ASSUME NEW e \in Handles, e \notin event_names', Due'[e] # <<>>
               PROVE  \E k \in 1 .. Len(pending_wakeup') :
                        pending_wakeup'[k] = e /\ (has_wakeup' \/ WillTake(stack', k))
    BY DEF DeliverInv
  <1>1. PICK k \in 1 .. Len(pending_wakeup) :
          pending_wakeup[k] = e /\ (has_wakeup \/ WillTake(stack, k))
    BY DEF DeliverInv
  <1>2. k \in Nat /\ k >= 1
    BY DEF IInv, TypeOK
  <1> QED
    BY <1>1, <1>2

\* Spent handles have no waiters that are due.
LEMMA DueFacts ==
    ASSUME waiters \in [Events -> Seq(TaskIds)]
    PROVE  /\ Due \in [Events -> Seq(TaskIds)]
           /\ \A e \in Events : Spent(e) => Due[e] = <<>>
           /\ \A e \in Events : ~ Spent(e) => Due[e] = waiters[e]
           /\ \A e \in Events : e \notin Handles => Due[e] = waiters[e]
           /\ \A e \in Events : e \in event_names => Due[e] = waiters[e]
  <1>1. <<>> \in Seq(TaskIds)
    OBVIOUS
  <1> QED
    BY <1>1 DEF Due, Spent

\* A step that sends no handle leaves those spent that are.
LEMMA SpentSame ==
    ASSUME UNCHANGED <<event_names, pending_wakeup>>
    PROVE  \A e : Spent(e)' <=> Spent(e)
  BY DEF Spent

\* What is due stays so.
LEMMA DueSame ==
    ASSUME UNCHANGED <<waiters, event_names, pending_wakeup>>
    PROVE  Due' = Due
  BY DEF Due, Spent

\* What is due after a step of a body that goes on.
LEMMA DueNext ==
    ASSUME UNCHANGED <<event_names, pending_wakeup>>,
           waiters' \in [Events -> Seq(TaskIds)]
    PROVE  /\ Due' \in [Events -> Seq(TaskIds)]
           /\ \A e \in Events : Spent(e) => Due'[e] = <<>>
           /\ \A e \in Events : ~ Spent(e) => Due'[e] = waiters'[e]
  <1>1. <<>> \in Seq(TaskIds)
    OBVIOUS
  <1>2. Due' = [e \in Events |-> IF Spent(e) THEN <<>> ELSE waiters'[e]]
    BY SpentSame DEF Due
  <1> QED
    BY <1>1, <1>2

\* What the invariant says while the simulation runs.
LEMMA LiveFacts ==
    ASSUME JInv, status = "ok"
    PROVE  /\ IInv /\ BaseInv /\ LiveInv /\ StackOk
           /\ UniqueWaiters(Plain(Due))
           /\ \A t \in TaskIds : PlainTask(cbs, Plain(Due), stack, co, t)
           /\ \A e \in Handles : Len(Due[e]) <= 1
           /\ \A t \in TaskIds : HandleTask(t)
           /\ DeliverInv
           /\ waiters \in [Events -> Seq(TaskIds)]
           /\ Due \in [Events -> Seq(TaskIds)] /\ Handles \subseteq Events
  BY DueFacts, JoinAssumption DEF JInv, BaseInv, LiveInv, PlainSource, HandleSource, IInv, TypeOK

\* The lists of the events that are not handles
LEMMA PlainFacts ==
    ASSUME NEW w \in [Events -> Seq(TaskIds)]
    PROVE  /\ Plain(w) \in [Events -> Seq(TaskIds)]
           /\ \A e \in Events : e \notin Handles => Plain(w)[e] = w[e]
           /\ \A e \in Handles : Plain(w)[e] = <<>>
           /\ \A v : (\A e \in Events : e \notin Handles => v[e] = w[e]) => Plain(v) = Plain(w)
  <1>1. <<>> \in Seq(TaskIds)
    OBVIOUS
  <1> QED
    BY <1>1, JoinAssumption DEF Plain

\* The waiter of a handle sleeps in a join, or is on its way.
LEMMA HandleWaiter ==
    ASSUME JInv, status = "ok", NEW e \in Handles, NEW y \in Elems(Due[e])
    PROVE  y \in TaskIds /\ Waiting(y) /\ e \in Open(join[y]) /\ HandleTask(y)
  <1>1. y \in TaskIds
    BY LiveFacts DEF Elems
  <1>2. HandleTask(y)
    BY <1>1, LiveFacts
  <1>3. Waiting(y)
    BY <1>2 DEF HandleTask, Registered
  <1> QED
    BY <1>1, <1>2, <1>3 DEF HandleTask, Parked, Delivered, Registered

\* schedule_task enters a coroutine: a task that was woken goes on with its join.
LEMMA ResumeLive ==
    ASSUME JInv, Resume, UNCHANGED joinVars
    PROVE  JInv'
  <1> DEFINE t == Top.id
  <1>k. /\ IInv /\ BaseInv /\ LiveInv /\ StackOk
        /\ UniqueWaiters(Plain(Due))
        /\ \A y \in TaskIds : PlainTask(cbs, Plain(Due), stack, co, y)
        /\ \A e \in Handles : Len(Due[e]) <= 1
        /\ \A y \in TaskIds : HandleTask(y)
        /\ DeliverInv /\ status = "ok" /\ Due \in [Events -> Seq(TaskIds)]
    BY LiveFacts DEF Resume, At
  <1>b. /\ stack # <<>> /\ t \in TaskIds /\ Top.pc \in Entering
        /\ Top.pc # "body" /\ Top.pc # "wake" /\ Len(stack) \in Nat
    BY <1>k, EnterFacts DEF Resume
  <1>u. /\ cbs' = cbs /\ Due' = Due /\ status' = status
        /\ UNCHANGED <<event_names, archived, removed, nr_removed>>
        /\ UNCHANGED <<pending_wakeup, has_wakeup, curr_wakeup>>
        /\ running' = running \ Elems(pending) /\ fired' = fired \ Elems(pending)
        /\ owed' = owed \ {t} /\ co[t] \in Resumable
    BY DueSame DEF Resume, eventVars, wakeVars, outerVars
  <1>v. /\ \A y : InSnaps(stack', y) <=> InSnaps(stack, y)
        /\ \A y : ~ IsEntering(stack', y)
        /\ UniqueSnaps(stack') /\ BodyInv(stack', co')
        /\ co'[t] = "active"
        /\ \A y \in TaskIds : y # t => co'[y] = co[y]
        /\ \A k, y : BodyAt(stack', k, y) <=>
             BodyAt(stack, k, y) \/ (k = Len(stack) /\ y = t)
        /\ stack' # <<>> /\ stack'[Len(stack')].pc = "body"
        /\ stack'[Len(stack')].id = t
        /\ \A j \in Nat : WillTake(stack, j) => WillTake(stack', j)
    BY <1>k, ResumeView
  <1>e. IsEntering(stack, t) /\ \A y : IsEntering(stack, y) => y = t
    BY <1>b DEF IsEntering, Top
  <1>1. BaseInv'
    <2>1. IInv'
      BY <1>k, ResumeInv
    <2>2. running' \subseteq fired'
      BY <1>k, <1>u DEF BaseInv, PlainInv
    <2>3. \A y \in TaskIds : /\ co'[y] = "dead" <=> co[y] = "dead"
                             /\ co'[y] = "none" <=> co[y] = "none"
      BY <1>u, <1>v DEF Resumable
    <2> QED
      BY <1>k, <1>u, <2>1, <2>2, <2>3, BaseKept
  <1>2. PlainSource(cbs', Plain(Due'), stack', co')
    <2>1. ASSUME NEW y \in TaskIds
          PROVE  PlainTask(cbs', Plain(Due'), stack', co', y)
      <3>1. PlainTask(cbs, Plain(Due), stack, co, y)
        BY <1>k
      <3>2. CASE y = t
        BY <1>e, <1>u, <1>v, <3>1, <3>2 DEF PlainTask, OneSource, Sourced
      <3>3. CASE y # t
        BY <1>u, <1>v, <3>1, <3>3, PlainKept
      <3> QED
        BY <3>2, <3>3
    <2> QED
      BY <1>k, <1>u, <2>1 DEF PlainSource
  <1>3. HandleSource'
    <2>1. ASSUME NEW y \in TaskIds
          PROVE  HandleTask(y)'
      <3>1. HandleTask(y)
        BY <1>k
      <3>2. CASE Waiting(y) /\ ~ Parked(y)
        <4>1. Delivered(y) /\ cbs[y] = 0 /\ ~ InWaiters(Plain(Due), y)
          BY <3>1, <3>2 DEF HandleTask
        <4>2. y = t
          BY <1>b, <4>1 DEF Delivered, Arriving
        <4>3. Delivered(y)'
          BY <1>u, <1>v, <4>1, <4>2 DEF Delivered, Arriving, Registered, Open, joinVars, Top
        <4> QED
          BY <1>u, <3>2, <4>1, <4>3 DEF HandleTask, Waiting, joinVars
      <3>3. CASE Waiting(y) => Parked(y)
        <4>1. Waiting(y) => y # t
          BY <1>e, <3>3 DEF Parked
        <4> QED
          BY <1>u, <1>v, <3>1, <3>3, <4>1, HandleKept DEF joinVars
      <3> QED
        BY <3>2, <3>3
    <2> QED
      BY <1>k, <1>u, <2>1 DEF HandleSource
  <1>4. DeliverInv'
    BY <1>k, <1>u, <1>v, DeliverKept
  <1>5. InsertInv' /\ GroupInv'
    <2>1. \A k, u : BodyAt(stack, k, u) => Len(stack) > k
      <3> SUFFICES ASSUME NEW k, NEW u, BodyAt(stack, k, u)
                   PROVE  Len(stack) > k
        OBVIOUS
      <3>1. k \in 1 .. Len(stack) /\ k # Len(stack)
        BY <1>b DEF BodyAt, Top
      <3> QED
        BY <1>b, <3>1
    <2> QED
      BY <1>k, <1>u, <1>v, <2>1, GroupsKept
  <1> QED
    BY <1>u, <1>v, <1>1, <1>2, <1>3, <1>4, <1>5 DEF JInv, LiveInv, StackOk

\* A list of at most one element
LEMMA SingleList ==
    ASSUME NEW q \in Seq(TaskIds), Len(q) <= 1, NEW y \in Elems(q)
    PROVE  q = <<y>>
  <1>1. PICK i \in 1 .. Len(q) : q[i] = y
    BY DEF Elems
  <1>2. Len(q) = 1 /\ q[1] = y /\ y \in TaskIds
    <2> DEFINE n == Len(q)
    <2>1. n \in Nat /\ i \in 1 .. n /\ n <= 1
      OBVIOUS
    <2> HIDE DEF n
    <2>2. n = 1 /\ i = 1
      BY ONLY <2>1
    <2> QED
      BY <1>1, <2>1, <2>2 DEF n
  <1> DEFINE r == <<y>>
  <1>3. r \in Seq(TaskIds) /\ Len(r) = 1 /\ r[1] = y
    BY <1>2
  <1> HIDE DEF r
  <1>4. Len(q) = Len(r) /\ \A k \in 1 .. Len(q) : q[k] = r[k]
    BY <1>2, <1>3
  <1>5. q = r
    BY <1>3, <1>4, SeqEqual
  <1> QED
    BY <1>5 DEF r

\* The wake loop takes an event.  It takes a handle only when the task of the
\* handle has ended, and the task that waits for it is woken from now on.
LEMMA TakeEventLive ==
    ASSUME JInv, TakeEvent, UNCHANGED joinVars
    PROVE  JInv'
  <1> DEFINE e == pending_wakeup[Top.pos]
  <1>k. /\ IInv /\ BaseInv /\ LiveInv /\ StackOk
        /\ UniqueWaiters(Plain(Due))
        /\ \A y \in TaskIds : PlainTask(cbs, Plain(Due), stack, co, y)
        /\ \A g \in Handles : Len(Due[g]) <= 1
        /\ \A y \in TaskIds : HandleTask(y)
        /\ DeliverInv /\ status = "ok" /\ Due \in [Events -> Seq(TaskIds)]
        /\ Handles \subseteq Events
    BY LiveFacts DEF TakeEvent, At
  <1>b. /\ stack # <<>> /\ Top.snap = <<>> /\ Top.pc = "wake"
        /\ Top.pos \in 1 .. Len(pending_wakeup) /\ e \in Events
    <2>1. Top.pos \in 1 .. Len(pending_wakeup)
      BY <1>k, WakeFacts DEF TakeEvent, IInv, TypeOK
    <2> QED
      BY <1>k, <2>1, ElementOfSeq DEF TakeEvent, At, IInv, TypeOK
  <1>u. /\ UNCHANGED <<cbs, status, event_names, archived, removed, nr_removed>>
        /\ UNCHANGED <<pending_wakeup, has_wakeup, running, fired, co, owed>>
        /\ curr_wakeup' = e
    BY DEF TakeEvent, taskVars, removalVars, outerVars
  <1>e. e \in Handles => e \notin event_names
    BY <1>b, <1>k DEF BaseInv, SentInv
  <1> HIDE DEF e
  <1>p. /\ Plain(Due) \in [Events -> Seq(TaskIds)]
        /\ \A g \in Events : g \notin Handles => Plain(Due)[g] = Due[g]
    BY <1>k, PlainFacts
  <1>n. \A y \in TaskIds : Waiting(y) => Parked(y)
    <2>1. \A y \in TaskIds : ~ Delivered(y)
      <3>1. \A y : <<y>> # <<>>
        OBVIOUS
      <3> QED
        BY <1>b, <3>1 DEF Delivered, Arriving
    <2> QED
      BY <1>k, <2>1 DEF HandleTask
  <1>h. /\ Distinct(Due[e])
        /\ \A y \in Elems(Due[e]) : y \in TaskIds /\ ~ InSnaps(stack, y)
        /\ e \notin Handles => \A y \in Elems(Due[e]) : InWaiters(Plain(Due), y)
    <2>0. Due[e] \in Seq(TaskIds) /\ Elems(Due[e]) \subseteq TaskIds
      BY <1>b, <1>k DEF Elems
    <2>1. CASE e \in Handles
      <3>1. Distinct(Due[e])
        <4>1. Len(Due[e]) \in Nat /\ Len(Due[e]) <= 1
          BY <1>k, <2>0, <2>1
        <4> QED
          BY <4>1 DEF Distinct
      <3>2. \A y \in Elems(Due[e]) : y \in TaskIds /\ Waiting(y)
        BY <1>k, <2>1, HandleWaiter
      <3> QED
        BY <1>n, <2>1, <3>1, <3>2 DEF Parked
    <2>2. CASE e \notin Handles
      <3>1. Plain(Due)[e] = Due[e]
        BY <1>b, <1>p, <2>2
      <3>2. Distinct(Due[e])
        BY <1>b, <1>k, <3>1 DEF UniqueWaiters, Distinct
      <3>3. \A y \in Elems(Due[e]) : InWaiters(Plain(Due), y)
        BY <1>b, <3>1 DEF InWaiters
      <3> QED
        BY <1>k, <2>0, <3>2, <3>3 DEF PlainTask, OneSource
    <2> QED
      BY <2>1, <2>2
  <1>f. /\ waiters \in [Events -> Seq(TaskIds)] /\ Due[e] = waiters[e]
        /\ \A g : Spent(g)' <=> Spent(g)
    <2>1. waiters \in [Events -> Seq(TaskIds)]
      BY <1>k DEF IInv, TypeOK
    <2>2. ~ Spent(e)
      BY <1>b DEF Spent, Elems, e
    <2>3. \A g : Spent(g)' <=> Spent(g)
      BY <1>u, SpentSame
    <2> QED
      BY <1>b, <2>1, <2>2, <2>3, DueFacts
  <1>v. /\ Due'[e] = <<>>
        /\ \A g \in Events : g # e => Due'[g] = Due[g]
        /\ \A y : InSnaps(stack', y) <=> InSnaps(stack, y) \/ y \in Elems(Due[e])
        /\ \A y : ~ IsEntering(stack, y) /\ ~ IsEntering(stack', y)
        /\ UniqueSnaps(stack') /\ BodyInv(stack', co)
        /\ \A k, y : BodyAt(stack', k, y) <=> BodyAt(stack, k, y)
        /\ stack' # <<>> /\ stack'[Len(stack')].pc = "wake"
        /\ stack'[Len(stack')].snap = Due[e]
        /\ ~ has_wakeup
        /\ \A j \in Nat : WillTake(stack, j) /\ j # Top.pos => WillTake(stack', j)
    <2>1. /\ waiters'[e] = <<>>
          /\ \A g \in Events : g # e => waiters'[g] = waiters[g]
      BY <1>f, <1>b DEF TakeEvent, e
    <2>2. Due'[e] = <<>> /\ \A g \in Events : g # e => Due'[g] = Due[g]
      BY <1>b, <1>f, <2>1 DEF Due
    <2>3. /\ Distinct(waiters[e])
          /\ \A y \in Elems(waiters[e]) : ~ InSnaps(stack, y)
      BY <1>f, <1>h
    <2> QED
      BY <1>f, <1>k, <2>2, <2>3, TakeView DEF e
  <1>1. IInv' /\ BaseInv'
    BY <1>k, <1>u, TakeEventInv, BaseKept DEF BaseInv, PlainInv
  <1>w. Due' \in [Events -> Seq(TaskIds)]
    <2>1. waiters' \in [Events -> Seq(TaskIds)]
      BY <1>1 DEF IInv, TypeOK
    <2>2. <<>> \in Seq(TaskIds)
      OBVIOUS
    <2> QED
      BY <2>1, <2>2 DEF Due
  <1>m. \A g \in Events : \A y : y \in Elems(Due'[g]) <=> y \in Elems(Due[g]) /\ g # e
    BY <1>v, EmptyElems
  <1>2. PlainSource(cbs', Plain(Due'), stack', co')
    <2>1. CASE e \in Handles
      <3>1. Plain(Due') = Plain(Due)
        <4>1. \A g \in Events : g \notin Handles => Due'[g] = Due[g]
          BY <1>v, <2>1
        <4> QED
          BY <1>k, <4>1, PlainFacts
      <3>2. ASSUME NEW y \in TaskIds
            PROVE  PlainTask(cbs', Plain(Due'), stack', co', y)
        <4>1. PlainTask(cbs, Plain(Due), stack, co, y)
          BY <1>k
        <4>2. CASE y \in Elems(Due[e])
          <5>1. Waiting(y) /\ HandleTask(y) /\ Parked(y)
            BY <1>k, <1>n, <2>1, <4>2, HandleWaiter
          <5>2. cbs[y] = 0 /\ ~ InWaiters(Plain(Due), y) /\ co[y] = "suspended"
            BY <5>1 DEF HandleTask, Parked
          <5> QED
            BY <1>u, <1>v, <3>1, <4>1, <5>2 DEF PlainTask, OneSource, Sourced
        <4>3. CASE y \notin Elems(Due[e])
          BY <1>u, <1>v, <3>1, <4>1, <4>3, PlainKept
        <4> QED
          BY <4>2, <4>3
      <3> QED
        BY <1>k, <3>1, <3>2 DEF PlainSource
    <2>2. CASE e \notin Handles
      <3> DEFINE w == Plain(Due)
                 x == Plain(Due')
      <3>1. /\ x[e] = <<>> /\ \A g \in Events : g # e => x[g] = w[g]
            /\ w[e] = Due[e]
        BY <1>b, <1>p, <1>v, <2>2 DEF Plain
      <3>2. /\ UniqueWaiters(w) /\ \A y \in TaskIds : PlainTask(cbs, w, stack, co, y)
        BY <1>k
      <3> HIDE DEF w, x
      <3>3. /\ UniqueWaiters(x)
            /\ \A y : InWaiters(w, y) <=> InWaiters(x, y) \/ y \in Elems(Due[e])
            /\ \A y \in Elems(Due[e]) : ~ InWaiters(x, y)
        BY <1>b, <3>1, <3>2, TakeUnique
      <3>4. ASSUME NEW y \in TaskIds
            PROVE  PlainTask(cbs', x, stack', co', y)
        <4>1. PlainTask(cbs, w, stack, co, y)
          BY <3>2
        <4>2. CASE y \in Elems(Due[e])
          BY <1>u, <1>v, <3>3, <4>1, <4>2 DEF PlainTask, OneSource, Sourced
        <4>3. CASE y \notin Elems(Due[e])
          BY <1>u, <1>v, <3>3, <4>1, <4>3, PlainKept
        <4> QED
          BY <4>2, <4>3
      <3> QED
        BY <3>3, <3>4 DEF PlainSource, x
    <2> QED
      BY <2>1, <2>2
  <1>3. HandleSource'
    <2>1. ASSUME NEW y \in TaskIds
          PROVE  HandleTask(y)'
      <3>1. HandleTask(y) /\ (Waiting(y) => Parked(y))
        BY <1>k, <1>n
      <3>2. CASE e \in Handles /\ y \in Elems(Due[e])
        <4>1. Waiting(y) /\ e \in Open(join[y])
          BY <1>k, <3>2, HandleWaiter
        <4>2. Parked(y) /\ cbs[y] = 0 /\ ~ InWaiters(Plain(Due), y)
          BY <3>1, <4>1 DEF HandleTask
        <4>3. Due[e] = <<y>>
          <5>1. Due[e] \in Seq(TaskIds) /\ Len(Due[e]) <= 1
            BY <1>b, <1>k, <3>2
          <5> QED
            BY <3>2, <5>1, SingleList
        <4>4. Registered(Due', y, Open(join[y]) \ {e})
          BY <1>k, <1>m, <4>2 DEF Parked, Registered
        <4>5. Delivered(y)'
          <5>1. stack'[Len(stack')].snap = <<y>> /\ co'[y] = "suspended"
            BY <1>u, <1>v, <4>2, <4>3 DEF Parked
          <5> QED
            BY <1>e, <1>u, <1>v, <3>2, <4>1, <4>4, <5>1 DEF Delivered, Arriving, Open, Top, joinVars
        <4>6. ~ InWaiters(Plain(Due'), y)
          <5>1. \A g \in Events : g \notin Handles => Due'[g] = Due[g]
            BY <1>v, <3>2
          <5>2. Plain(Due') = Plain(Due)
            BY <1>k, <5>1, PlainFacts
          <5> QED
            BY <4>2, <5>2
        <4> QED
          BY <1>u, <4>1, <4>2, <4>5, <4>6 DEF HandleTask, Waiting, joinVars
      <3>3. CASE ~ (e \in Handles /\ y \in Elems(Due[e]))
        <4>1. \A g \in Handles : y \in Elems(Due'[g]) <=> y \in Elems(Due[g])
          BY <1>k, <1>m, <3>3
        <4>2. InWaiters(Plain(Due'), y) => InWaiters(Plain(Due), y)
          <5>1. \A g \in Events : g \notin Handles => Plain(Due')[g] = Due'[g]
            BY <1>w, PlainFacts
          <5>2. \A g \in Handles : Plain(Due')[g] = <<>>
            BY <1>w, PlainFacts
          <5> QED
            BY <1>m, <1>p, <5>1, <5>2, EmptyElems DEF InWaiters
        <4>3. Waiting(y) => y \notin Elems(Due[e])
          BY <1>h, <3>1, <3>3 DEF HandleTask
        <4> QED
          BY <1>u, <1>v, <3>1, <4>1, <4>2, <4>3, HandleKept DEF joinVars
      <3> QED
        BY <3>2, <3>3
    <2>2. \A g \in Handles : Len(Due'[g]) <= 1
      <3>1. Len(Due'[e]) <= 1
        BY <1>v
      <3> QED
        BY <1>k, <1>v, <3>1
    <2> QED
      BY <2>1, <2>2 DEF HandleSource
  <1>4. DeliverInv'
    <2> SUFFICES ASSUME NEW g \in Handles, g \notin event_names, Due'[g] # <<>>
                 PROVE  \E k \in 1 .. Len(pending_wakeup) :
                          pending_wakeup[k] = g /\ WillTake(stack', k)
      BY <1>u DEF DeliverInv
    <2>1. g # e /\ Due[g] # <<>>
      BY <1>k, <1>v
    <2>2. PICK k \in 1 .. Len(pending_wakeup) : pending_wakeup[k] = g /\ WillTake(stack, k)
      BY <1>k, <1>v, <2>1 DEF DeliverInv
    <2>3. k # Top.pos /\ k \in Nat
      BY <1>k, <2>1, <2>2 DEF e, IInv, TypeOK
    <2> QED
      BY <1>v, <2>2, <2>3
  <1>5. InsertInv' /\ GroupInv'
    BY <1>k, <1>u, <1>v, GroupsKept
  <1> QED
    BY <1>u, <1>v, <1>1, <1>2, <1>3, <1>4, <1>5 DEF JInv, LiveInv, StackOk

\* The loop wakes a waiter.
LEMMA WakeWaiterLive ==
    ASSUME JInv, WakeWaiter, UNCHANGED joinVars
    PROVE  JInv'
  <1> DEFINE h == Head(Top.snap)
  <1>k. /\ IInv /\ BaseInv /\ LiveInv /\ StackOk
        /\ UniqueWaiters(Plain(Due))
        /\ \A y \in TaskIds : PlainTask(cbs, Plain(Due), stack, co, y)
        /\ \A g \in Handles : Len(Due[g]) <= 1
        /\ \A y \in TaskIds : HandleTask(y)
        /\ DeliverInv /\ status = "ok" /\ Due \in [Events -> Seq(TaskIds)]
    BY LiveFacts DEF WakeWaiter, At
  <1>b. /\ stack # <<>> /\ Top.snap # <<>> /\ Top.pc = "wake"
    BY DEF WakeWaiter, At
  <1>u. /\ UNCHANGED <<cbs, Due, status, event_names, archived, removed, nr_removed>>
        /\ UNCHANGED <<pending_wakeup, has_wakeup, curr_wakeup, running, fired, co, owed>>
    BY DueSame DEF WakeWaiter, taskVars, removalVars, outerVars, eventVars, wakeVars, ghostVars
  <1>v. /\ h \in TaskIds /\ InSnaps(stack, h) /\ ~ InSnaps(stack', h)
        /\ \A y : y # h => (InSnaps(stack', y) <=> InSnaps(stack, y))
        /\ \A y : ~ IsEntering(stack, y)
        /\ \A y : IsEntering(stack', y) <=> y = h
        /\ UniqueSnaps(stack') /\ BodyInv(stack', co)
        /\ \A k, y : BodyAt(stack', k, y) <=> BodyAt(stack, k, y)
        /\ stack' # <<>> /\ stack'[Len(stack')].pc = "woken"
        /\ stack'[Len(stack')].id = h
        /\ \A j \in Nat : WillTake(stack, j) => WillTake(stack', j)
    BY <1>k, WakeView
  <1>h. \A y : Top.snap = <<y>> => y = h
    OBVIOUS
  <1> HIDE DEF h
  <1>1. IInv' /\ BaseInv'
    BY <1>k, <1>u, WakeWaiterInv, BaseKept DEF BaseInv, PlainInv
  <1>2. PlainSource(cbs', Plain(Due'), stack', co')
    <2>1. ASSUME NEW y \in TaskIds
          PROVE  PlainTask(cbs', Plain(Due'), stack', co', y)
      <3>1. PlainTask(cbs, Plain(Due), stack, co, y)
        BY <1>k
      <3>2. CASE y = h
        BY <1>u, <1>v, <3>1, <3>2 DEF PlainTask, OneSource, Sourced
      <3>3. CASE y # h
        BY <1>u, <1>v, <3>1, <3>3, PlainKept
      <3> QED
        BY <3>2, <3>3
    <2> QED
      BY <1>k, <1>u, <2>1 DEF PlainSource
  <1>3. HandleSource'
    <2>1. ASSUME NEW y \in TaskIds
          PROVE  HandleTask(y)'
      <3>1. HandleTask(y)
        BY <1>k
      <3>2. CASE Waiting(y) /\ ~ Parked(y)
        <4>1. Delivered(y) /\ cbs[y] = 0 /\ ~ InWaiters(Plain(Due), y)
          BY <3>1, <3>2 DEF HandleTask
        <4>2. y = h /\ co[y] = "suspended"
          BY <1>b, <1>h, <4>1 DEF Delivered, Arriving
        <4>3. Delivered(y)'
          BY <1>u, <1>v, <4>1, <4>2 DEF Delivered, Arriving, Registered, Open, joinVars, Top
        <4> QED
          BY <1>u, <3>2, <4>1, <4>3 DEF HandleTask, Waiting, joinVars
      <3>3. CASE Waiting(y) => Parked(y)
        <4>1. Waiting(y) => y # h
          BY <1>v, <3>3 DEF Parked
        <4> QED
          BY <1>u, <1>v, <3>1, <3>3, <4>1, HandleKept DEF joinVars
      <3> QED
        BY <3>2, <3>3
    <2> QED
      BY <1>k, <1>u, <2>1 DEF HandleSource
  <1>4. DeliverInv'
    BY <1>k, <1>u, <1>v, DeliverKept
  <1>5. InsertInv' /\ GroupInv'
    BY <1>k, <1>u, <1>v, GroupsKept
  <1> QED
    BY <1>u, <1>v, <1>1, <1>2, <1>3, <1>4, <1>5 DEF JInv, LiveInv, StackOk

\* A step of the scheduler, or of user code that is in no join, which leaves
\* every join asleep and every body in its place.
LEMMA AsleepLive ==
    ASSUME JInv, status = "ok", IInv', UNCHANGED joinVars,
           UNCHANGED <<Due, co, status, event_names, archived, removed, nr_removed>>,
           running' = running, fired \subseteq fired',
           \A k \in 1 .. Len(pending_wakeup') : pending_wakeup'[k] \in Handles =>
             k \in 1 .. Len(pending_wakeup) /\ pending_wakeup[k] = pending_wakeup'[k],
           DeliverInv', UniqueSnaps(stack'), BodyInv(stack', co),
           \A k, y : BodyAt(stack', k, y) <=> BodyAt(stack, k, y),
           \A y \in TaskIds : PlainTask(cbs', Plain(Due), stack', co, y),
           \A y \in TaskIds : Waiting(y) =>
             /\ Parked(y) /\ cbs'[y] = cbs[y]
             /\ InSnaps(stack', y) => InSnaps(stack, y)
             /\ IsEntering(stack', y) => IsEntering(stack, y)
    PROVE  JInv'
  <1>k. /\ BaseInv /\ LiveInv /\ UniqueWaiters(Plain(Due))
        /\ \A g \in Handles : Len(Due[g]) <= 1
        /\ \A y \in TaskIds : HandleTask(y)
    BY LiveFacts
  <1>1. BaseInv'
    <2>1. running' \subseteq fired'
      BY <1>k DEF BaseInv, PlainInv
    <2> QED
      BY <1>k, <2>1, BaseKept
  <1>2. PlainSource(cbs', Plain(Due'), stack', co')
    BY <1>k DEF PlainSource
  <1>3. HandleSource'
    <2>1. \A y \in TaskIds : HandleTask(y)'
      BY <1>k, HandleKept DEF joinVars
    <2> QED
      BY <1>k, <2>1 DEF HandleSource
  <1>4. InsertInv' /\ GroupInv'
    BY <1>k, GroupsKept
  <1> QED
    BY <1>1, <1>2, <1>3, <1>4 DEF JInv, LiveInv, StackOk

\* No join goes on while the top frame neither wakes a task, nor was woken, nor
\* runs a body.
LEMMA AllParked ==
    ASSUME JInv, status = "ok", ~ (stack # <<>> /\ Top.pc \in {"woken", "body"}),
           stack # <<>> /\ Top.pc = "wake" => Top.snap = <<>>
    PROVE  \A y \in TaskIds : Waiting(y) => Parked(y)
  <1>1. \A y : <<y>> # <<>>
    OBVIOUS
  <1>2. \A y : ~ Arriving(y)
    BY <1>1 DEF Arriving
  <1> QED
    BY <1>2, LiveFacts DEF HandleTask, Delivered

\* The loop ends, when no handle with waiters is ahead of it.
LEMMA WakeDoneLive ==
    ASSUME JInv, WakeDone, UNCHANGED joinVars
    PROVE  JInv'
  <1>k. /\ IInv /\ StackOk /\ DeliverInv /\ status = "ok"
        /\ \A y \in TaskIds : PlainTask(cbs, Plain(Due), stack, co, y)
    BY LiveFacts DEF WakeDone, At
  <1>b. /\ stack \in Seq(Frame) /\ stack # <<>> /\ Top.snap = <<>> /\ Top.pc = "wake"
        /\ ~ has_wakeup /\ Top.pos \in Nat
        /\ ShapeOf(stack) /\ Len(pending_wakeup) \in Nat
        /\ Top.pos > Len(pending_wakeup) /\ UniqueSnaps(stack) /\ BodyInv(stack, co)
    BY <1>k, WakeFacts DEF WakeDone, IInv, TypeOK, StackOk
  <1>0. \A e \in Handles : e \notin event_names => Due[e] = <<>>
    <2> SUFFICES ASSUME NEW e \in Handles, e \notin event_names, Due[e] # <<>>
                 PROVE  FALSE
      OBVIOUS
    <2>1. PICK k \in 1 .. Len(pending_wakeup) : WillTake(stack, k)
      BY <1>b, <1>k DEF DeliverInv
    <2>2. Top.pos <= k
      BY <1>b, <2>1, WillTakeTop DEF Top
    <2> QED
      BY <1>b, <2>1, <2>2
  <1>u. /\ UNCHANGED <<cbs, Due, co, status, event_names, archived, removed, nr_removed>>
        /\ running' = running /\ fired' = fired /\ pending_wakeup' = <<>>
        /\ stack' = Pop(stack)
    <2>1. /\ UNCHANGED <<cbs, waiters, co, status, event_names, archived, removed, nr_removed>>
          /\ running' = running /\ fired' = fired /\ pending_wakeup' = <<>>
          /\ stack' = Pop(stack)
      BY DEF WakeDone, taskVars, removalVars, outerVars, eventVars
    <2>2. Due' = Due
      <3>1. ASSUME NEW e \in Events
            PROVE  (IF Spent(e)' THEN <<>> ELSE waiters'[e]) = (IF Spent(e) THEN <<>> ELSE waiters[e])
        <4>1. Spent(e)' <=> e \in Handles /\ e \notin event_names
          BY <2>1, EmptyElems DEF Spent
        <4>2. e \in Handles /\ e \notin event_names => (IF Spent(e) THEN <<>> ELSE waiters[e]) = <<>>
          BY <1>0 DEF Due
        <4> QED
          BY <2>1, <4>1, <4>2 DEF Spent
      <3> QED
        BY <3>1 DEF Due
    <2> QED
      BY <2>1, <2>2
  <1>1. /\ \A y : InSnaps(stack', y) <=> InSnaps(stack, y)
        /\ \A y : ~ IsEntering(stack', y)
        /\ UniqueSnaps(stack') /\ BodyInv(stack', co)
        /\ \A k, y : BodyAt(stack', k, y) <=> BodyAt(stack, k, y)
    BY <1>b, <1>u, ReturnView DEF Top
  <1>2. \A y \in TaskIds : Waiting(y) => Parked(y)
    BY <1>b, <1>k, AllParked
  <1>3. IInv'
    BY <1>k, WakeDoneInv
  <1>4. DeliverInv'
    BY <1>0, <1>u DEF DeliverInv
  <1>5. \A y \in TaskIds : PlainTask(cbs', Plain(Due), stack', co, y)
    BY <1>k, <1>u, <1>1, PlainKept
  <1>6. Len(pending_wakeup') = 0
    BY <1>u
  <1> QED
    BY <1>k, <1>u, <1>1, <1>2, <1>3, <1>4, <1>5, <1>6, AsleepLive

\* schedule_all_tasks returns.
LEMMA WalkDoneLive ==
    ASSUME JInv, WalkDone, UNCHANGED joinVars
    PROVE  JInv'
  <1>k. /\ IInv /\ StackOk /\ DeliverInv /\ status = "ok"
        /\ \A y \in TaskIds : PlainTask(cbs, Plain(Due), stack, co, y)
    BY LiveFacts DEF WalkDone, At
  <1>b. /\ stack \in Seq(Frame) /\ stack # <<>> /\ Top.snap = <<>> /\ Top.pc = "all"
        /\ ShapeOf(stack) /\ UniqueSnaps(stack) /\ BodyInv(stack, co)
        /\ pending_wakeup = <<>>
    BY <1>k, AllFacts, AllQuiet DEF WalkDone, IInv, StackOk
  <1>u. /\ UNCHANGED <<cbs, Due, co, status, event_names, archived, removed, nr_removed>>
        /\ running' = running /\ fired' = WalkFired /\ pending_wakeup' = pending_wakeup
        /\ stack' = Pop(stack)
    BY DueSame DEF WalkDone, removalVars, eventVars, wakeVars
  <1>1. /\ \A y : InSnaps(stack', y) <=> InSnaps(stack, y)
        /\ \A y : ~ IsEntering(stack', y)
        /\ UniqueSnaps(stack') /\ BodyInv(stack', co)
        /\ \A k, y : BodyAt(stack', k, y) <=> BodyAt(stack, k, y)
    BY <1>b, <1>u, ReturnView DEF Top
  <1>2. \A y \in TaskIds : Waiting(y) => Parked(y)
    BY <1>b, <1>k, AllParked
  <1>3. IInv' /\ fired \subseteq fired'
    BY <1>k, <1>u, WalkDoneInv DEF WalkFired
  <1>l. Len(pending_wakeup) = 0
    BY <1>b
  <1>4. DeliverInv'
    BY <1>k, <1>l, <1>u DEF DeliverInv
  <1>5. \A y \in TaskIds : PlainTask(cbs', Plain(Due), stack', co, y)
    BY <1>k, <1>u, <1>1, PlainKept
  <1> QED
    BY <1>k, <1>l, <1>u, <1>1, <1>2, <1>3, <1>4, <1>5, AsleepLive

\* No event is pending while the simulator runs.
LEMMA NothingPending ==
    ASSUME IInv, status = "ok", stack = <<>>
    PROVE  pending_wakeup = <<>> /\ ~ has_wakeup
  <1>1. ~ HasLoop(stack)
    BY DEF HasLoop
  <1> QED
    BY <1>1 DEF IInv, SendInv

\* verilua_init calls schedule_all_tasks.
LEMMA StartCallbackLive ==
    ASSUME JInv, StartCallback, UNCHANGED joinVars
    PROVE  JInv'
  <1> DEFINE f == NewFrame(NULL_TASK_ID, "all")
  <1>k. /\ IInv /\ StackOk /\ DeliverInv /\ status = "ok"
        /\ \A y \in TaskIds : PlainTask(cbs, Plain(Due), stack, co, y)
    BY LiveFacts DEF StartCallback
  <1>b. stack = <<>> /\ UniqueSnaps(stack) /\ BodyInv(stack, co)
    BY <1>k DEF StackOk, StartCallback
  <1>u. /\ UNCHANGED <<cbs, Due, co, status, event_names, archived, removed, nr_removed>>
        /\ running' = running /\ fired' = fired /\ pending_wakeup' = pending_wakeup
        /\ stack' = <<f>>
    BY DueSame DEF StartCallback, taskVars, removalVars, eventVars, wakeVars
  <1>f. /\ f \in Frame /\ f.pc = "all" /\ f.snap = <<>> /\ ~ f.stale
        /\ f.pc \notin Entering /\ f.pc # "body" /\ f.pc # "wake"
    <2>1. NULL_TASK_ID \in 0 .. MaxTaskId
      BY ConstantsAssumption DEF NULL_TASK_ID
    <2> QED
      BY <2>1, NewFrameLemma, NewFrameFresh DEF PCs, Entering
  <1> HIDE DEF f
  <1>q. stack' = Push(stack, f) /\ stack \in Seq(Frame)
    BY <1>b, <1>u DEF Push
  <1>1. /\ \A y : InSnaps(stack', y) <=> InSnaps(stack, y)
        /\ \A y : ~ IsEntering(stack', y)
        /\ UniqueSnaps(stack') /\ BodyInv(stack', co)
        /\ \A k, y : BodyAt(stack', k, y) <=> BodyAt(stack, k, y)
    BY <1>b, <1>f, <1>q, CallView
  <1>2. \A y \in TaskIds : Waiting(y) => Parked(y)
    BY <1>b, <1>k, AllParked
  <1>3. IInv'
    BY <1>k, StartCallbackInv
  <1>l. Len(pending_wakeup) = 0
    BY <1>b, <1>k, NothingPending
  <1>4. DeliverInv'
    BY <1>k, <1>l, <1>u DEF DeliverInv
  <1>5. \A y \in TaskIds : PlainTask(cbs', Plain(Due), stack', co, y)
    BY <1>k, <1>u, <1>1, PlainKept
  <1> QED
    BY <1>k, <1>l, <1>u, <1>1, <1>2, <1>3, <1>4, <1>5, AsleepLive

\* A callback fires, for a task that is in no join.
LEMMA SimEventLive ==
    ASSUME JInv, NEW t \in TaskIds, SimEvent(t), UNCHANGED joinVars
    PROVE  JInv'
  <1> DEFINE f == NewFrame(t, "resume")
  <1>k. /\ IInv /\ StackOk /\ DeliverInv /\ status = "ok"
        /\ \A y \in TaskIds : PlainTask(cbs, Plain(Due), stack, co, y)
        /\ \A y \in TaskIds : HandleTask(y)
    BY LiveFacts DEF SimEvent
  <1>b. stack = <<>> /\ UniqueSnaps(stack) /\ BodyInv(stack, co)
    BY <1>k DEF StackOk, SimEvent
  <1>u. /\ UNCHANGED <<Due, co, status, event_names, archived, removed, nr_removed>>
        /\ running' = running /\ fired' = fired /\ pending_wakeup' = pending_wakeup
        /\ stack' = <<f>> /\ cbs[t] > 0 /\ cbs' = [cbs EXCEPT ![t] = @ - 1]
    BY DueSame DEF SimEvent, taskVars, removalVars, eventVars, wakeVars, outerVars
  <1>f. /\ f \in Frame /\ f.pc = "resume" /\ f.snap = <<>> /\ ~ f.stale /\ f.id = t
        /\ f.pc \in Entering /\ f.pc # "body" /\ f.pc # "all" /\ f.pc # "wake"
    BY NewFrameLemma, NewFrameFresh, TaskIdLemma DEF PCs, Entering
  <1> HIDE DEF f
  <1>q. stack' = Push(stack, f) /\ stack \in Seq(Frame)
    BY <1>b, <1>u DEF Push
  <1>1. /\ \A y : InSnaps(stack', y) <=> InSnaps(stack, y)
        /\ \A y : IsEntering(stack', y) <=> y = t
        /\ UniqueSnaps(stack') /\ BodyInv(stack', co)
        /\ \A k, y : BodyAt(stack', k, y) <=> BodyAt(stack, k, y)
    BY <1>b, <1>f, <1>q, CallView
  <1>2. \A y \in TaskIds : Waiting(y) => Parked(y)
    BY <1>b, <1>k, AllParked
  <1>3. IInv'
    BY <1>k, SimEventInv
  <1>l. Len(pending_wakeup) = 0
    BY <1>b, <1>k, NothingPending
  <1>4. DeliverInv'
    BY <1>k, <1>l, <1>u DEF DeliverInv
  <1>c. cbs'[t] = 0 /\ \A y \in TaskIds : y # t => cbs'[y] = cbs[y]
    <2>1. cbs \in [TaskIds -> Nat] /\ cbs[t] = 1
      BY <1>k, <1>u DEF IInv, TypeOK, PlainTask, OneSource
    <2> QED
      BY <1>u, <2>1
  <1>t. ~ Waiting(t)
    BY <1>k, <1>u DEF HandleTask
  <1>5. ASSUME NEW y \in TaskIds
        PROVE  PlainTask(cbs', Plain(Due), stack', co, y)
    <2>1. PlainTask(cbs, Plain(Due), stack, co, y)
      BY <1>k
    <2>2. CASE y = t
      BY <1>c, <1>u, <1>1, <2>1, <2>2 DEF PlainTask, OneSource, Sourced
    <2>3. CASE y # t
      BY <1>c, <1>1, <2>1, <2>3, PlainKept
    <2> QED
      BY <2>2, <2>3
  <1> QED
    BY <1>c, <1>k, <1>l, <1>t, <1>u, <1>1, <1>2, <1>3, <1>4, <1>5, AsleepLive

\* The simulation is aborted.
LEMMA AbortLive ==
    ASSUME JInv, status = "ok", NEW why \in {"error", "resume"}, Abort(why),
           UNCHANGED joinVars
    PROVE  JInv'
  <1>1. BaseInv /\ IInv
    BY DEF JInv, BaseInv
  <1>2. /\ UNCHANGED <<co, event_names, archived, removed, nr_removed, running, fired>>
        /\ pending_wakeup' = pending_wakeup /\ status' # "ok"
    BY DEF Abort, taskVars, removalVars, eventVars, wakeVars
  <1>3. IInv'
    BY <1>1, AbortInv
  <1>4. BaseInv'
    BY <1>1, <1>2, <1>3, BaseKept DEF BaseInv, PlainInv
  <1> QED
    BY <1>2, <1>4 DEF JInv

\* No task is removed or walked to, and the coroutine of a task that is woken
\* can be resumed.
LEMMA JoinNever ==
    ASSUME JInv, UNCHANGED joinVars
    PROVE  ~ SkipRemoved /\ \A t : ~ WalkNext(t)
  BY DEF JInv, BaseInv, PlainInv, SkipRemoved, WalkNext, WalkFired

\* What the scheduler and the simulator do.
LEMMA EngineLive ==
    ASSUME JInv, JEngine
    PROVE  JInv'
  <1>1. CASE ResumeFails
    BY <1>1, AbortLive DEF ResumeFails, JEngine, At
  <1> QED
    BY <1>1, JoinNever, ResumeLive, TakeEventLive, WakeWaiterLive, WakeDoneLive, WalkDoneLive,
       StartCallbackLive, SimEventLive DEF JEngine, Engine

----------------------------------------------------------------------------
(* Steps that leave a body *)

\* The task whose body runs has no source but, inside of a join, the handles
\* that are still open, and it was woken by one of them; every other task in a
\* join is asleep.
LEMMA RunsJoin ==
    ASSUME JInv, At("body")
    PROVE  /\ curr_task \in TaskIds /\ curr_task = Top.id /\ co[curr_task] = "active"
           /\ cbs[curr_task] = 0 /\ ~ InWaiters(Plain(Due), curr_task)
           /\ ~ InSnaps(stack, curr_task)
           /\ BodyAt(stack, Len(stack), curr_task)
           /\ Waiting(curr_task) =>
                /\ curr_wakeup \in Open(join[curr_task]) /\ curr_wakeup \notin event_names
                /\ Registered(Due, curr_task, Open(join[curr_task]) \ {curr_wakeup})
                /\ curr_task \notin owed
           /\ ~ Waiting(curr_task) => Registered(Due, curr_task, {})
           /\ \A y \in TaskIds : y # curr_task /\ Waiting(y) => Parked(y)
           /\ \A y : ~ IsEntering(stack, y)
  <1>k. /\ IInv /\ StackOk /\ status = "ok"
        /\ \A y \in TaskIds : PlainTask(cbs, Plain(Due), stack, co, y)
        /\ \A y \in TaskIds : HandleTask(y)
    BY LiveFacts DEF At
  <1>b. /\ stack # <<>> /\ Top.pc = "body" /\ Top.id \in TaskIds /\ curr_task = Top.id
        /\ Len(stack) \in 1 .. Len(stack)
    BY <1>k, BodyFacts, TopLemma
  <1>1. co[curr_task] = "active"
    BY <1>b, <1>k DEF StackOk, BodyInv, Top
  <1>2. BodyAt(stack, Len(stack), curr_task)
    BY <1>b DEF BodyAt, Top
  <1>3. ~ Sourced(cbs, Plain(Due), stack, curr_task)
    BY <1>b, <1>k, <1>1 DEF PlainTask
  <1>4. \A y : Arriving(y) => y = curr_task /\ y \notin owed
    BY <1>b DEF Arriving
  <1>5. \A y \in TaskIds : y # curr_task /\ Waiting(y) => Parked(y)
    BY <1>k, <1>4 DEF HandleTask, Delivered
  <1>6. ASSUME Waiting(curr_task)
        PROVE  /\ curr_wakeup \in Open(join[curr_task]) /\ curr_wakeup \notin event_names
               /\ Registered(Due, curr_task, Open(join[curr_task]) \ {curr_wakeup})
               /\ curr_task \notin owed
    BY <1>b, <1>k, <1>1, <1>4, <1>6 DEF HandleTask, Parked, Delivered
  <1>7. ~ Waiting(curr_task) => Registered(Due, curr_task, {})
    BY <1>b, <1>k DEF HandleTask
  <1>8. \A y : ~ IsEntering(stack, y)
    BY <1>b DEF IsEntering, Top, Entering
  <1> QED
    BY <1>b, <1>1, <1>2, <1>3, <1>5, <1>6, <1>7, <1>8 DEF Sourced

\* A body is left.  What has to be shown is what concerns its task.
LEMMA LeaveLive ==
    ASSUME JInv, At("body"), NEW st, Leaves(st), BaseInv', status' = status,
           \A y \in TaskIds : y # curr_task =>
             /\ join'[y] = join[y] /\ cbs'[y] = cbs[y]
             /\ \A g \in Handles : y \in Elems(Due'[g]) <=> y \in Elems(Due[g])
             /\ InWaiters(Plain(Due'), y) => InWaiters(Plain(Due), y),
           UniqueWaiters(Plain(Due')), \A g \in Handles : Len(Due'[g]) <= 1,
           cbs'[curr_task] \in {0, 1},
           cbs'[curr_task] # 0 => ~ InWaiters(Plain(Due'), curr_task),
           cbs'[curr_task] # 0 \/ InWaiters(Plain(Due'), curr_task) => st = "suspended",
           join'[curr_task].kind \in {"one", "all", "any"} =>
             /\ st = "suspended" /\ cbs'[curr_task] = 0
             /\ ~ InWaiters(Plain(Due'), curr_task)
             /\ Registered(Due', curr_task, Open(join'[curr_task])),
           join'[curr_task].kind \notin {"one", "all", "any"} =>
             Registered(Due', curr_task, {}),
           DeliverInv', join[curr_task].kind # "insert", join'[curr_task].kind # "insert",
           UNCHANGED <<child, group_of, tg>>, event_names' \subseteq event_names
    PROVE  JInv'
  <1> DEFINE t == curr_task
  <1>k. /\ IInv /\ BaseInv /\ LiveInv /\ StackOk /\ status = "ok"
        /\ \A y \in TaskIds : PlainTask(cbs, Plain(Due), stack, co, y)
        /\ \A y \in TaskIds : HandleTask(y)
    BY LiveFacts DEF At
  <1>r. /\ t \in TaskIds /\ ~ InSnaps(stack, t) /\ BodyAt(stack, Len(stack), t)
        /\ \A y \in TaskIds : y # t /\ Waiting(y) => Parked(y)
    BY RunsJoin
  <1>v. /\ \A y : InSnaps(stack', y) <=> InSnaps(stack, y)
        /\ \A y : ~ IsEntering(stack', y)
        /\ UniqueSnaps(stack') /\ BodyInv(stack', co')
        /\ co'[t] = st
        /\ \A y \in TaskIds : y # t => co'[y] = co[y]
        /\ \A k, y : BodyAt(stack', k, y) <=> BodyAt(stack, k, y) /\ k # Len(stack)
    BY <1>k, LeaveView
  <1>1. PlainSource(cbs', Plain(Due'), stack', co')
    <2>1. ASSUME NEW y \in TaskIds
          PROVE  PlainTask(cbs', Plain(Due'), stack', co', y)
      <3>1. CASE y = t
        BY <1>r, <1>v, <3>1 DEF PlainTask, OneSource, Sourced
      <3>2. CASE y # t
        BY <1>k, <1>v, <3>2, PlainKept
      <3> QED
        BY <3>1, <3>2
    <2> QED
      BY <2>1 DEF PlainSource
  <1>2. HandleSource'
    <2>1. ASSUME NEW y \in TaskIds
          PROVE  HandleTask(y)'
      <3>1. CASE y = t
        <4>1. CASE join'[t].kind \in {"one", "all", "any"}
          <5>1. Parked(y)'
            BY <1>r, <1>v, <3>1, <4>1 DEF Parked
          <5> QED
            BY <3>1, <4>1, <5>1 DEF HandleTask, Waiting
        <4>2. CASE join'[t].kind \notin {"one", "all", "any"}
          BY <3>1, <4>2 DEF HandleTask, Waiting
        <4> QED
          BY <4>1, <4>2
      <3>2. CASE y # t
        BY <1>k, <1>r, <1>v, <3>2, HandleKept
      <3> QED
        BY <3>1, <3>2
    <2> QED
      BY <2>1 DEF HandleSource
  <1>3. InsertInv'
    <2> SUFFICES ASSUME NEW u \in TaskIds, join'[u].kind = "insert"
                 PROVE  InsertTask(u)'
      BY DEF InsertInv
    <2>1. u # t /\ join'[u] = join[u] /\ InsertTask(u)
      BY <1>k DEF LiveInv, InsertInv
    <2>2. \A k : BodyAt(stack, k, u) => k # Len(stack)
      BY <1>r, <2>1 DEF BodyAt
    <2>3. \A e \in join[u].handles : e \in Handles /\ child[e] # NULL_TASK_ID
      BY <1>k, <2>1 DEF BaseInv, CallInv, CallOk, JoinTypes, Calls
    <2> QED
      BY <1>v, <2>1, <2>2, <2>3, InsertKept
  <1>4. GroupInv'
    <2> SUFFICES ASSUME NEW e \in Handles, group_of[e] # NULL_TASK_ID
                 PROVE  \/ e \notin event_names' /\ child[e] # NULL_TASK_ID
                        \/ e \in tg[group_of[e]].handles
                        \/ \E u \in TaskIds : join'[u].kind = "insert" /\ join'[u].handles = {e}
      BY DEF GroupInv
    <2>1. \/ e \notin event_names /\ child[e] # NULL_TASK_ID
          \/ e \in tg[group_of[e]].handles
          \/ \E u \in TaskIds : join[u].kind = "insert" /\ join[u].handles = {e}
      BY <1>k DEF LiveInv, GroupInv
    <2>2. \A u \in TaskIds : join[u].kind = "insert" => join'[u] = join[u]
      OBVIOUS
    <2> QED
      BY <2>1, <2>2
  <1> QED
    BY <1>k, <1>v, <1>1, <1>2, <1>3, <1>4 DEF JInv, LiveInv, StackOk

\* The task of a body has ended, and the event it was started for, if there is
\* one, is removed.
LEMMA EndBase ==
    ASSUME BaseInv, IInv', UNCHANGED joinVars,
           NEW t \in TaskIds, co[t] = "active", co'[t] = "dead",
           \A y \in TaskIds : y # t => co'[y] = co[y],
           UNCHANGED <<running, archived, fired, removed, nr_removed>>,
           \A e \in Handles : e \in event_names' <=> e \in event_names /\ child[e] # t,
           event_names' \subseteq event_names,
           \A k \in 1 .. Len(pending_wakeup') : pending_wakeup'[k] \in Handles =>
             \/ k \in 1 .. Len(pending_wakeup) /\ pending_wakeup[k] = pending_wakeup'[k]
             \/ pending_wakeup'[k] \notin event_names'
    PROVE  BaseInv'
  <1>1. PlainInv' /\ JoinTypes'
    BY DEF BaseInv, PlainInv, JoinTypes, joinVars
  <1>2. CallInv'
    <2>1. \A u \in TaskIds : \A e \in join[u].handles : e \in Handles
      BY DEF BaseInv, JoinTypes, Calls
    <2> QED
      BY <2>1, CallKept DEF BaseInv, CallInv, joinVars
  <1>3. ChildInv'
    <2>1. \A e \in Handles : child[e] # NULL_TASK_ID => child[e] \in TaskIds
      BY DEF BaseInv, JoinTypes, NULL_TASK_ID, TaskIds
    <2>2. \A e \in Handles : child[e] # NULL_TASK_ID =>
            (e \notin event_names' <=> co'[child[e]] = "dead")
      BY <2>1 DEF BaseInv, ChildInv
    <2>3. \A e \in Handles : child[e] = NULL_TASK_ID => e \in event_names'
      BY TaskIdLemma DEF BaseInv, ChildInv
    <2>4. \A y \in TaskIds : y \notin archived => co'[y] = "none"
      BY DEF BaseInv, ChildInv
    <2>5. ChildInv
      BY DEF BaseInv
    <2> QED
      BY <2>2, <2>3, <2>4, <2>5 DEF ChildInv, joinVars
  <1>4. SentInv'
    BY DEF BaseInv, SentInv
  <1> QED
    BY <1>1, <1>2, <1>3, <1>4 DEF BaseInv

\* After a body is left, the loops still deliver what was sent.
LEMMA LeaveDeliver ==
    ASSUME JInv, At("body"), NEW st \in {"suspended", "exited", "dead"}, AfterBody(st),
           \A e \in Events : Elems(waiters[e]) \subseteq Elems(waiters'[e]),
           \A e \in Handles : e \notin event_names => Due'[e] = Due[e]
    PROVE  DeliverInv'
  <1>1. IInv /\ DeliverInv
    BY LiveFacts DEF At
  <1>2. \A k \in Nat : k >= 1 /\ (has_wakeup \/ WillTake(stack, k)) => WillTake(stack', k)
    BY <1>1, AfterBodyInv
  <1>3. event_names' = event_names /\ pending_wakeup' = pending_wakeup
    BY DEF AfterBody
  <1> QED
    BY <1>1, <1>2, <1>3, DeliverKept

\* A body that is in no join awaits a callback.
LEMMA AwaitCallbackLive ==
    ASSUME JInv, Free, AwaitCallback, UNCHANGED joinVars
    PROVE  JInv'
  <1> DEFINE t == curr_task
  <1>b. /\ At("body") /\ AfterBody("suspended") /\ status = "ok"
        /\ join[t].kind = "none"
    BY DEF Free, AwaitCallback, Yield, At
  <1>k. /\ IInv /\ BaseInv /\ StackOk /\ UniqueWaiters(Plain(Due))
        /\ \A g \in Handles : Len(Due[g]) <= 1
    BY <1>b, LiveFacts
  <1>u. /\ UNCHANGED <<waiters, Due, status, event_names, archived, removed, nr_removed>>
        /\ running' = running /\ fired' = fired /\ pending_wakeup' = pending_wakeup
        /\ cbs' = [cbs EXCEPT ![t] = @ + 1]
    BY DueSame DEF AwaitCallback, Yield, AfterBody, taskVars, outerVars
  <1>r. /\ t \in TaskIds /\ cbs[t] = 0 /\ co[t] = "active" /\ Registered(Due, t, {})
        /\ ~ InWaiters(Plain(Due), t)
    BY <1>b, RunsJoin DEF Waiting
  <1>c. cbs'[t] = 1 /\ \A y \in TaskIds : y # t => cbs'[y] = cbs[y]
    BY <1>k, <1>r, <1>u DEF IInv, TypeOK
  <1>l. /\ Leaves("suspended") /\ co'[t] = "suspended"
        /\ \A y \in TaskIds : y # t => co'[y] = co[y]
    BY <1>b, <1>k, AfterLeaves, LeaveView
  <1>1. BaseInv'
    <2>1. IInv'
      BY <1>k, AwaitCallbackInv
    <2>2. running' \subseteq fired'
      BY <1>k, <1>u DEF BaseInv, PlainInv
    <2> QED
      BY <1>k, <1>l, <1>r, <1>u, <2>1, <2>2, BaseKept
  <1>2. DeliverInv'
    BY <1>b, <1>u, LeaveDeliver
  <1> QED
    BY <1>b, <1>c, <1>k, <1>l, <1>r, <1>u, <1>1, <1>2, LeaveLive DEF joinVars

\* A body that is in no join waits for an event that is not a handle.
LEMMA WaitEventLive ==
    ASSUME JInv, Free, NEW e \in Events \ Handles, WaitEvent(e), UNCHANGED joinVars
    PROVE  JInv'
  <1> DEFINE t == curr_task
             w == Plain(Due)
             x == Plain(Due')
  <1>b. /\ At("body") /\ AfterBody("suspended") /\ status = "ok"
        /\ join[t].kind = "none"
    BY DEF Free, WaitEvent, Yield, At
  <1>k. /\ IInv /\ BaseInv /\ StackOk /\ UniqueWaiters(w)
        /\ \A g \in Handles : Len(Due[g]) <= 1
        /\ waiters \in [Events -> Seq(TaskIds)]
        /\ Due \in [Events -> Seq(TaskIds)] /\ Handles \subseteq Events
    BY <1>b, LiveFacts
  <1>u. /\ UNCHANGED <<cbs, status, event_names, archived, removed, nr_removed>>
        /\ running' = running /\ fired' = fired /\ pending_wakeup' = pending_wakeup
        /\ waiters' = [waiters EXCEPT ![e] = Append(@, t)]
    BY DEF WaitEvent, RegisterEvent, Yield, AfterBody, taskVars, outerVars
  <1>r. /\ t \in TaskIds /\ cbs[t] = 0 /\ co[t] = "active" /\ Registered(Due, t, {})
        /\ ~ InWaiters(w, t)
    BY <1>b, RunsJoin DEF Waiting
  <1>w. /\ waiters'[e] = Append(waiters[e], t)
        /\ \A g \in Events : g # e => waiters'[g] = waiters[g]
        /\ Due'[e] = Append(Due[e], t) /\ \A g \in Events : g # e => Due'[g] = Due[g]
    <2>1. /\ waiters'[e] = Append(waiters[e], t)
          /\ \A g \in Events : g # e => waiters'[g] = waiters[g]
      BY <1>k, <1>u
    <2>2. \A g : Spent(g)' <=> Spent(g)
      BY <1>u, SpentSame
    <2>3. ~ Spent(e)
      BY DEF Spent
    <2> QED
      BY <2>1, <2>2, <2>3 DEF Due
  <1>p. /\ w \in [Events -> Seq(TaskIds)]
        /\ x[e] = Append(w[e], t) /\ \A g \in Events : g # e => x[g] = w[g]
    BY <1>k, <1>w, PlainFacts DEF Plain
  <1>l. /\ Leaves("suspended") /\ co'[t] = "suspended"
        /\ \A y \in TaskIds : y # t => co'[y] = co[y]
    BY <1>b, <1>k, AfterLeaves, LeaveView
  <1>1. BaseInv'
    <2>1. IInv'
      BY <1>k, WaitEventInv
    <2>2. running' \subseteq fired'
      BY <1>k, <1>u DEF BaseInv, PlainInv
    <2> QED
      BY <1>k, <1>l, <1>r, <1>u, <2>1, <2>2, BaseKept
  <1>h. \A g \in Handles : Due'[g] = Due[g]
    BY <1>k, <1>w
  <1>2. DeliverInv'
    <2>1. Elems(waiters'[e]) = Elems(waiters[e]) \cup {t}
      BY <1>k, <1>r, <1>w, ElemsLemma
    <2>2. \A g \in Events : Elems(waiters[g]) \subseteq Elems(waiters'[g])
      BY <1>w, <2>1
    <2> QED
      BY <1>b, <1>h, <2>2, LeaveDeliver
  <1> HIDE DEF w, x
  <1>3. UniqueWaiters(x) /\ \A y : InWaiters(x, y) <=> InWaiters(w, y) \/ y = t
    <2>1. UniqueWaiters(w) /\ ~ InWaiters(w, t) /\ t \in TaskIds /\ e \in Events
      BY <1>k, <1>r
    <2> HIDE DEF t
    <2> QED
      BY ONLY <1>p, <2>1, AppendUnique
  <1>4. Registered(Due', t, {})
    BY <1>h, <1>r DEF Registered
  <1>5. /\ UniqueWaiters(Plain(Due'))
        /\ \A y : InWaiters(Plain(Due'), y) <=> InWaiters(Plain(Due), y) \/ y = t
    BY <1>3 DEF w, x
  <1> QED
    BY <1>b, <1>h, <1>k, <1>l, <1>r, <1>u, <1>1, <1>2, <1>4, <1>5, LeaveLive DEF joinVars

\* A body that is in no join ends, or its task leaves through exit_task.
LEMMA EndLive ==
    ASSUME JInv, Free, NEW st \in {"dead", "exited"}, End(st), UNCHANGED joinVars,
           st = "dead" => \A e \in Handles : child[e] # curr_task
    PROVE  JInv'
  <1> DEFINE t == curr_task
  <1>b. /\ At("body") /\ AfterBody(st) /\ status = "ok" /\ join[t].kind = "none"
    BY DEF Free, End, At
  <1>k. /\ IInv /\ BaseInv /\ StackOk /\ UniqueWaiters(Plain(Due))
        /\ \A g \in Handles : Len(Due[g]) <= 1
    BY <1>b, LiveFacts
  <1>u. /\ UNCHANGED <<waiters, Due, cbs, status, event_names, archived, removed, nr_removed>>
        /\ running' = running /\ fired' = fired /\ pending_wakeup' = pending_wakeup
    BY DueSame DEF End, AfterBody, taskVars, outerVars
  <1>r. /\ t \in TaskIds /\ cbs[t] = 0 /\ co[t] = "active" /\ Registered(Due, t, {})
        /\ ~ InWaiters(Plain(Due), t)
    BY <1>b, RunsJoin DEF Waiting
  <1>l. /\ Leaves(st) /\ co'[t] = st
        /\ \A y \in TaskIds : y # t => co'[y] = co[y]
    BY <1>b, <1>k, AfterLeaves, LeaveView
  <1>1. BaseInv'
    <2>1. IInv'
      BY <1>b, <1>k, EndInv
    <2>2. running' \subseteq fired'
      BY <1>k, <1>u DEF BaseInv, PlainInv
    <2>3. CASE st = "exited"
      BY <1>k, <1>l, <1>r, <1>u, <2>1, <2>2, <2>3, BaseKept
    <2>4. CASE st = "dead"
      BY <1>k, <1>l, <1>r, <1>u, <2>1, <2>4, EndBase
    <2> QED
      BY <2>3, <2>4
  <1>2. DeliverInv'
    BY <1>b, <1>u, LeaveDeliver
  <1> QED
    BY <1>b, <1>k, <1>l, <1>r, <1>u, <1>1, <1>2, LeaveLive DEF joinVars

\* The elements of a list of events, when one is appended
LEMMA EventElems ==
    ASSUME NEW q \in Seq(Events), NEW e \in Events
    PROVE  Elems(Append(q, e)) = Elems(q) \cup {e}
  <1> DEFINE r == Append(q, e)
  <1>1. /\ Len(q) \in Nat /\ Len(r) = Len(q) + 1 /\ r[Len(q) + 1] = e
        /\ \A k \in 1 .. Len(q) : r[k] = q[k]
    OBVIOUS
  <1>2. \A k \in 1 .. Len(r) : k = Len(q) + 1 \/ k \in 1 .. Len(q)
    BY <1>1
  <1>3. Len(q) + 1 \in 1 .. Len(r) /\ \A k \in 1 .. Len(q) : k \in 1 .. Len(r)
    BY <1>1
  <1> HIDE DEF r
  <1>4. Elems(r) = Elems(q) \cup {e}
    BY <1>1, <1>2, <1>3 DEF Elems
  <1> QED
    BY <1>4 DEF r

\* A body that is in no join sends an event that is not a handle.
LEMMA SendEventLive ==
    ASSUME JInv, Free, NEW e \in Events \ Handles, SendEvent(e), UNCHANGED joinVars
    PROVE  JInv'
  <1>b. At("body") /\ status = "ok" /\ ~ Waiting(curr_task)
    BY DEF Free, At, Waiting
  <1>k. /\ IInv /\ StackOk /\ DeliverInv
        /\ \A y \in TaskIds : PlainTask(cbs, Plain(Due), stack, co, y)
        /\ pending_wakeup \in Seq(Events)
    BY <1>b, LiveFacts DEF IInv, TypeOK
  <1>u. /\ UNCHANGED <<Due, cbs, co, stack, status, event_names, archived, removed, nr_removed>>
        /\ running' = running /\ fired' = fired /\ has_wakeup' = TRUE
        /\ pending_wakeup' = Append(pending_wakeup, e)
    <2>1. /\ UNCHANGED <<waiters, cbs, co, stack, status, event_names, archived, removed, nr_removed>>
          /\ running' = running /\ fired' = fired /\ has_wakeup' = TRUE
          /\ pending_wakeup' = Append(pending_wakeup, e)
      BY DEF SendEvent, eventVars, removalVars, taskVars, outerVars
    <2>2. Elems(pending_wakeup') = Elems(pending_wakeup) \cup {e}
      BY <1>k, <2>1, EventElems
    <2>3. \A g : Spent(g)' <=> Spent(g)
      BY <2>1, <2>2 DEF Spent
    <2> QED
      BY <2>1, <2>3 DEF Due
  <1>1. IInv'
    BY <1>k, SendEventInv
  <1>2. \A y \in TaskIds : Waiting(y) => Parked(y)
    BY <1>b, RunsJoin
  <1>3. /\ \A k \in 1 .. Len(pending_wakeup) :
             k \in 1 .. Len(pending_wakeup') /\ pending_wakeup'[k] = pending_wakeup[k]
        /\ \A k \in 1 .. Len(pending_wakeup') :
             k \in 1 .. Len(pending_wakeup) \/ pending_wakeup'[k] = e
    BY <1>k, <1>u
  <1>4. DeliverInv'
    BY <1>k, <1>u, <1>3, DeliverKept
  <1> QED
    BY <1>b, <1>k, <1>u, <1>1, <1>2, <1>3, <1>4, AsleepLive DEF StackOk

\* The function of a task started by jfork returns: what the scheduler keeps.
LEMMA JforkEndsInv ==
    ASSUME IInv, NEW e \in Handles, JforkEnds(e)
    PROVE  /\ IInv'
           /\ \A k \in Nat : k >= 1 /\ (has_wakeup \/ waiters[e] # <<>> \/ WillTake(stack, k))
                => WillTake(stack', k)
           /\ pending_wakeup' = IF waiters[e] # <<>> THEN Append(pending_wakeup, e)
                                ELSE pending_wakeup
           /\ \A k \in 1 .. Len(pending_wakeup) :
                k \in 1 .. Len(pending_wakeup') /\ pending_wakeup'[k] = pending_wakeup[k]
           /\ \A k \in 1 .. Len(pending_wakeup') :
                k \in 1 .. Len(pending_wakeup) \/ pending_wakeup'[k] = e
           /\ waiters[e] # <<>> => \E k \in 1 .. Len(pending_wakeup') : pending_wakeup'[k] = e
  <1> DEFINE sent == has_wakeup \/ waiters[e] # <<>>
  <1>b. At("body") /\ Top.id \in TaskIds
    BY BodyFacts DEF JforkEnds, Free
  <1>i. /\ e \in Events /\ waiters \in [Events -> Seq(TaskIds)] /\ has_wakeup \in BOOLEAN
        /\ pending_wakeup \in Seq(Events) /\ pending \in Seq(TaskIds)
    BY JoinAssumption DEF IInv, TypeOK
  <1>u. /\ pending_wakeup' = IF waiters[e] # <<>> THEN Append(pending_wakeup, e)
                             ELSE pending_wakeup
        /\ stack' = IF sent THEN SetTop(stack, NewFrame(Top.id, "wake")) ELSE Pop(stack)
        /\ owed' = owed \cup Elems(waiters[e])
        /\ curr_task' = Top.old /\ has_wakeup' = FALSE /\ status' = status
        /\ co' = [co EXCEPT ![Top.id] = "dead"] /\ waiters' = waiters
        /\ event_names' = event_names \ {e}
        /\ pending' = Append(pending, Top.id) /\ nr_pending' = nr_pending + 1
    BY DEF JforkEnds, outerVars
  <1>p. /\ pending_wakeup' \in Seq(Events)
        /\ \A k \in 1 .. Len(pending_wakeup) :
             k \in 1 .. Len(pending_wakeup') /\ pending_wakeup'[k] = pending_wakeup[k]
        /\ \A k \in 1 .. Len(pending_wakeup') :
             k \in 1 .. Len(pending_wakeup) \/ pending_wakeup'[k] = e
        /\ waiters[e] # <<>> => \E k \in 1 .. Len(pending_wakeup') : pending_wakeup'[k] = e
    <2>1. CASE waiters[e] = <<>>
      BY <1>i, <1>u, <2>1
    <2>2. CASE waiters[e] # <<>>
      <3>1. pending_wakeup' = Append(pending_wakeup, e)
        BY <1>u, <2>2
      <3>2. Len(pending_wakeup) + 1 \in 1 .. Len(pending_wakeup')
            /\ pending_wakeup'[Len(pending_wakeup) + 1] = e
        BY <1>i, <3>1
      <3> QED
        BY <1>i, <3>1, <3>2
    <2> QED
      BY <2>1, <2>2
  <1>o. \A t \in owed' : \/ t \in owed
                         \/ sent /\ \E k \in 1 .. Len(pending_wakeup') :
                                      t \in Elems(waiters'[pending_wakeup'[k]])
    <2>1. Elems(waiters[e]) # {} => waiters[e] # <<>>
      BY EmptyElems
    <2> QED
      BY <1>p, <1>u, <2>1
  <1>s. sent \in BOOLEAN /\ (has_wakeup => sent) /\ (~ sent => pending_wakeup' = pending_wakeup)
    BY <1>i, <1>u
  <1> HIDE DEF sent
  <1>1. /\ stack' \in Seq(Frame) /\ curr_task' \in 0 .. MaxTaskId
        /\ co' \in [TaskIds -> {"none", "fresh", "suspended", "active",
                                "exited", "dead"}]
        /\ ShapeOf(stack') /\ CurrOf(stack', curr_task')
        /\ SendInv' /\ OwedInv'
        /\ \A k \in Nat : k >= 1 /\ (sent \/ WillTake(stack, k)) => WillTake(stack', k)
    BY <1>b, <1>o, <1>p, <1>s, <1>u, LeaveBodyInv
  <1>2. pending' \in Seq(TaskIds) /\ nr_pending' \in Nat /\ nr_pending' = Len(pending')
    BY <1>b, <1>i, <1>u DEF IInv, TypeOK, CountInv
  <1>3. TypeOK'
    <2>1. owed' \subseteq TaskIds
      BY <1>i, <1>u DEF IInv, TypeOK, Elems
    <2> QED
      BY <1>1, <1>2, <1>p, <1>u, <2>1 DEF IInv, TypeOK, JforkEnds, taskVars, outerVars
  <1>4. CountInv'
    BY <1>2 DEF IInv, CountInv, JforkEnds
  <1>5. IInv'
    BY <1>1, <1>3, <1>4 DEF IInv
  <1> QED
    BY <1>1, <1>5, <1>p, <1>u DEF sent

\* The function of a task started by jfork returns: its waiter will be woken.
LEMMA JforkEndsLive ==
    ASSUME JInv, NEW e \in Handles, JforkEnds(e)
    PROVE  JInv'
  <1> DEFINE t == curr_task
  <1>b. /\ At("body") /\ status = "ok" /\ join[t].kind = "none" /\ child[e] = t
    BY DEF JforkEnds, Free, At
  <1>k. /\ IInv /\ BaseInv /\ StackOk /\ DeliverInv /\ UniqueWaiters(Plain(Due))
        /\ \A g \in Handles : Len(Due[g]) <= 1
    BY <1>b, LiveFacts
  <1>u. /\ UNCHANGED <<waiters, cbs, status, archived, removed, nr_removed>>
        /\ running' = running /\ fired' = fired
        /\ event_names' = event_names \ {e} /\ UNCHANGED joinVars
    BY DEF JforkEnds, taskVars, outerVars
  <1>r. /\ t \in TaskIds /\ t = Top.id /\ cbs[t] = 0 /\ co[t] = "active"
        /\ Registered(Due, t, {}) /\ ~ InWaiters(Plain(Due), t)
    BY <1>b, RunsJoin DEF Waiting
  <1>j. /\ IInv'
        /\ \A k \in Nat : k >= 1 /\ (has_wakeup \/ waiters[e] # <<>> \/ WillTake(stack, k))
             => WillTake(stack', k)
        /\ \A k \in 1 .. Len(pending_wakeup) :
             k \in 1 .. Len(pending_wakeup') /\ pending_wakeup'[k] = pending_wakeup[k]
        /\ \A k \in 1 .. Len(pending_wakeup') :
             k \in 1 .. Len(pending_wakeup) \/ pending_wakeup'[k] = e
        /\ waiters[e] # <<>> => \E k \in 1 .. Len(pending_wakeup') : pending_wakeup'[k] = e
        /\ pending_wakeup' = IF waiters[e] # <<>> THEN Append(pending_wakeup, e)
                             ELSE pending_wakeup
    BY <1>k, JforkEndsInv
  <1>d. Due' = Due /\ Due[e] = waiters[e]
    <2>1. e \in event_names /\ e \in Events /\ pending_wakeup \in Seq(Events)
      BY <1>b, <1>k, <1>r, TaskIdLemma, JoinAssumption DEF BaseInv, ChildInv, IInv, TypeOK
    <2>2. Due[e] = waiters[e]
      BY <2>1 DEF Due, Spent
    <2>3. IF waiters[e] # <<>> THEN Elems(pending_wakeup') = Elems(pending_wakeup) \cup {e}
                               ELSE pending_wakeup' = pending_wakeup
      BY <1>j, <2>1, EventElems
    <2>4. \A g : g # e => (Spent(g)' <=> Spent(g))
      BY <1>u, <2>3 DEF Spent
    <2>5. Spent(e)' => waiters[e] = <<>>
      BY <2>3 DEF Spent
    <2>6. ~ Spent(e)
      BY <2>1 DEF Spent
    <2>7. \A g \in Events : (IF Spent(g)' THEN <<>> ELSE waiters[g]) = (IF Spent(g) THEN <<>> ELSE waiters[g])
      BY <2>4, <2>5, <2>6
    <2> QED
      BY <1>u, <2>2, <2>7 DEF Due
  <1>l. /\ Leaves("dead") /\ co'[t] = "dead"
        /\ \A y \in TaskIds : y # t => co'[y] = co[y]
    <2>1. Leaves("dead")
      BY DEF JforkEnds, Leaves
    <2> QED
      BY <1>b, <1>k, <2>1, LeaveView
  <1>1. BaseInv'
    <2>1. \A g \in Handles : g \in event_names' <=> g \in event_names /\ child[g] # t
      <3>1. \A g \in Handles : child[g] = t <=> g = e
        BY <1>b, <1>k, <1>r, TaskIdLemma DEF BaseInv, ChildInv
      <3> QED
        BY <1>u, <3>1
    <2>2. event_names' \subseteq event_names
      BY <1>u
    <2> QED
      BY <1>j, <1>k, <1>l, <1>r, <1>u, <2>1, <2>2, EndBase
  <1>2. DeliverInv'
    <2> SUFFICES ASSUME NEW g \in Handles, g \notin event_names', Due[g] # <<>>
                 PROVE  \E k \in 1 .. Len(pending_wakeup') :
                          pending_wakeup'[k] = g /\ WillTake(stack', k)
      BY <1>d, <1>u DEF DeliverInv
    <2>0. IInv /\ IInv'
      BY <1>j, <1>k
    <2>1. Len(pending_wakeup) \in Nat /\ Len(pending_wakeup') \in Nat
      <3>1. TypeOK /\ TypeOK'
        BY ONLY <2>0 DEF IInv
      <3>2. pending_wakeup \in Seq(Events) /\ pending_wakeup' \in Seq(Events)
        BY ONLY <3>1 DEF TypeOK
      <3> QED
        BY ONLY <3>2
    <2>2. CASE g = e
      <3>1. PICK k \in 1 .. Len(pending_wakeup') : pending_wakeup'[k] = e
        BY <1>d, <1>j, <2>2
      <3>2. k \in Nat /\ k >= 1
        BY <2>1
      <3> QED
        BY <1>d, <1>j, <2>2, <3>1, <3>2
    <2>3. CASE g # e
      <3>1. g \notin event_names
        BY <1>u, <2>3
      <3>2. PICK k \in 1 .. Len(pending_wakeup) :
              pending_wakeup[k] = g /\ (has_wakeup \/ WillTake(stack, k))
        BY <1>k, <3>1 DEF DeliverInv
      <3>3. k \in Nat /\ k >= 1
        BY <2>1
      <3> QED
        BY <1>j, <3>2, <3>3
    <2> QED
      BY <2>2, <2>3
  <1> QED
    BY <1>b, <1>d, <1>k, <1>l, <1>r, <1>u, <1>1, <1>2, LeaveLive DEF joinVars

\* What else a body does.
LEMMA UserLive ==
    ASSUME JInv, UserStep
    PROVE  JInv'
  <1>1. Free /\ UNCHANGED joinVars
    BY DEF UserStep
  <1>2. CASE AwaitCallback
    BY <1>1, <1>2, AwaitCallbackLive
  <1>3. CASE \E e \in Events \ Handles : SendEvent(e) \/ WaitEvent(e)
    BY <1>1, <1>3, WaitEventLive, SendEventLive
  <1>4. CASE (\A e \in Handles : child[e] # curr_task) /\ Finish
    BY <1>1, <1>4, EndLive DEF Finish, InBody
  <1>5. CASE ExitTask
    BY <1>1, <1>5, EndLive DEF ExitTask, InBody
  <1> QED
    BY <1>2, <1>3, <1>4, <1>5 DEF UserStep

----------------------------------------------------------------------------
(* Steps of the joins *)

\* What a step of a join keeps, which neither creates nor ends a task.
LEMMA JoinBase ==
    ASSUME BaseInv, IInv', JoinTypes', CallInv',
           UNCHANGED <<child, event_names, archived, removed, nr_removed>>,
           \A g \in TaskIds : \A e \in tg'[g].handles : child[e] # NULL_TASK_ID,
           running' \subseteq fired',
           \A t \in TaskIds : /\ co'[t] = "dead" <=> co[t] = "dead"
                              /\ co'[t] = "none" <=> co[t] = "none",
           pending_wakeup' = pending_wakeup
    PROVE  BaseInv'
  <1>1. PlainInv'
    BY DEF BaseInv, PlainInv
  <1>2. ChildInv'
    <2>1. \A e \in Handles : child[e] # NULL_TASK_ID => child[e] \in TaskIds
      BY DEF BaseInv, JoinTypes, NULL_TASK_ID, TaskIds
    <2> QED
      BY <2>1 DEF BaseInv, ChildInv
  <1>3. SentInv'
    BY DEF BaseInv, SentInv
  <1> QED
    BY <1>1, <1>2, <1>3 DEF BaseInv

\* The tables of Join after a step of a join: the call of one task changes.
LEMMA CallTypes ==
    ASSUME BaseInv, NEW t \in TaskIds, NEW j \in Calls, CallOk(j, child, event_names),
           join' = [join EXCEPT ![t] = j],
           UNCHANGED <<child, group_of, event_names>>,
           tg' \in [TaskIds -> [open : BOOLEAN, handles : SUBSET Handles]]
    PROVE  /\ JoinTypes' /\ CallInv'
           /\ join'[t] = j /\ \A y \in TaskIds : y # t => join'[y] = join[y]
  <1>1. join'[t] = j /\ \A y \in TaskIds : y # t => join'[y] = join[y]
    BY DEF BaseInv, JoinTypes
  <1>2. JoinTypes'
    BY DEF BaseInv, JoinTypes
  <1>3. CallInv'
    BY <1>1 DEF BaseInv, CallInv
  <1> QED
    BY <1>1, <1>2, <1>3

\* A list without elements is empty.
LEMMA NoElems ==
    ASSUME NEW q \in Seq(TaskIds), Elems(q) = {}
    PROVE  q = <<>>
  <1>1. Len(q) \in Nat
    OBVIOUS
  <1>2. 1 \notin 1 .. Len(q)
    BY DEF Elems
  <1>3. Len(q) = 0
    BY <1>1, <1>2
  <1> QED
    BY <1>3, EmptySeq

\* The list of a handle that gets its first waiter
LEMMA FirstWaiter ==
    ASSUME NEW t \in TaskIds
    PROVE  /\ Append(<<>>, t) \in Seq(TaskIds) /\ Len(Append(<<>>, t)) = 1
           /\ Elems(Append(<<>>, t)) = {t}
  <1>1. Append(<<>>, t) = <<t>>
    OBVIOUS
  <1>2. <<t>> \in Seq(TaskIds) /\ Len(<<t>>) = 1 /\ <<t>>[1] = t
    OBVIOUS
  <1>3. 1 .. 1 = {1}
    OBVIOUS
  <1>4. Elems(<<t>>) = {t}
    BY <1>2, <1>3 DEF Elems
  <1> QED
    BY <1>1, <1>2, <1>4

\* The body that runs registers its task with the handles in R, and yields.  It
\* waits for those whose tasks have not ended, as no other join does; the others
\* are spent.
LEMMA RegisterLive ==
    ASSUME JInv, At("body"), Registered(Due, curr_task, {}),
           join[curr_task].kind # "insert", NEW R \in SUBSET Handles,
           \A e \in R : e \notin event_names => Spent(e), NEW S, S = R \cap event_names,
           \A e \in S, y \in TaskIds : y # curr_task /\ Waiting(y) => e \notin join[y].handles,
           waiters' = [e \in Events |-> IF e \in R THEN Append(waiters[e], curr_task)
                                        ELSE waiters[e]],
           Yield, cbs' = cbs, task_event' \in [TaskIds -> Events \cup {NoEvent}],
           NEW j \in Calls, j.kind \in {"one", "all", "any"}, j.handles = S, j.finished = {},
           CallOk(j, child, event_names), join' = [join EXCEPT ![curr_task] = j],
           UNCHANGED <<child, group_of, tg>>
    PROVE  JInv'
  <1> DEFINE t == curr_task
  <1>b. AfterBody("suspended") /\ status = "ok"
    BY DEF Yield, At
  <1>k. /\ IInv /\ BaseInv /\ StackOk /\ UniqueWaiters(Plain(Due))
        /\ \A g \in Handles : Len(Due[g]) <= 1
        /\ Due \in [Events -> Seq(TaskIds)] /\ Handles \subseteq Events
        /\ waiters \in [Events -> Seq(TaskIds)] /\ S \in SUBSET Handles
    BY <1>b, LiveFacts
  <1>r. /\ t \in TaskIds /\ cbs[t] = 0 /\ co[t] = "active" /\ ~ InWaiters(Plain(Due), t)
    BY RunsJoin
  <1>u. /\ UNCHANGED <<status, event_names, archived, removed, nr_removed, nr_pending, pending>>
        /\ running' = running /\ fired' = fired /\ pending_wakeup' = pending_wakeup
    BY DEF Yield, AfterBody, taskVars, outerVars
  <1>e. \A e \in S : Due[e] = <<>>
    <2> SUFFICES ASSUME NEW e \in S
                 PROVE  Elems(Due[e]) = {}
      BY <1>k, NoElems
    <2> SUFFICES ASSUME NEW y \in Elems(Due[e])
                 PROVE  FALSE
      OBVIOUS
    <2>1. y \in TaskIds /\ Waiting(y) /\ e \in Open(join[y])
      BY <1>b, HandleWaiter
    <2>2. y # t
      BY DEF Registered
    <2> QED
      BY <2>1, <2>2 DEF Open
  <1>d. /\ \A e \in Events : Due'[e] = IF e \in S THEN Append(Due[e], t) ELSE Due[e]
        /\ waiters' \in [Events -> Seq(TaskIds)]
        /\ \A e \in Events : Elems(waiters[e]) \subseteq Elems(waiters'[e])
    <2>1. \A e : Spent(e)' <=> Spent(e)
      BY <1>u, SpentSame
    <2>2. \A e \in S : ~ Spent(e)
      BY DEF Spent
    <2>3. \A e \in R : e \in S \/ Spent(e)
      OBVIOUS
    <2>4. \A e \in Events : Due'[e] = IF e \in S THEN Append(Due[e], t) ELSE Due[e]
      BY <2>1, <2>2, <2>3 DEF Due
    <2>5. waiters' \in [Events -> Seq(TaskIds)]
      BY <1>k, <1>r
    <2>6. \A e \in Events : Elems(waiters[e]) \subseteq Elems(waiters'[e])
      BY <1>k, <1>r, ElemsLemma
    <2> QED
      BY <2>4, <2>5, <2>6
  <1>w. /\ \A e \in Events : e \notin S => Due'[e] = Due[e]
        /\ \A e \in S : Due'[e] \in Seq(TaskIds) /\ Len(Due'[e]) = 1
                        /\ Elems(Due'[e]) = {t} /\ Elems(Due[e]) = {}
    <2>1. \A e \in Events : e \notin S => Due'[e] = Due[e]
      BY <1>d
    <2>2. ASSUME NEW e \in S
          PROVE  /\ Due'[e] \in Seq(TaskIds) /\ Len(Due'[e]) = 1
                 /\ Elems(Due'[e]) = {t} /\ Elems(Due[e]) = {}
      <3>1. Due'[e] = Append(<<>>, t) /\ Due[e] = <<>>
        BY <1>d, <1>e, <1>k
      <3>2. /\ Append(<<>>, t) \in Seq(TaskIds) /\ Len(Append(<<>>, t)) = 1
            /\ Elems(Append(<<>>, t)) = {t}
        BY <1>r, FirstWaiter
      <3>3. Elems(<<>>) = {}
        BY EmptyElems
      <3> QED
        BY <3>1, <3>2, <3>3
    <2> QED
      BY <2>1, <2>2
  <1>l. /\ Leaves("suspended") /\ co'[t] = "suspended"
        /\ \A y \in TaskIds : y # t => co'[y] = co[y]
    BY <1>b, <1>k, AfterLeaves, LeaveView
  <1>c. /\ JoinTypes' /\ CallInv'
        /\ join'[t] = j /\ \A y \in TaskIds : y # t => join'[y] = join[y]
    BY <1>k, <1>r, <1>u, CallTypes DEF BaseInv, JoinTypes
  <1>1. IInv'
    <2>1. /\ stack' \in Seq(Frame) /\ curr_task' \in 0 .. MaxTaskId
          /\ co' \in [TaskIds -> {"none", "fresh", "suspended", "active",
                                  "exited", "dead"}]
          /\ ShapeOf(stack') /\ CurrOf(stack', curr_task')
          /\ SendInv' /\ OwedInv'
      BY <1>b, <1>k, <1>d, AfterBodyInv
    <2>2. TypeOK'
      BY <1>d, <1>k, <2>1 DEF IInv, TypeOK, Yield, AfterBody, taskVars, outerVars, ghostVars
    <2>3. CountInv'
      BY <1>k, <1>u DEF IInv, CountInv
    <2> QED
      BY <2>1, <2>2, <2>3 DEF IInv
  <1>2. BaseInv'
    <2>1. running' \subseteq fired'
      BY <1>k, <1>u DEF BaseInv, PlainInv
    <2>2. \A g \in TaskIds : \A e \in tg'[g].handles : child[e] # NULL_TASK_ID
      BY <1>k DEF BaseInv, ChildInv
    <2>3. \A y \in TaskIds : /\ co'[y] = "dead" <=> co[y] = "dead"
                             /\ co'[y] = "none" <=> co[y] = "none"
      BY <1>l, <1>r
    <2> QED
      BY <1>c, <1>k, <1>u, <1>1, <2>1, <2>2, <2>3, JoinBase
  <1>3. DeliverInv'
    <2>1. \A e \in Handles : e \notin event_names => Due'[e] = Due[e]
      BY <1>k, <1>w
    <2> QED
      BY <1>b, <1>d, <2>1, LeaveDeliver
  <1>4. Registered(Due', t, Open(join'[t]))
    <2>1. Open(join'[t]) = S
      BY <1>c DEF Open
    <2>2. \A e \in Handles : t \in Elems(Due'[e]) <=> e \in S
      BY <1>k, <1>w DEF Registered
    <2> QED
      BY <2>1, <2>2 DEF Registered
  <1>5. Plain(Due') = Plain(Due)
    <2>1. \A e \in Events : e \notin Handles => Due'[e] = Due[e]
      BY <1>w
    <2> QED
      BY <1>k, <2>1, PlainFacts
  <1>6. \A y \in TaskIds : y # t =>
          \A g \in Handles : y \in Elems(Due'[g]) <=> y \in Elems(Due[g])
    <2> SUFFICES ASSUME NEW y \in TaskIds, y # t, NEW g \in Handles
                 PROVE  y \in Elems(Due'[g]) <=> y \in Elems(Due[g])
      OBVIOUS
    <2>1. CASE g \in S
      <3>1. Elems(Due'[g]) = {t} /\ Elems(Due[g]) = {}
        BY <1>w, <2>1
      <3> QED
        BY <3>1
    <2>2. CASE g \notin S
      BY <1>k, <1>w, <2>2
    <2> QED
      BY <2>1, <2>2
  <1>7. \A g \in Handles : Len(Due'[g]) <= 1
    <2>1. ASSUME NEW g \in Handles PROVE Len(Due'[g]) <= 1
      <3>1. CASE g \in S
        <4>1. Len(Due'[g]) = 1
          BY <1>w, <3>1
        <4> HIDE DEF t
        <4> QED
          BY ONLY <4>1
      <3>2. CASE g \notin S
        <4>1. Due'[g] = Due[g]
          BY <1>k, <1>w, <3>2
        <4> QED
          BY <1>k, <4>1
      <3> QED
        BY <3>1, <3>2
    <2> QED
      BY <2>1
  <1>8. join'[t].kind \in {"one", "all", "any"}
    BY <1>c
  <1> QED
    BY <1>b, <1>c, <1>k, <1>l, <1>r, <1>u, <1>2, <1>3, <1>4, <1>5, <1>6, <1>7, <1>8, LeaveLive

\* The running task can pass e to a join of some kind.
CanJoin(e) == \E kind \in {"one", "all", "any"} : MayJoin(e, kind)

\* The handles that can be passed to a join
LEMMA MayJoinFacts ==
    ASSUME JoinUse, NEW S \in SUBSET Handles, \A e \in S : CanJoin(e)
    PROVE  /\ \A e \in S : child[e] # NULL_TASK_ID
           /\ \A e \in S, y \in TaskIds : Waiting(y) => e \notin join[y].handles
  BY DEF JoinUse, CanJoin, MayJoin, Known

\* Sets of handles are finite.
LEMMA HandleSets ==
    ASSUME NEW S \in SUBSET Handles
    PROVE  /\ IsFiniteSet(S) /\ Cardinality(S) \in Nat
           /\ Cardinality(S) = 0 <=> S = {}
  <1>1. IsFiniteSet(S)
    BY JoinAssumption, FS_Subset
  <1> QED
    BY <1>1, FS_CardinalityType, FS_EmptySet

\* A task that runs user code is in no call.
LEMMA NoCallType ==
    /\ NoCall \in Calls /\ NoCall.next = "user"
    /\ \A S \in SUBSET Handles, k \in {"one", "any"} :
         [NoCall EXCEPT !.kind = k, !.handles = S] \in Calls
  <1>1. NULL_TASK_ID \in 0 .. MaxTaskId
    BY ConstantsAssumption DEF NULL_TASK_ID
  <1>2. NoCall \in Calls /\ NoCall.next = "user"
    BY <1>1 DEF Calls, NoCall
  <1>3. ASSUME NEW S \in SUBSET Handles, NEW k \in {"one", "any"}
        PROVE  [NoCall EXCEPT !.kind = k, !.handles = S] \in Calls
    BY <1>2 DEF Calls
  <1> QED
    BY <1>2, <1>3

\* join(e), join_any({e}): the task waits for the event of one handle.
LEMMA WaitOneLive ==
    ASSUME JInv, JoinUse, Free, NEW e \in Handles, CanJoin(e), WaitOne(e),
           UNCHANGED <<child, group_of, tg>>
    PROVE  JInv'
  <1> DEFINE S == {e}
             j == [NoCall EXCEPT !.kind = "one", !.handles = S]
  <1>b. At("body") /\ status = "ok" /\ join[curr_task].kind = "none"
    BY DEF Free, At
  <1>k. IInv /\ waiters \in [Events -> Seq(TaskIds)] /\ e \in Events /\ S \in SUBSET Handles
    BY <1>b, LiveFacts, JoinAssumption
  <1>r. curr_task \in TaskIds /\ Registered(Due, curr_task, {})
    BY <1>b, RunsJoin DEF Waiting
  <1>u. /\ Yield /\ cbs' = cbs /\ e \in event_names
        /\ waiters' = [waiters EXCEPT ![e] = Append(@, curr_task)]
        /\ task_event' = [task_event EXCEPT ![curr_task] = e]
        /\ join' = [join EXCEPT ![curr_task] = j]
    BY DEF WaitOne, WaitEvent, RegisterEvent, Enter
  <1>1. waiters' = [f \in Events |-> IF f \in S THEN Append(waiters[f], curr_task)
                                     ELSE waiters[f]]
    BY <1>k, <1>u
  <1>2. task_event' \in [TaskIds -> Events \cup {NoEvent}]
    <2>1. task_event \in [TaskIds -> Events \cup {NoEvent}]
      BY <1>k DEF IInv, TypeOK
    <2> QED
      BY <1>k, <1>u, <2>1
  <1>3. j \in Calls /\ j.kind = "one" /\ j.handles = S /\ j.finished = {} /\ j.left = 0
    <2>1. j \in Calls
      BY <1>k, NoCallType
    <2> QED
      BY <2>1 DEF NoCall
  <1>4. /\ \A f \in S : child[f] # NULL_TASK_ID
        /\ \A f \in S, y \in TaskIds : Waiting(y) => f \notin join[y].handles
    BY <1>k, MayJoinFacts
  <1>5. CallOk(j, child, event_names)
    BY <1>3, <1>4 DEF CallOk
  <1>6. S = S \cap event_names
    BY <1>u
  <1> HIDE DEF j, S
  <1> QED
    BY <1>b, <1>k, <1>r, <1>u, <1>1, <1>2, <1>3, <1>4, <1>5, <1>6, RegisterLive

\* The body goes on and its task leaves the lists of the handles: what the
\* scheduler keeps.
LEMMA GoOnInv ==
    ASSUME JInv, At("body"), GoOn, waiters' \in [Events -> Seq(TaskIds)],
           \A e \in Events : e \notin Handles => Due'[e] = Due[e],
           \A e \in Handles : Due'[e] = IF curr_task \in Elems(Due[e]) THEN <<>>
                                            ELSE Due[e]
    PROVE  /\ IInv'
           /\ \A y \in TaskIds : y # curr_task =>
                \A e \in Handles : y \in Elems(Due'[e]) <=> y \in Elems(Due[e])
           /\ \A e \in Handles : Len(Due'[e]) <= 1
           /\ Registered(Due', curr_task, {})
  <1> DEFINE t == curr_task
  <1>k. /\ IInv /\ status = "ok" /\ Due \in [Events -> Seq(TaskIds)]
        /\ \A e \in Handles : Len(Due[e]) <= 1
        /\ Handles \subseteq Events /\ waiters \in [Events -> Seq(TaskIds)]
    BY LiveFacts DEF At
  <1>u. /\ UNCHANGED <<running, archived, fired, next_task_id, co, pending, nr_pending,
                       removed, nr_removed, event_names, task_event, has_wakeup>>
        /\ UNCHANGED <<pending_wakeup, curr_wakeup, curr_task, stack, cbs, phase,
                       unvisited, status, owed, taken>>
    BY DEF GoOn, taskVars, removalVars, wakeVars, outerVars, ghostVars
  <1>1. ASSUME NEW e \in Handles, t \in Elems(Due[e])
        PROVE  Elems(Due[e]) = {t} /\ Due'[e] = <<>> /\ Elems(Due'[e]) = {}
    <2>1. Len(Due[e]) \in Nat /\ Len(Due[e]) <= 1
      BY <1>k
    <2>2. Due'[e] = <<>>
      BY <1>1
    <2>3. \A y \in Elems(Due[e]) : y = Due[e][1]
      BY <2>1 DEF Elems
    <2> QED
      BY <1>1, <2>2, <2>3, EmptyElems
  <1>2. \A e \in Handles : t \notin Elems(Due[e]) => Due'[e] = Due[e]
    OBVIOUS
  <1>3. ASSUME NEW y \in TaskIds, y # t, NEW e \in Handles
        PROVE  y \in Elems(Due'[e]) <=> y \in Elems(Due[e])
    <2>1. CASE t \in Elems(Due[e])
      <3>1. Elems(Due[e]) = {t} /\ Elems(Due'[e]) = {}
        BY <1>1, <2>1
      <3> QED
        BY <1>3, <3>1
    <2>2. CASE t \notin Elems(Due[e])
      <3>1. Due'[e] = Due[e]
        BY <1>2, <2>2
      <3> QED
        BY <3>1
    <2> QED
      BY <2>1, <2>2
  <1>4. ASSUME NEW e \in Handles
        PROVE  Len(Due'[e]) <= 1
    <2>1. CASE Due'[e] = <<>>
      BY <2>1
    <2>2. CASE Due'[e] = Due[e]
      BY <1>k, <2>2
    <2> QED
      BY <1>1, <1>2, <2>1, <2>2
  <1>5. Registered(Due', t, {})
    BY <1>1, <1>2 DEF Registered
  <1>6. OwedInv'
    <2> SUFFICES ASSUME KeepsWaiters, NEW y \in owed
                 PROVE  Snapped(stack, y) \/ OwedWait(y)'
      BY <1>u DEF OwedInv
    <2>1. y \in TaskIds /\ (Snapped(stack, y) \/ OwedWait(y))
      BY <1>k DEF IInv, TypeOK, OwedInv
    <2>2. CASE OwedWait(y)
      <3>0. PICK k \in 1 .. Len(pending_wakeup) :
              /\ y \in Elems(waiters[pending_wakeup[k]])
              /\ has_wakeup \/ WillTake(stack, k)
        BY <2>2 DEF OwedWait
      <3>2. pending_wakeup[k] \in Events
        BY <1>k DEF IInv, TypeOK
      <3>d. /\ Due[pending_wakeup[k]] = waiters[pending_wakeup[k]]
            /\ Due'[pending_wakeup[k]] = waiters'[pending_wakeup[k]]
        <4>1. ~ Spent(pending_wakeup[k])
          BY DEF Spent, Elems
        <4> QED
          BY <1>k, <1>u, <3>2, <4>1, DueFacts, DueNext
      <3>1. /\ y \in Elems(Due[pending_wakeup[k]])
            /\ has_wakeup \/ WillTake(stack, k)
        BY <3>0, <3>d
      <3>3. y \in Elems(Due'[pending_wakeup[k]])
        <4>1. CASE pending_wakeup[k] \notin Handles
          BY <3>1, <3>2, <4>1
        <4>2. CASE pending_wakeup[k] \in Handles /\ y # t
          BY <1>3, <2>1, <3>1, <4>2
        <4>3. CASE pending_wakeup[k] \in Handles /\ y = t
          <5>1. Waiting(t) => t \notin owed
            BY RunsJoin
          <5>2. Registered(Due, t, {})
            BY <4>3, <5>1, RunsJoin
          <5> QED
            BY <3>1, <4>3, <5>2 DEF Registered
        <4> QED
          BY <4>1, <4>2, <4>3
      <3> QED
        BY <1>u, <3>0, <3>3, <3>d DEF OwedWait
    <2> QED
      BY <2>1, <2>2
  <1>7. TypeOK'
    <2>0. TypeOK
      BY <1>k DEF IInv
    <2> QED
      BY ONLY <1>u, <2>0, waiters' \in [Events -> Seq(TaskIds)] DEF TypeOK
  <1>8. ShapeOf(stack') /\ CurrOf(stack', curr_task') /\ CountInv' /\ SendInv'
    <2>1. ShapeOf(stack) /\ CurrOf(stack, curr_task) /\ CountInv /\ SendInv
      BY <1>k DEF IInv
    <2> QED
      BY ONLY <1>u, <2>1 DEF CountInv, SendInv, Top
  <1>9. IInv'
    BY <1>6, <1>7, <1>8 DEF IInv
  <1> QED
    BY <1>3, <1>4, <1>5, <1>9

\* The body goes on and is in no call.
LEMMA GoOnLive ==
    ASSUME JInv, At("body"), GoOn, waiters' \in [Events -> Seq(TaskIds)],
           \A e \in Events : e \notin Handles => Due'[e] = Due[e],
           \A e \in Handles : Due'[e] = IF curr_task \in Elems(Due[e]) THEN <<>>
                                            ELSE Due[e],
           JoinTypes', CallInv', UNCHANGED <<child, group_of>>,
           \A g \in TaskIds : \A e \in tg'[g].handles : child[e] # NULL_TASK_ID,
           \A y \in TaskIds : y # curr_task => join'[y] = join[y],
           join'[curr_task].kind = "none", GroupInv'
    PROVE  JInv'
  <1> DEFINE t == curr_task
  <1>k. /\ IInv /\ BaseInv /\ LiveInv /\ StackOk /\ status = "ok" /\ DeliverInv
        /\ PlainSource(cbs, Plain(Due), stack, co)
        /\ \A y \in TaskIds : HandleTask(y)
        /\ Due \in [Events -> Seq(TaskIds)]
        /\ Handles \subseteq Events
    BY LiveFacts DEF At, LiveInv
  <1>u. /\ UNCHANGED <<running, archived, fired, co, removed, nr_removed, event_names,
                       has_wakeup, pending_wakeup>>
        /\ UNCHANGED <<curr_wakeup, curr_task, stack, cbs, status>>
    BY DEF GoOn, taskVars, removalVars, wakeVars, outerVars
  <1>g. /\ IInv'
        /\ \A y \in TaskIds : y # t =>
             \A e \in Handles : y \in Elems(Due'[e]) <=> y \in Elems(Due[e])
        /\ \A e \in Handles : Len(Due'[e]) <= 1
        /\ Registered(Due', t, {})
    BY GoOnInv
  <1>1. BaseInv'
    <2>1. running' \subseteq fired'
      BY <1>k, <1>u DEF BaseInv, PlainInv
    <2> QED
      BY <1>g, <1>k, <1>u, <2>1, JoinBase
  <1>2. Plain(Due') = Plain(Due)
    BY <1>k, PlainFacts
  <1>3. StackOk' /\ PlainSource(cbs, Plain(Due), stack, co)'
    BY <1>k, <1>u, <1>2 DEF StackOk
  <1>4. HandleSource'
    <2>1. ASSUME NEW y \in TaskIds, y # t
          PROVE  HandleTask(y)'
      <3>1. Waiting(y) => Parked(y)
        BY <2>1, RunsJoin
      <3>2. HandleTask(y) /\ join'[y] = join[y]
        BY <1>k, <2>1
      <3>3. \A e \in Handles : y \in Elems(Due'[e]) <=> y \in Elems(Due[e])
        BY <1>g, <2>1
      <3> QED
        BY <1>u, <1>2, <3>1, <3>2, <3>3, HandleKept
    <2>2. \A y : y = t => HandleTask(y)'
      <3>1. \A y : y = t => ~ Waiting(y)' /\ Registered(Due', y, {})
        BY <1>g DEF Waiting
      <3> QED
        BY <3>1 DEF HandleTask
    <2> QED
      BY <1>g, <2>1, <2>2 DEF HandleSource
  <1>5. DeliverInv'
    <2>1. \A e \in Handles : e \notin event_names' /\ Due'[e] # <<>> =>
            e \notin event_names /\ Due[e] # <<>>
      BY <1>u
    <2>2. IInv /\ DeliverInv /\ pending_wakeup' = pending_wakeup
          /\ has_wakeup' = has_wakeup /\ stack' = stack
      BY <1>k, <1>u
    <2> QED
      BY ONLY <2>1, <2>2, DeliverKept
  <1>6. InsertInv'
    <2> SUFFICES ASSUME NEW u \in TaskIds, join'[u].kind = "insert"
                 PROVE  InsertTask(u)'
      BY DEF InsertInv
    <2>1. u # t /\ join'[u] = join[u] /\ join[u].kind = "insert"
      OBVIOUS
    <2>2. InsertTask(u)
      BY <1>k, <2>1 DEF LiveInv, InsertInv
    <2>3. \A e \in join[u].handles : e \in Handles /\ child[e] # NULL_TASK_ID
      BY <1>k DEF BaseInv, CallInv, CallOk, JoinTypes, Calls
    <2> QED
      BY <1>u, <2>1, <2>2, <2>3, InsertKept
  <1> QED
    BY <1>1, <1>3, <1>4, <1>5, <1>6 DEF JInv, LiveInv

\* The task of a handle and the owner of a group are tasks.
LEMMA SomeTask ==
    ASSUME JoinTypes, NEW e \in Handles
    PROVE  /\ child[e] # NULL_TASK_ID => child[e] \in TaskIds
           /\ group_of[e] # NULL_TASK_ID => group_of[e] \in TaskIds
  <1>1. child[e] \in 0 .. MaxTaskId /\ group_of[e] \in 0 .. MaxTaskId
    BY DEF JoinTypes
  <1> QED
    BY <1>1 DEF NULL_TASK_ID, TaskIds

\* Once a join is over, the other calls and the groups stay as they are.
LEMMA GroupsReturn ==
    ASSUME JInv, At("body"), join[curr_task].kind # "insert",
           \A y \in TaskIds : y # curr_task => join'[y] = join[y],
           UNCHANGED <<child, group_of, event_names>>,
           \A e \in Handles : group_of[e] # NULL_TASK_ID /\ e \in tg[group_of[e]].handles =>
             e \in tg'[group_of[e]].handles \/ e \notin event_names
    PROVE  GroupInv'
  <1> SUFFICES ASSUME NEW e \in Handles, group_of[e] # NULL_TASK_ID
               PROVE  \/ e \notin event_names /\ child[e] # NULL_TASK_ID
                      \/ e \in tg'[group_of[e]].handles
                      \/ \E u \in TaskIds : join'[u].kind = "insert" /\ join'[u].handles = {e}
    BY DEF GroupInv
  <1>k. BaseInv /\ GroupInv
    BY LiveFacts DEF At, LiveInv
  <1>1. CASE e \notin event_names /\ child[e] # NULL_TASK_ID
    BY <1>1
  <1>2. CASE e \in tg[group_of[e]].handles
    <2>1. group_of[e] \in TaskIds
      BY <1>k, SomeTask DEF BaseInv
    <2>2. child[e] # NULL_TASK_ID
      BY <1>k, <1>2, <2>1 DEF BaseInv, ChildInv
    <2> QED
      BY <1>2, <2>2
  <1>3. CASE \E u \in TaskIds : join[u].kind = "insert" /\ join[u].handles = {e}
    BY <1>3
  <1> QED
    BY <1>k, <1>1, <1>2, <1>3 DEF GroupInv

\* A join returns to its caller.
LEMMA ReturnLive ==
    ASSUME JInv, At("body"), GoOn, Return, waiters' \in [Events -> Seq(TaskIds)],
           \A e \in Events : e \notin Handles => Due'[e] = Due[e],
           \A e \in Handles : Due'[e] = IF curr_task \in Elems(Due[e]) THEN <<>>
                                            ELSE Due[e],
           UNCHANGED <<child, group_of>>,
           tg' \in [TaskIds -> [open : BOOLEAN, handles : SUBSET Handles]],
           \A g \in TaskIds : \A e \in tg'[g].handles : child[e] # NULL_TASK_ID,
           GroupInv'
    PROVE  JInv'
  <1>k. BaseInv /\ curr_task \in TaskIds /\ event_names' = event_names
    BY LiveFacts, RunsJoin DEF At, GoOn
  <1>1. NoCall \in Calls /\ NoCall.kind = "none" /\ CallOk(NoCall, child, event_names)
    BY NoCallType DEF CallOk, NoCall
  <1>2. join' = [join EXCEPT ![curr_task] = NoCall]
    BY DEF Return, Enter
  <1>3. /\ JoinTypes' /\ CallInv'
        /\ join'[curr_task] = NoCall
        /\ \A y \in TaskIds : y # curr_task => join'[y] = join[y]
    BY <1>k, <1>1, <1>2, CallTypes
  <1> QED
    BY <1>1, <1>3, GoOnLive

\* A body that is registered with no handle returns from its join, and tracks
\* no other handles than before.
LEMMA PlainReturn ==
    ASSUME JInv, At("body"), GoOn, Return, waiters' \in [Events -> Seq(TaskIds)],
           Due' = Due, UNCHANGED <<child, group_of>>,
           Registered(Due, curr_task, {}), join[curr_task].kind # "insert",
           tg' \in [TaskIds -> [open : BOOLEAN, handles : SUBSET Handles]],
           \A g \in TaskIds : tg'[g].handles \subseteq tg[g].handles,
           \A e \in Handles : group_of[e] # NULL_TASK_ID /\ e \in tg[group_of[e]].handles =>
             e \in tg'[group_of[e]].handles \/ e \notin event_names
    PROVE  JInv'
  <1>k. BaseInv /\ Due \in [Events -> Seq(TaskIds)] /\ event_names' = event_names
    BY LiveFacts DEF At, GoOn
  <1>1. \A e \in Handles : curr_task \notin Elems(Due[e])
    BY DEF Registered
  <1>2. \A g \in TaskIds : \A e \in tg'[g].handles : child[e] # NULL_TASK_ID
    BY <1>k DEF BaseInv, ChildInv
  <1>3. join' = [join EXCEPT ![curr_task] = NoCall]
    BY DEF Return, Enter
  <1>4. \A y \in TaskIds : y # curr_task => join'[y] = join[y]
    BY <1>k, <1>3 DEF BaseInv, JoinTypes
  <1>5. GroupInv'
    BY <1>k, <1>4, GroupsReturn
  <1> QED
    BY <1>k, <1>1, <1>2, <1>5, ReturnLive

\* join(S): the task waits for every handle in S whose task has not ended, and
\* becomes a waiter of the others, which are spent.
LEMMA JoinVecLive ==
    ASSUME JInv, JoinUse, At("body"), Registered(Due, curr_task, {}),
           join[curr_task].kind # "insert", NEW S \in SUBSET Handles,
           \A e \in S : CanJoin(e), \A e \in S : e \notin event_names => Spent(e),
           NEW call \in Calls, JoinVec(S, call), UNCHANGED <<child, group_of, tg>>,
           call.next # "user" => \A e \in call.drained : e \notin event_names \/ e \in S
    PROVE  JInv'
  <1> DEFINE expect == S \cap event_names
             n == Cardinality(expect)
             j == [call EXCEPT !.kind = "all", !.handles = expect, !.finished = {}, !.left = n]
  <1>e. expect \in SUBSET Handles /\ \A e \in call.drained : e \in expect <=> e \in S /\ e \in event_names
    OBVIOUS
  <1>b. IInv /\ BaseInv /\ waiters \in [Events -> Seq(TaskIds)] /\ curr_task \in TaskIds
    BY LiveFacts, RunsJoin DEF At
  <1>w. waiters' = [e \in Events |-> IF e \in S THEN Append(waiters[e], curr_task)
                                      ELSE waiters[e]]
    BY DEF JoinVec, InsertWaiter
  <1>1. CASE expect = {}
    <2>1. GoOn /\ Return
      BY <1>1 DEF JoinVec
    <2>2. event_names' = event_names /\ pending_wakeup' = pending_wakeup
      BY <2>1 DEF GoOn, wakeVars
    <2>3. \A e \in S : Spent(e)
      BY <1>1
    <2>4. \A e : Spent(e)' <=> Spent(e)
      BY <2>2, SpentSame
    <2>5. Due' = Due
      BY <1>w, <2>3, <2>4 DEF Due
    <2>6. waiters' \in [Events -> Seq(TaskIds)]
      BY <1>b, <1>w
    <2>7. tg' \in [TaskIds -> [open : BOOLEAN, handles : SUBSET Handles]]
      BY <1>b DEF BaseInv, JoinTypes
    <2> QED
      BY <2>1, <2>5, <2>6, <2>7, PlainReturn
  <1>2. CASE expect # {}
    <2>n. n \in Nat /\ n # 0
      BY <1>2, <1>e, HandleSets
    <2>u. /\ Yield /\ cbs' = cbs /\ task_event' = task_event
          /\ join' = [join EXCEPT ![curr_task] = j]
      BY <1>2 DEF JoinVec, AwaitNoop, Enter
    <2>2. task_event' \in [TaskIds -> Events \cup {NoEvent}]
      BY <1>b, <2>u DEF IInv, TypeOK
    <2>3. /\ j \in Calls /\ j.kind = "all" /\ j.handles = expect /\ j.finished = {} /\ j.left = n
          /\ j.next = call.next /\ j.drained = call.drained
      BY <1>e, <2>n DEF Calls
    <2>4. /\ \A e \in expect : child[e] # NULL_TASK_ID
          /\ \A e \in expect, y \in TaskIds : Waiting(y) => e \notin join[y].handles
      BY MayJoinFacts
    <2> HIDE DEF j
    <2>5. CallOk(j, child, event_names)
      <3>1. Open(j) = expect
        BY <2>3 DEF Open
      <3>2. j.next # "user" => \A e \in j.drained : e \notin event_names \/ e \in j.handles
        BY <2>3
      <3> HIDE DEF expect
      <3> QED
        BY <1>2, <2>3, <2>4, <3>1, <3>2 DEF CallOk
    <2>6. expect = S \cap event_names
      OBVIOUS
    <2> HIDE DEF expect
    <2> QED
      BY <1>w, <2>u, <2>2, <2>3, <2>4, <2>5, <2>6, RegisterLive
  <1> QED
    BY <1>1, <1>2

\* join(e)
LEMMA JoinOneLive ==
    ASSUME JInv, JoinUse, NEW e \in Handles, JoinOne(e)
    PROVE  JInv'
  BY WaitOneLive DEF JoinOne, CanJoin

\* join(S), called by user code
LEMMA JoinAllLive ==
    ASSUME JInv, JoinUse, NEW S \in SUBSET Handles, JoinAll(S)
    PROVE  JInv'
  <1>1. At("body") /\ Registered(Due, curr_task, {}) /\ join[curr_task].kind = "none"
    BY RunsJoin DEF JoinAll, Free, At, Waiting
  <1>2. NoCall \in Calls /\ NoCall.next = "user"
    BY NoCallType
  <1>3. \A e \in S : CanJoin(e) /\ (e \notin event_names => Spent(e))
    BY DEF JoinAll, JoinUse, CanJoin, Settled, Spent
  <1>4. JoinVec(S, NoCall) /\ UNCHANGED <<child, group_of, tg>>
    BY DEF JoinAll
  <1> QED
    BY <1>1, <1>2, <1>3, <1>4, JoinVecLive

\* join_any(S), also of the handles of a group
LEMMA WaitAnyLive ==
    ASSUME JInv, JoinUse, Free, NEW S \in SUBSET Handles, S \subseteq event_names,
           \A e \in S : CanJoin(e), WaitAny(S), UNCHANGED <<child, group_of, tg>>
    PROVE  JInv'
  <1>1. CASE \E e \in S : S = {e} /\ WaitOne(e)
    BY <1>1, WaitOneLive
  <1>2. CASE ~ \E e \in S : S = {e} /\ WaitOne(e)
    <2> DEFINE j == [NoCall EXCEPT !.kind = "any", !.handles = S]
    <2>b. At("body") /\ status = "ok" /\ join[curr_task].kind = "none"
      BY DEF Free, At
    <2>k. IInv
      BY <2>b, LiveFacts
    <2>r. Registered(Due, curr_task, {})
      BY <2>b, RunsJoin DEF Waiting
    <2>u. /\ Yield /\ cbs' = cbs /\ task_event' = task_event
          /\ waiters' = [e \in Events |-> IF e \in S THEN Append(waiters[e], curr_task)
                                          ELSE waiters[e]]
          /\ join' = [join EXCEPT ![curr_task] = j] /\ Cardinality(S) > 1
      BY <1>2 DEF WaitAny, InsertWaiter, AwaitNoop, Enter
    <2>2. task_event' \in [TaskIds -> Events \cup {NoEvent}]
      BY <2>k, <2>u DEF IInv, TypeOK
    <2>3. j \in Calls /\ j.kind = "any" /\ j.handles = S /\ j.finished = {} /\ j.left = 0
      <3>1. j \in Calls
        BY NoCallType
      <3> QED
        BY <3>1 DEF NoCall
    <2>4. /\ \A e \in S : child[e] # NULL_TASK_ID
          /\ \A e \in S, y \in TaskIds : Waiting(y) => e \notin join[y].handles
      BY MayJoinFacts
    <2>5. S # {}
      BY <2>u, HandleSets
    <2>6. CallOk(j, child, event_names)
      BY <2>3, <2>4, <2>5 DEF CallOk
    <2>7. S = S \cap event_names
      OBVIOUS
    <2> HIDE DEF j
    <2> QED
      BY <2>b, <2>r, <2>u, <2>2, <2>3, <2>4, <2>6, <2>7, RegisterLive
  <1> QED
    BY <1>1, <1>2

\* join_any(S), called by user code
LEMMA JoinAnyLive ==
    ASSUME JInv, JoinUse, NEW S \in SUBSET Handles, JoinAny(S)
    PROVE  JInv'
  BY WaitAnyLive DEF JoinAny, CanJoin

\* tg:join_any()
LEMMA GroupJoinAnyLive ==
    ASSUME JInv, JoinUse, GroupJoinAny
    PROVE  JInv'
  <1> DEFINE S == tg[curr_task].handles \cap event_names
  <1>1. Free /\ (\A e \in S : CanJoin(e)) /\ WaitAny(S) /\ UNCHANGED <<child, group_of, tg>>
    BY DEF GroupJoinAny, CanJoin
  <1>2. S \in SUBSET Handles
    BY <1>1, RunsJoin, LiveFacts DEF Free, At, BaseInv, JoinTypes
  <1> HIDE DEF S
  <1>3. S \subseteq event_names
    BY DEF S
  <1> QED
    BY <1>1, <1>2, <1>3, WaitAnyLive

\* What the body that was resumed in a join knows of its call
LEMMA ResumedFacts ==
    ASSUME JInv, At("body"), Waiting(curr_task), NEW j, j = join[curr_task]
    PROVE  /\ curr_wakeup \in Open(j) /\ curr_wakeup \notin event_names
           /\ Registered(Due, curr_task, Open(j) \ {curr_wakeup})
           /\ j \in Calls /\ CallOk(j, child, event_names) /\ curr_task \in TaskIds
           /\ Open(j) \in SUBSET Handles
  <1>1. /\ curr_wakeup \in Open(j) /\ curr_wakeup \notin event_names
        /\ Registered(Due, curr_task, Open(j) \ {curr_wakeup})
        /\ curr_task \in TaskIds
    BY RunsJoin
  <1>2. j \in Calls /\ CallOk(j, child, event_names)
    BY <1>1, LiveFacts DEF At, BaseInv, JoinTypes, CallInv
  <1> QED
    BY <1>1, <1>2 DEF Open, Calls

\* The task of join(e) is resumed.
LEMMA OneResumedLive ==
    ASSUME JInv, OneResumed
    PROVE  JInv'
  <1>1. At("body") /\ Waiting(curr_task) /\ join[curr_task].kind = "one"
    BY DEF OneResumed, Inside, Waiting
  <1>2. /\ curr_wakeup \in Open(join[curr_task])
        /\ Registered(Due, curr_task, Open(join[curr_task]) \ {curr_wakeup})
        /\ CallOk(join[curr_task], child, event_names)
    BY <1>1, ResumedFacts
  <1>3. Open(join[curr_task]) \ {curr_wakeup} = {}
    BY <1>1, <1>2 DEF CallOk, Open
  <1>4. Registered(Due, curr_task, {})
    BY <1>2, <1>3
  <1>5. tg \in [TaskIds -> [open : BOOLEAN, handles : SUBSET Handles]]
    BY <1>1, LiveFacts DEF At, BaseInv, JoinTypes
  <1>6. GoOn /\ Return /\ UNCHANGED <<waiters, child, group_of, tg>>
    BY DEF OneResumed
  <1>7. Due' = Due /\ waiters' \in [Events -> Seq(TaskIds)]
    BY <1>1, <1>6, LiveFacts, DueSame DEF GoOn, wakeVars, At
  <1> QED
    BY <1>1, <1>4, <1>5, <1>6, <1>7, PlainReturn

\* task_group calls its body.
LEMMA OpenGroupLive ==
    ASSUME JInv, OpenGroup
    PROVE  JInv'
  <1>1. /\ At("body") /\ ~ Waiting(curr_task) /\ join[curr_task].kind = "none"
    BY DEF OpenGroup, Free, Waiting
  <1>k. /\ BaseInv /\ GroupInv /\ waiters \in [Events -> Seq(TaskIds)]
        /\ curr_task \in TaskIds /\ Registered(Due, curr_task, {})
    BY <1>1, LiveFacts, RunsJoin DEF At, LiveInv
  <1>u. /\ GoOn /\ UNCHANGED <<waiters, child, group_of, join>>
        /\ event_names' = event_names /\ Due' = Due
        /\ tg' = [tg EXCEPT ![curr_task].open = TRUE]
    BY DueSame DEF OpenGroup, GoOn, wakeVars
  <1>2. tg' \in [TaskIds -> [open : BOOLEAN, handles : SUBSET Handles]]
        /\ \A g \in TaskIds : tg'[g].handles = tg[g].handles
    BY <1>k, <1>u DEF BaseInv, JoinTypes
  <1>3. JoinTypes' /\ CallInv'
    BY <1>k, <1>u, <1>2 DEF BaseInv, JoinTypes, CallInv
  <1>4. \A g \in TaskIds : \A e \in tg'[g].handles : child[e] # NULL_TASK_ID
    BY <1>k, <1>2 DEF BaseInv, ChildInv
  <1>5. GroupInv'
    <2>1. \A e \in Handles : group_of[e] # NULL_TASK_ID => group_of[e] \in TaskIds
      BY <1>k, SomeTask DEF BaseInv
    <2> QED
      BY <1>1, <1>u, <1>2, <2>1, GroupsReturn
  <1>6. \A e \in Handles : curr_task \notin Elems(Due[e])
    BY <1>k DEF Registered
  <1> QED
    BY <1>1, <1>k, <1>u, <1>3, <1>4, <1>5, <1>6, GoOnLive

\* The only waiter of a list takes itself off.
LEMMA UnregisterOne ==
    ASSUME NEW t \in TaskIds
    PROVE  Unregister(<<t>>, t) = <<>>
  <1> DEFINE q == <<t>>
  <1>1. q \in Seq(TaskIds) /\ Len(q) = 1 /\ q[1] = t /\ 1 .. 1 = {1}
    OBVIOUS
  <1>2. Positions(q, t) = {1}
    BY <1>1 DEF Positions
  <1> HIDE DEF q
  <1>3. (CHOOSE k \in {1} : \A j \in {1} : j <= k) = 1
    OBVIOUS
  <1>4. Unregister(q, t) = RemoveAt(q, 1)
    BY <1>2, <1>3 DEF Unregister
  <1> DEFINE r == RemoveAt(q, 1)
  <1>5. r = [i \in 1 .. 0 |-> IF i < 1 THEN q[i] ELSE q[i + 1]] /\ 1 .. 0 = {}
    BY <1>1 DEF RemoveAt
  <1>6. r \in Seq(TaskIds) /\ Len(r) = 0
    BY <1>1 DEF RemoveAt
  <1>7. r = <<>>
    BY <1>6, EmptySeq
  <1> QED
    BY <1>4, <1>7 DEF q

\* The task of join_any is resumed: it leaves the lists of the other handles.
LEMMA AnyResumedLive ==
    ASSUME JInv, AnyResumed
    PROVE  JInv'
  <1> DEFINE t == curr_task
             S == join[t].handles
  <1>1. At("body") /\ Waiting(t) /\ join[t].kind = "any" /\ status = "ok"
    BY DEF AnyResumed, Inside, Waiting, At
  <1>2. CASE curr_wakeup \notin S
    <2>1. JoinAsserts
      BY <1>2 DEF AnyResumed
    <2> QED
      BY <1>1, <2>1, AbortLive DEF JoinAsserts
  <1>3. CASE curr_wakeup \in S
    <2>r. /\ Registered(Due, t, Open(join[t]) \ {curr_wakeup})
          /\ CallOk(join[t], child, event_names) /\ t \in TaskIds
          /\ join[t] \in Calls
      BY <1>1, ResumedFacts
    <2>k. /\ BaseInv /\ Due \in [Events -> Seq(TaskIds)] /\ Handles \subseteq Events
          /\ waiters \in [Events -> Seq(TaskIds)]
          /\ \A g \in Handles : Len(Due[g]) <= 1
          /\ GroupInv
      BY <1>1, LiveFacts DEF LiveInv
    <2>w. /\ waiters' = [e \in Events |-> IF e \in S \ {curr_wakeup}
                                          THEN Unregister(waiters[e], t) ELSE waiters[e]]
          /\ GoOn /\ Return /\ UNCHANGED <<child, group_of, tg>>
      BY <1>3 DEF AnyResumed
    <2>0. event_names' = event_names /\ pending_wakeup' = pending_wakeup
      BY <2>w DEF GoOn, wakeVars
    <2>1. S \in SUBSET Handles /\ Open(join[t]) = S
      BY <1>1, <2>r DEF CallOk, Open, Calls
    <2>2. \A e \in Handles : t \in Elems(Due[e]) <=> e \in S \ {curr_wakeup}
      BY <2>1, <2>r DEF Registered
    <2> HIDE DEF t, S
    <2>3. \A e \in Handles : Due'[e] = IF t \in Elems(Due[e]) THEN <<>> ELSE Due[e]
      <3> SUFFICES ASSUME NEW e \in Handles
                   PROVE  Due'[e] = IF t \in Elems(Due[e]) THEN <<>> ELSE Due[e]
        OBVIOUS
      <3>1. CASE t \in Elems(Due[e])
        <4>1. Due[e] = <<t>>
          BY <2>k, <3>1, SingleList
        <4>2. Due[e] = waiters[e] /\ waiters'[e] = Unregister(waiters[e], t)
          <5>1. Due[e] # <<>>
            BY <4>1
          <5>2. ~ Spent(e)
            BY <2>k, <5>1, DueFacts
          <5> QED
            BY <2>2, <2>k, <2>w, <3>1, <5>2, DueFacts
        <4>3. waiters'[e] = <<>>
          BY <2>r, <4>1, <4>2, UnregisterOne
        <4>4. Due'[e] = waiters'[e] \/ Due'[e] = <<>>
          BY <2>k DEF Due
        <4> QED
          BY <3>1, <4>3, <4>4
      <3>2. CASE t \notin Elems(Due[e])
        <4>1. waiters'[e] = waiters[e]
          BY <2>2, <2>k, <2>w, <3>2
        <4> QED
          BY <2>k, <2>0, <3>2, <4>1, SpentSame DEF Due
      <3> QED
        BY <3>1, <3>2
    <2>4. \A e \in Events : e \notin Handles => Due'[e] = Due[e]
      BY <2>0, <2>1, <2>w, SpentSame DEF Due
    <2>5. waiters' \in [Events -> Seq(TaskIds)]
      <3>1. \A e \in Events : waiters'[e] \in Seq(TaskIds)
        <4> SUFFICES ASSUME NEW e \in Events
                     PROVE  waiters'[e] \in Seq(TaskIds)
          OBVIOUS
        <4>1. CASE e \in S \ {curr_wakeup}
          <5>1. e \in Handles /\ t \in Elems(Due[e])
            BY <2>1, <2>2, <4>1
          <5>2. Due[e] = <<t>>
            BY <2>k, <5>1, SingleList
          <5>3. Due[e] = waiters[e]
            <6>1. Due[e] # <<>>
              BY <5>2
            <6> QED
              BY <2>k, <6>1, DueFacts
          <5>4. waiters'[e] = <<>>
            BY <2>r, <2>w, <4>1, <5>2, <5>3, UnregisterOne
          <5> QED
            BY <5>4
        <4>2. CASE e \notin S \ {curr_wakeup}
          BY <2>k, <2>w, <4>2
        <4> QED
          BY <4>1, <4>2
      <3> QED
        BY <2>w, <3>1
    <2>6. /\ tg' \in [TaskIds -> [open : BOOLEAN, handles : SUBSET Handles]]
          /\ \A g \in TaskIds : \A e \in tg'[g].handles : child[e] # NULL_TASK_ID
      BY <2>k, <2>w DEF BaseInv, JoinTypes, ChildInv
    <2>7. \A y \in TaskIds : y # t => join'[y] = join[y]
      BY <2>k, <2>w DEF Return, Enter, BaseInv, JoinTypes, t
    <2>8. GroupInv'
      BY <1>1, <2>0, <2>k, <2>w, <2>7, GroupsReturn DEF t
    <2> QED
      BY <1>1, <2>w, <2>3, <2>4, <2>5, <2>6, <2>8, ReturnLive DEF t
  <1> QED
    BY <1>2, <1>3

\* A round of TaskGroup:join_all: a join of the new handles, or the end.
LEMMA JoinGroupLive ==
    ASSUME JInv, JoinUse, At("body"), Registered(Due, curr_task, {}),
           join[curr_task].kind # "insert", NEW drained \in SUBSET Handles,
           \A e \in drained : e \notin event_names, NEW next \in {"all", "close"},
           JoinGroup(drained, next), UNCHANGED <<child, group_of>>
    PROVE  JInv'
  <1> DEFINE g == tg[curr_task]
             todo == (g.handles \ drained) \cap event_names
             call == [NoCall EXCEPT !.next = next, !.drained = g.handles]
  <1>k. /\ BaseInv /\ curr_task \in TaskIds
        /\ tg \in [TaskIds -> [open : BOOLEAN, handles : SUBSET Handles]]
        /\ g.handles \in SUBSET Handles /\ todo \in SUBSET Handles
    BY LiveFacts, RunsJoin DEF At, BaseInv, JoinTypes
  <1>1. \A e \in g.handles : e \notin event_names \/ e \in todo
    OBVIOUS
  <1>2. CASE todo = {}
    <2>u. /\ GoOn /\ UNCHANGED waiters /\ Return
          /\ tg' = IF next = "close" THEN [tg EXCEPT ![curr_task] = NoGroup] ELSE tg
      BY <1>2 DEF JoinGroup
    <2>d. Due' = Due /\ waiters' \in [Events -> Seq(TaskIds)]
      BY <2>u, LiveFacts, DueSame DEF GoOn, wakeVars, At
    <2>1. /\ tg' \in [TaskIds -> [open : BOOLEAN, handles : SUBSET Handles]]
          /\ \A y \in TaskIds : tg'[y].handles \subseteq tg[y].handles
          /\ \A y \in TaskIds : y # curr_task => tg'[y] = tg[y]
      BY <1>k, <2>u DEF NoGroup
    <2>2. ASSUME NEW e \in Handles, group_of[e] # NULL_TASK_ID,
                 e \in tg[group_of[e]].handles
          PROVE  e \in tg'[group_of[e]].handles \/ e \notin event_names
      <3>1. CASE group_of[e] = curr_task
        BY <1>1, <1>2, <2>2, <3>1
      <3>2. CASE group_of[e] # curr_task
        <4>1. group_of[e] \in TaskIds
          BY <1>k, <2>2, SomeTask DEF BaseInv
        <4> QED
          BY <2>1, <2>2, <3>2, <4>1
      <3> QED
        BY <3>1, <3>2
    <2> QED
      BY <2>u, <2>d, <2>1, <2>2, PlainReturn
  <1>3. CASE todo # {}
    <2>1. /\ \A e \in todo : CanJoin(e)
          /\ JoinVec(todo, call) /\ UNCHANGED tg
      BY <1>3, SMTT(30) DEF JoinGroup, CanJoin
    <2>2. call \in Calls /\ call.drained = g.handles
      BY <1>k, NoCallType DEF Calls, NoCall
    <2> HIDE DEF call
    <2>3. todo \subseteq event_names
      OBVIOUS
    <2> HIDE DEF todo
    <2> QED
      BY <1>k, <1>1, <1>3, <2>1, <2>2, <2>3, JoinVecLive
  <1> QED
    BY <1>2, <1>3

\* tg:join_all(), or the end of the scope of a task_group
LEMMA GroupJoinAllLive ==
    ASSUME JInv, JoinUse, NEW next \in {"all", "close"}, GroupJoinAll(next)
    PROVE  JInv'
  <1>1. At("body") /\ Registered(Due, curr_task, {}) /\ join[curr_task].kind = "none"
    BY RunsJoin DEF GroupJoinAll, Free, At, Waiting
  <1>2. JoinGroup({}, next) /\ UNCHANGED <<child, group_of>>
    BY DEF GroupJoinAll
  <1> QED
    BY <1>1, <1>2, JoinGroupLive

\* The call of join after one more handle was counted
LEMMA CountHandle ==
    ASSUME JInv, At("body"), join[curr_task].kind = "all", NEW j, j = join[curr_task],
           j.left > 1, NEW i,
           i = [j EXCEPT !.left = @ - 1, !.finished = @ \cup {curr_wakeup}]
    PROVE  /\ i \in Calls /\ CallOk(i, child, event_names) /\ i.kind = "all"
           /\ Open(i) = Open(j) \ {curr_wakeup}
  <1>1. Waiting(curr_task)
    BY DEF Waiting
  <1>2. /\ curr_wakeup \in Open(j) /\ curr_wakeup \notin event_names
        /\ j \in Calls /\ CallOk(j, child, event_names) /\ Open(j) \in SUBSET Handles
    BY <1>1, ResumedFacts
  <1>3. /\ j.kind = "all" /\ j.left \in Nat /\ j.finished \in SUBSET Handles
        /\ curr_wakeup \in Handles /\ j.left - 1 \in Nat
    BY <1>2 DEF Calls
  <1>4. /\ i.kind = j.kind /\ i.handles = j.handles /\ i.next = j.next
        /\ i.drained = j.drained /\ i.left = j.left - 1
        /\ i.finished = j.finished \cup {curr_wakeup}
    BY <1>2 DEF Calls
  <1>5. i \in Calls
    BY <1>2, <1>3 DEF Calls
  <1>6. Open(i) = Open(j) \ {curr_wakeup}
    BY <1>4 DEF Open
  <1>7. Cardinality(Open(i)) = Cardinality(Open(j)) - 1 /\ Cardinality(Open(j)) = j.left
    BY <1>2, <1>3, <1>6, HandleSets, FS_RemoveElement DEF CallOk
  <1>8. Open(i) # {}
    <2>1. Cardinality(Open(i)) # 0
      BY <1>3, <1>7
    <2>2. Open(i) \in SUBSET Handles
      BY <1>2, <1>6
    <2> QED
      BY <2>1, <2>2, HandleSets
  <1>9. i.finished \subseteq i.handles
    BY <1>2, <1>4 DEF CallOk, Open
  <1>10. CallOk(i, child, event_names)
    BY <1>2, <1>3, <1>4, <1>7, <1>8, <1>9 DEF CallOk
  <1> QED
    BY <1>3, <1>4, <1>5, <1>6, <1>10

\* The last handle of a join
LEMMA LastHandle ==
    ASSUME JInv, At("body"), join[curr_task].kind = "all", NEW j, j = join[curr_task],
           j.left = 1
    PROVE  /\ Registered(Due, curr_task, {})
           /\ \A e \in j.handles : e \notin event_names
           /\ \A e \in j.drained : j.next # "user" => e \notin event_names
  <1>1. Waiting(curr_task)
    BY DEF Waiting
  <1>2. /\ curr_wakeup \in Open(j) /\ curr_wakeup \notin event_names
        /\ Registered(Due, curr_task, Open(j) \ {curr_wakeup})
        /\ CallOk(j, child, event_names) /\ Open(j) \in SUBSET Handles
    BY <1>1, ResumedFacts
  <1>3. Cardinality(Open(j)) = 1 /\ IsFiniteSet(Open(j))
    BY <1>2, HandleSets DEF CallOk
  <1>4. Open(j) \ {curr_wakeup} = {}
    <2>1. Cardinality(Open(j) \ {curr_wakeup}) = 1 - 1
      BY <1>2, <1>3, FS_RemoveElement
    <2>2. Open(j) \ {curr_wakeup} \in SUBSET Handles
      BY <1>2
    <2> QED
      BY <2>1, <2>2, HandleSets
  <1>5. Registered(Due, curr_task, {})
    BY <1>2, <1>4
  <1>6. \A e \in j.handles : e \notin event_names
    BY <1>2, <1>4 DEF CallOk, Open
  <1> QED
    BY <1>2, <1>5, <1>6 DEF CallOk

\* The task of a join with several handles counts one and yields again.
LEMMA YieldAgainLive ==
    ASSUME JInv, At("body"), join[curr_task].kind = "all", join[curr_task].left > 1,
           AwaitNoop, UNCHANGED <<waiters, child, group_of, tg>>,
           NEW i, i = [join[curr_task] EXCEPT !.left = @ - 1,
                                              !.finished = @ \cup {curr_wakeup}],
           join' = [join EXCEPT ![curr_task] = i]
    PROVE  JInv'
  <1> DEFINE t == curr_task
  <1>b. AfterBody("suspended") /\ status = "ok" /\ Waiting(t)
    BY DEF AwaitNoop, Yield, At, Waiting
  <1>k. /\ IInv /\ BaseInv /\ StackOk /\ UniqueWaiters(Plain(Due))
        /\ \A g \in Handles : Len(Due[g]) <= 1
    BY <1>b, LiveFacts
  <1>r. /\ t \in TaskIds /\ cbs[t] = 0 /\ co[t] = "active" /\ ~ InWaiters(Plain(Due), t)
        /\ Registered(Due, t, Open(join[t]) \ {curr_wakeup})
    BY <1>b, RunsJoin
  <1>u. /\ UNCHANGED <<status, event_names, archived, removed, nr_removed, pending, nr_pending>>
        /\ running' = running /\ fired' = fired /\ pending_wakeup' = pending_wakeup
        /\ cbs' = cbs /\ Due' = Due
    BY DueSame DEF AwaitNoop, Yield, AfterBody, taskVars, outerVars
  <1>i. /\ i \in Calls /\ CallOk(i, child, event_names) /\ i.kind = "all"
        /\ Open(i) = Open(join[t]) \ {curr_wakeup}
    BY CountHandle
  <1>l. /\ Leaves("suspended") /\ co'[t] = "suspended"
        /\ \A y \in TaskIds : y # t => co'[y] = co[y]
    BY <1>b, <1>k, AfterLeaves, LeaveView
  <1>c. /\ JoinTypes' /\ CallInv'
        /\ join'[t] = i /\ \A y \in TaskIds : y # t => join'[y] = join[y]
    <2>1. tg' \in [TaskIds -> [open : BOOLEAN, handles : SUBSET Handles]]
      BY <1>k DEF BaseInv, JoinTypes
    <2> QED
      BY <1>i, <1>k, <1>r, <1>u, <2>1, CallTypes
  <1>1. IInv'
    <2>1. /\ stack' \in Seq(Frame) /\ curr_task' \in 0 .. MaxTaskId
          /\ co' \in [TaskIds -> {"none", "fresh", "suspended", "active",
                                  "exited", "dead"}]
          /\ ShapeOf(stack') /\ CurrOf(stack', curr_task')
          /\ SendInv' /\ OwedInv'
      BY <1>b, <1>k, AfterBodyInv
    <2>2. TypeOK'
      BY <1>k, <2>1 DEF IInv, TypeOK, AwaitNoop, Yield, AfterBody, taskVars, outerVars,
                        ghostVars
    <2>3. CountInv'
      BY <1>k, <1>u DEF IInv, CountInv
    <2> QED
      BY <2>1, <2>2, <2>3 DEF IInv
  <1>2. BaseInv'
    <2>1. running' \subseteq fired'
      BY <1>k, <1>u DEF BaseInv, PlainInv
    <2>2. \A g \in TaskIds : \A e \in tg'[g].handles : child[e] # NULL_TASK_ID
      BY <1>k DEF BaseInv, ChildInv
    <2>3. \A y \in TaskIds : /\ co'[y] = "dead" <=> co[y] = "dead"
                             /\ co'[y] = "none" <=> co[y] = "none"
      BY <1>l, <1>r
    <2> QED
      BY <1>c, <1>k, <1>u, <1>1, <2>1, <2>2, <2>3, JoinBase
  <1>3. DeliverInv'
    BY <1>b, <1>u, LeaveDeliver
  <1>4. Registered(Due', t, Open(join'[t]))
    BY <1>c, <1>i, <1>r, <1>u
  <1>5. join'[t].kind = "all" /\ join[t].kind = "all"
    BY <1>c, <1>i
  <1> QED
    BY <1>b, <1>c, <1>k, <1>l, <1>r, <1>u, <1>2, <1>3, <1>4, <1>5, LeaveLive

\* The task of join({...}) is resumed.
LEMMA JoinResumedLive ==
    ASSUME JInv, JoinUse, JoinResumed
    PROVE  JInv'
  <1> DEFINE j == join[curr_task]
  <1>1. At("body") /\ status = "ok" /\ j.kind = "all"
    BY DEF JoinResumed, Inside, At
  <1>2. CASE curr_wakeup = NoEvent \/ curr_wakeup \in j.finished
    <2>1. JoinAsserts
      BY <1>2 DEF JoinResumed
    <2> QED
      BY <1>1, <2>1, AbortLive DEF JoinAsserts
  <1>3. CASE ~ (curr_wakeup = NoEvent \/ curr_wakeup \in j.finished)
    <2>1. UNCHANGED <<child, group_of>>
      BY <1>3 DEF JoinResumed
    <2>2. CASE /\ j.left > 1 /\ AwaitNoop /\ UNCHANGED <<waiters, tg>>
               /\ Enter([j EXCEPT !.left = @ - 1, !.finished = @ \cup {curr_wakeup}])
      BY <1>1, <2>1, <2>2, YieldAgainLive DEF Enter
    <2>3. CASE j.left = 1 /\ j.next = "user" /\ GoOn /\ Return /\ UNCHANGED <<waiters, tg>>
      <3>1. tg \in [TaskIds -> [open : BOOLEAN, handles : SUBSET Handles]]
        BY <1>1, LiveFacts DEF BaseInv, JoinTypes
      <3>2. Due' = Due /\ waiters' \in [Events -> Seq(TaskIds)]
        BY <1>1, <2>3, LiveFacts, DueSame DEF GoOn, wakeVars
      <3>3. Registered(Due, curr_task, {})
        BY <1>1, <2>3, LastHandle
      <3>4. /\ join[curr_task].kind # "insert" /\ UNCHANGED <<child, group_of>>
            /\ GoOn /\ Return /\ tg' = tg
        BY <1>1, <2>1, <2>3
      <3> QED
        BY ONLY JInv, <1>1, <3>1, <3>2, <3>3, <3>4, PlainReturn
    <2>4. CASE j.left = 1 /\ j.next # "user" /\ JoinGroup(j.drained, j.next)
      <3>1. j.drained \in SUBSET Handles /\ j.next \in {"all", "close"}
        BY <1>1, <2>4, LiveFacts, RunsJoin DEF BaseInv, JoinTypes, Calls
      <3>2. Registered(Due, curr_task, {}) /\ \A e \in j.drained : e \notin event_names
        BY <1>1, <2>4, LastHandle
      <3>3. join[curr_task].kind # "insert"
        BY <1>1
      <3> HIDE DEF j
      <3> QED
        BY <1>1, <2>1, <2>4, <3>1, <3>2, <3>3, JoinGroupLive
    <2> QED
      BY <1>3, <2>2, <2>3, <2>4 DEF JoinResumed
  <1> QED
    BY <1>2, <1>3

\* TaskGroup:fork tracks the handle that jfork returned.
LEMMA GroupInsertLive ==
    ASSUME JInv, GroupInsert
    PROVE  JInv'
  <1> DEFINE t == curr_task
             G == join[t].group
             H == join[t].handles
  <1>1. At("body") /\ join[t].kind = "insert" /\ ~ Waiting(t)
    BY DEF GroupInsert, Inside, Waiting
  <1>k. /\ BaseInv /\ JoinTypes /\ GroupInv /\ waiters \in [Events -> Seq(TaskIds)] /\ InsertInv
        /\ t \in TaskIds /\ Registered(Due, t, {})
        /\ CallOk(join[t], child, event_names) /\ H \in SUBSET Handles
        /\ G \in 0 .. MaxTaskId
        /\ tg \in [TaskIds -> [open : BOOLEAN, handles : SUBSET Handles]]
    BY <1>1, LiveFacts, RunsJoin DEF At, LiveInv, BaseInv, CallInv, JoinTypes, Calls
  <1>u. /\ GoOn /\ Return /\ UNCHANGED <<waiters, child, group_of>>
        /\ event_names' = event_names /\ Due' = Due
        /\ tg' = [tg EXCEPT ![G].handles = @ \cup H]
    BY DueSame DEF GroupInsert, GoOn, wakeVars
  <1>h. /\ \A e \in H : child[e] # NULL_TASK_ID
        /\ \A e \in H : group_of[e] = G
    BY <1>1, <1>k DEF CallOk, InsertInv, InsertTask
  <1> HIDE DEF t, G, H
  <1>2. /\ tg' \in [TaskIds -> [open : BOOLEAN, handles : SUBSET Handles]]
        /\ \A g \in TaskIds : tg'[g].handles = IF g = G THEN tg[g].handles \cup H
                                               ELSE tg[g].handles
    BY <1>k, <1>u
  <1>3. \A g \in TaskIds : \A e \in tg'[g].handles : child[e] # NULL_TASK_ID
    BY <1>2, <1>h, <1>k DEF BaseInv, ChildInv
  <1>4. \A y \in TaskIds : y # t => join'[y] = join[y]
    BY <1>k, <1>u DEF Return, Enter, JoinTypes, t
  <1>5. GroupInv'
    <2> SUFFICES ASSUME NEW e \in Handles, group_of[e] # NULL_TASK_ID
                 PROVE  \/ e \notin event_names /\ child[e] # NULL_TASK_ID
                        \/ e \in tg'[group_of[e]].handles
                        \/ \E u \in TaskIds : join'[u].kind = "insert" /\ join'[u].handles = {e}
      BY <1>u DEF GroupInv
    <2>1. group_of[e] \in TaskIds
      BY <1>k, SomeTask
    <2>2. CASE e \in tg[group_of[e]].handles
      BY <1>2, <2>1, <2>2
    <2>3. ASSUME NEW u \in TaskIds, join[u].kind = "insert", join[u].handles = {e}
          PROVE  \/ e \in tg'[group_of[e]].handles
                 \/ join'[u].kind = "insert" /\ join'[u].handles = {e}
      <3>1. CASE u = t
        <4>1. e \in H /\ group_of[e] = G
          BY <1>h, <2>3, <3>1 DEF H
        <4> QED
          BY <1>2, <2>1, <4>1
      <3>2. CASE u # t
        BY <1>4, <2>3, <3>2
      <3> QED
        BY <3>1, <3>2
    <2> QED
      BY <1>k, <2>2, <2>3 DEF GroupInv
  <1>6. \A e \in Handles : t \notin Elems(Due[e])
    BY <1>k DEF Registered
  <1> QED
    BY <1>1, <1>k, <1>u, <1>3, <1>2, <1>5, <1>6, ReturnLive DEF t

----------------------------------------------------------------------------
(* Forks *)


\* append_task chooses an id that no task has had.
LEMMA NewTask ==
    ASSUME JInv, status = "ok", NEW t \in TaskIds, t \notin archived
    PROVE  /\ co[t] = "none" /\ join[t].kind = "none"
           /\ cbs[t] = 0 /\ ~ InWaiters(Plain(Due), t) /\ ~ InSnaps(stack, t)
           /\ \A k : ~ BodyAt(stack, k, t)
           /\ \A e \in Handles : child[e] # t
  <1>k. /\ BaseInv /\ StackOk /\ HandleTask(t) /\ InsertInv
        /\ PlainTask(cbs, Plain(Due), stack, co, t)
    BY LiveFacts DEF LiveInv
  <1>1. co[t] = "none" /\ \A e \in Handles : child[e] # t
    BY <1>k, TaskIdLemma DEF BaseInv, ChildInv
  <1>2. \A k : ~ BodyAt(stack, k, t)
    BY <1>k, <1>1 DEF BodyAt, StackOk, BodyInv
  <1>3. cbs[t] = 0 /\ ~ InWaiters(Plain(Due), t) /\ ~ InSnaps(stack, t)
    BY <1>k, <1>1 DEF PlainTask, Sourced
  <1>4. ~ Waiting(t)
    <2>1. ~ Parked(t)
      BY <1>1 DEF Parked
    <2>2. ~ Delivered(t)
      <3>1. stack # <<>> /\ Top.pc = "body" /\ Top.id = t => BodyAt(stack, Len(stack), t)
        <4>1. stack # <<>> => Len(stack) \in 1 .. Len(stack)
          BY <1>k DEF BaseInv, IInv, TypeOK
        <4> QED
          BY <4>1 DEF BodyAt, Top
      <3> QED
        BY <1>1, <1>2, <3>1 DEF Delivered, Arriving
    <2> QED
      BY <1>k, <2>1, <2>2 DEF HandleTask
  <1>5. join[t].kind # "insert"
    BY <1>2, <1>k DEF InsertInv, InsertTask
  <1>6. join[t].kind = "none"
    BY <1>4, <1>5, <1>k DEF Waiting, BaseInv, JoinTypes, Calls
  <1> QED
    BY <1>1, <1>2, <1>3, <1>6

\* append_task starts a coroutine on top of the stack.
LEMMA AppendStep ==
    ASSUME JInv, NEW t \in TaskIds, AppendTask(t, TRUE)
    PROVE  /\ status = "ok" /\ t \notin archived /\ IInv' /\ PlainInv'
           /\ UNCHANGED <<cbs, Due, status, event_names, has_wakeup, pending_wakeup,
                          curr_wakeup, owed>>
           /\ archived' = archived \cup {t} /\ co' = [co EXCEPT ![t] = "fresh"]
           /\ stack' = Push(stack, NewFrame(t, "start")) /\ StackOk'
           /\ \A y : InSnaps(stack', y) <=> InSnaps(stack, y)
           /\ \A y : IsEntering(stack', y) <=> y = t
           /\ \A k, y : BodyAt(stack', k, y) <=> BodyAt(stack, k, y)
           /\ \A k \in Nat : WillTake(stack, k) => WillTake(stack', k)
  <1>1. /\ status = "ok" /\ t \notin archived /\ Register(t, TRUE)
    BY DEF AppendTask, UserCode, InBody, At
  <1>k. /\ IInv /\ BaseInv /\ StackOk /\ co[t] = "none" /\ stack \in Seq(Frame)
        /\ \A k : ~ BodyAt(stack, k, t)
    BY <1>1, LiveFacts, NewTask DEF IInv, TypeOK
  <1>2. Stale(stack, t) = stack
    BY <1>k, StaleNone DEF StackOk
  <1>u. /\ UNCHANGED <<cbs, Due, status, event_names, has_wakeup, pending_wakeup,
                       curr_wakeup, owed>>
        /\ archived' = archived \cup {t} /\ co' = [co EXCEPT ![t] = "fresh"]
        /\ stack' = Push(stack, NewFrame(t, "start"))
        /\ running' = running \cup {t} /\ fired' = fired \cup {t}
        /\ ClearRemoved(t)
    BY <1>1, <1>2, DueSame DEF Register, StartCoroutine, eventVars, wakeVars, ghostVars
  <1>3. IInv'
    BY <1>k, AppendTaskInv
  <1>4. PlainInv'
    BY <1>k, <1>u DEF ClearRemoved, BaseInv, PlainInv
  <1>5. BodyInv(stack, co')
    <2>1. \A k \in 1 .. Len(stack) : stack[k].pc = "body" => co'[stack[k].id] = co[stack[k].id]
      BY <1>k, <1>u DEF BodyAt
    <2> QED
      BY <1>k, <2>1, BodyOther DEF StackOk
  <1> DEFINE f == NewFrame(t, "start")
  <1>6. /\ f \in Frame /\ f.snap = <<>> /\ ~ f.stale /\ f.pc = "start" /\ f.id = t
    <2>1. t \in 0 .. MaxTaskId /\ "start" \in PCs
      BY TaskIdLemma DEF PCs, Entering
    <2> QED
      BY <2>1, NewFrameLemma, NewFrameFresh
  <1> HIDE DEF f
  <1>7. /\ \A y : InSnaps(Push(stack, f), y) <=> InSnaps(stack, y)
        /\ \A y : IsEntering(Push(stack, f), y) <=> f.pc \in Entering /\ y = f.id
        /\ UniqueSnaps(Push(stack, f)) /\ BodyInv(Push(stack, f), co')
        /\ \A k, y : BodyAt(Push(stack, f), k, y) <=> BodyAt(stack, k, y)
        /\ \A j \in Nat : WillTake(stack, j) => WillTake(Push(stack, f), j)
    BY <1>k, <1>5, <1>6, CallView DEF StackOk
  <1>8. stack' = Push(stack, f)
    BY <1>u DEF f
  <1> QED
    BY <1>1, <1>3, <1>4, <1>6, <1>7, <1>8, <1>u DEF StackOk, Entering, f

\* A fork, once the tables of Join are known to be in order.
LEMMA ForkLive ==
    ASSUME JInv, NEW t \in TaskIds, AppendTask(t, TRUE), Free \/ stack = <<>>,
           JoinTypes', CallInv', ChildInv', InsertInv', GroupInv',
           \A y \in TaskIds : join'[y] = join[y] \/ (~ Waiting(y) /\ ~ Waiting(y)')
    PROVE  JInv'
  <1>s. /\ status = "ok" /\ t \notin archived /\ IInv' /\ PlainInv'
        /\ UNCHANGED <<cbs, Due, status, event_names, has_wakeup, pending_wakeup,
                       curr_wakeup, owed>>
        /\ co' = [co EXCEPT ![t] = "fresh"] /\ StackOk'
        /\ \A y : InSnaps(stack', y) <=> InSnaps(stack, y)
        /\ \A y : IsEntering(stack', y) <=> y = t
        /\ \A k \in Nat : WillTake(stack, k) => WillTake(stack', k)
    BY AppendStep
  <1>n. /\ join[t].kind = "none" /\ cbs[t] = 0 /\ ~ InWaiters(Plain(Due), t)
        /\ ~ InSnaps(stack, t)
    BY <1>s, NewTask
  <1>k. /\ IInv /\ BaseInv /\ LiveInv /\ DeliverInv /\ UniqueWaiters(Plain(Due))
        /\ \A y \in TaskIds : PlainTask(cbs, Plain(Due), stack, co, y)
        /\ \A e \in Handles : Len(Due[e]) <= 1
        /\ \A y \in TaskIds : HandleTask(y)
        /\ co \in [TaskIds -> {"none", "fresh", "suspended", "active", "exited", "dead"}]
    BY <1>s, LiveFacts DEF IInv, TypeOK
  <1>c. co'[t] = "fresh" /\ \A y \in TaskIds : y # t => co'[y] = co[y]
    BY <1>k, <1>s
  <1>1. BaseInv'
    <2>1. SentInv'
      BY <1>k, <1>s DEF BaseInv, SentInv
    <2> QED
      BY <1>s, <2>1 DEF BaseInv
  <1>2. PlainSource(cbs, Plain(Due), stack, co)'
    <2>1. ASSUME NEW y \in TaskIds
          PROVE  PlainTask(cbs', Plain(Due'), stack', co', y)
      <3>1. CASE y = t
        BY <1>c, <1>n, <1>s, <3>1 DEF PlainTask, OneSource
      <3>2. CASE y # t
        <4>1. PlainTask(cbs, Plain(Due), stack, co, y)
          BY <1>k
        <4>2. /\ cbs'[y] = cbs[y] /\ co'[y] = co[y]
              /\ InWaiters(Plain(Due'), y) => InWaiters(Plain(Due), y)
              /\ InSnaps(stack', y) => InSnaps(stack, y)
              /\ IsEntering(stack', y) => IsEntering(stack, y)
          BY <1>c, <1>s, <3>2
        <4> QED
          BY <4>1, <4>2, PlainKept
      <3> QED
        BY <3>1, <3>2
    <2> QED
      BY <1>k, <1>s, <2>1 DEF PlainSource
  <1>3. HandleSource'
    <2>1. \A y \in TaskIds : Waiting(y) => Parked(y)
      <3>1. CASE Free
        <4>1. At("body") /\ ~ Waiting(curr_task)
          BY <3>1 DEF Free, Waiting
        <4> QED
          BY <4>1, RunsJoin
      <3>2. CASE stack = <<>>
        BY <1>s, <3>2, AllParked
      <3> QED
        BY <3>1, <3>2
    <2>2. ASSUME NEW y \in TaskIds
          PROVE  HandleTask(y)'
      <3>1. CASE ~ Waiting(y) /\ ~ Waiting(y)'
        <4>1. Registered(Due, y, {})
          BY <1>k, <3>1 DEF HandleTask
        <4> QED
          BY <1>s, <3>1, <4>1 DEF HandleTask
      <3>2. CASE join'[y] = join[y] /\ Waiting(y)
        <4>1. y # t
          BY <1>n, <3>2 DEF Waiting
        <4>2. /\ HandleTask(y) /\ Parked(y) /\ co'[y] = co[y] /\ cbs'[y] = cbs[y]
              /\ IsEntering(stack', y) => IsEntering(stack, y)
          BY <1>c, <1>k, <1>s, <2>1, <3>2, <4>1
        <4> QED
          BY <1>s, <3>2, <4>2, HandleKept
      <3>3. join'[y] = join[y] => (Waiting(y) <=> Waiting(y)')
        BY DEF Waiting
      <3> QED
        BY <3>1, <3>2, <3>3
    <2> QED
      BY <1>k, <1>s, <2>2 DEF HandleSource
  <1>4. DeliverInv'
    <2>1. IInv /\ DeliverInv /\ UNCHANGED <<event_names, Due, pending_wakeup, has_wakeup>>
      BY <1>k, <1>s
    <2>2. \A k \in Nat : WillTake(stack, k) => WillTake(stack', k)
      BY <1>s
    <2> QED
      BY ONLY <2>1, <2>2, DeliverKept
  <1> QED
    BY <1>1, <1>2, <1>3, <1>4, <1>s DEF JInv, LiveInv

\* fork
LEMMA PlainForkLive ==
    ASSUME JInv, NEW t \in TaskIds, Fork(t)
    PROVE  JInv'
  <1>1. AppendTask(t, TRUE) /\ (Free \/ stack = <<>>) /\ UNCHANGED joinVars
    BY DEF Fork
  <1>s. /\ status = "ok" /\ event_names' = event_names
        /\ archived' = archived \cup {t} /\ co' = [co EXCEPT ![t] = "fresh"]
        /\ \A k, y : BodyAt(stack', k, y) <=> BodyAt(stack, k, y)
    BY <1>1, AppendStep
  <1>n. co[t] = "none" /\ \A e \in Handles : child[e] # t
    BY <1>1, <1>s, NewTask DEF AppendTask
  <1>k. /\ BaseInv /\ LiveInv
        /\ co \in [TaskIds -> {"none", "fresh", "suspended", "active", "exited", "dead"}]
    BY <1>s, LiveFacts DEF IInv, TypeOK
  <1>2. JoinTypes' /\ CallInv'
    <2>1. JoinTypes /\ CallInv /\ UNCHANGED <<child, group_of, tg, join, event_names>>
      BY <1>1, <1>k, <1>s DEF BaseInv, joinVars
    <2> QED
      BY ONLY <2>1 DEF JoinTypes, CallInv
  <1>3. ChildInv'
    <2>1. \A e \in Handles : child[e] # NULL_TASK_ID => co'[child[e]] = co[child[e]]
      BY <1>k, <1>n, <1>s, SomeTask DEF BaseInv
    <2>2. \A y \in TaskIds : y # t => co'[y] = co[y]
      BY <1>k, <1>s
    <2>3. ChildInv
      BY <1>k DEF BaseInv
    <2> QED
      <3>1. UNCHANGED <<child, tg, event_names>>
        BY <1>1, <1>s DEF joinVars
      <3>2. /\ \A e, f \in Handles : child[e] = child[f] /\ child[e] # NULL_TASK_ID => e = f
            /\ \A g \in TaskIds : \A e \in tg[g].handles : child[e] # NULL_TASK_ID
        BY <2>3 DEF ChildInv
      <3>3. \A e \in Handles : IF child[e] = NULL_TASK_ID THEN e \in event_names
                               ELSE /\ child[e] \in archived'
                                    /\ e \notin event_names <=> co'[child[e]] = "dead"
        BY <1>s, <2>1, <2>3 DEF ChildInv
      <3>4. \A y \in TaskIds : y \notin archived' => co'[y] = "none"
        BY <1>s, <2>2, <2>3 DEF ChildInv
      <3> QED
        BY ONLY <3>1, <3>2, <3>3, <3>4 DEF ChildInv
  <1>4. InsertInv' /\ GroupInv'
    BY <1>1, <1>k, <1>s, GroupsKept
  <1>5. \A y \in TaskIds : join'[y] = join[y]
    BY <1>1 DEF joinVars
  <1> QED
    BY <1>1, <1>2, <1>3, <1>4, <1>5, ForkLive

\* jfork: the new handle and the tasks of the others
LEMMA JforkTables ==
    ASSUME JInv, NEW e \in Handles, NEW t \in TaskIds, Jfork(e, t), UNCHANGED tg
    PROVE  /\ Free /\ status = "ok" /\ AppendTask(t, TRUE) /\ t \notin archived
           /\ child' = [child EXCEPT ![e] = t] /\ child[e] = NULL_TASK_ID
           /\ child'[e] = t /\ \A f \in Handles : f # e => child'[f] = child[f]
           /\ child' \in [Handles -> 0 .. MaxTaskId] /\ t # NULL_TASK_ID
           /\ event_names' = event_names /\ ChildInv'
           /\ \A f \in Handles : child[f] # t
           /\ \A f \in Handles : child[f] # NULL_TASK_ID => child'[f] = child[f]
           /\ \A k, y : BodyAt(stack', k, y) <=> BodyAt(stack, k, y)
           /\ \A k : ~ BodyAt(stack, k, t)
           /\ \A u \in TaskIds : CallOk(join[u], child', event_names')
  <1>1. /\ Free /\ AppendTask(t, TRUE) /\ child' = [child EXCEPT ![e] = t]
        /\ child[e] = NULL_TASK_ID
    BY DEF Jfork
  <1>s. /\ status = "ok" /\ event_names' = event_names /\ t \notin archived
        /\ archived' = archived \cup {t} /\ co' = [co EXCEPT ![t] = "fresh"]
        /\ \A k, y : BodyAt(stack', k, y) <=> BodyAt(stack, k, y)
    BY <1>1, AppendStep
  <1>n. /\ co[t] = "none" /\ \A k : ~ BodyAt(stack, k, t)
        /\ \A f \in Handles : child[f] # t
    BY <1>s, NewTask
  <1>k. /\ BaseInv /\ ChildInv /\ JoinTypes /\ CallInv
        /\ child \in [Handles -> 0 .. MaxTaskId]
        /\ co \in [TaskIds -> {"none", "fresh", "suspended", "active", "exited", "dead"}]
    BY <1>s, LiveFacts DEF BaseInv, JoinTypes, IInv, TypeOK
  <1>t. t \in 0 .. MaxTaskId /\ t # NULL_TASK_ID
    BY TaskIdLemma
  <1>2. /\ child' \in [Handles -> 0 .. MaxTaskId] /\ child'[e] = t
        /\ \A f \in Handles : f # e => child'[f] = child[f]
        /\ \A f \in Handles : child[f] # NULL_TASK_ID => child'[f] = child[f]
    BY <1>1, <1>k, <1>t
  <1>3. co'[t] = "fresh" /\ \A y \in TaskIds : y # t => co'[y] = co[y]
    BY <1>k, <1>s
  <1>4. ChildInv'
    <2>1. \A f, g \in Handles : child'[f] = child'[g] /\ child'[f] # NULL_TASK_ID => f = g
      BY <1>2, <1>k, <1>n DEF ChildInv
    <2>2. ASSUME NEW f \in Handles
          PROVE  IF child'[f] = NULL_TASK_ID THEN f \in event_names'
                 ELSE /\ child'[f] \in archived'
                      /\ f \notin event_names' <=> co'[child'[f]] = "dead"
      <3>1. CASE f = e
        <4>1. e \in event_names
          BY <1>1, <1>k DEF ChildInv
        <4> QED
          BY <1>2, <1>3, <1>s, <1>t, <3>1, <4>1
      <3>2. CASE f # e
        <4>1. child'[f] = child[f] /\ child[f] # t
          BY <1>2, <1>n, <3>2
        <4>2. child[f] # NULL_TASK_ID => co'[child[f]] = co[child[f]]
          BY <1>3, <1>k, <4>1, SomeTask
        <4> QED
          BY <1>k, <1>s, <4>1, <4>2 DEF ChildInv
      <3> QED
        BY <3>1, <3>2
    <2>3. \A g \in TaskIds : \A f \in tg'[g].handles : child'[f] # NULL_TASK_ID
      <3>1. \A g \in TaskIds : tg[g].handles \subseteq Handles
        BY <1>k DEF JoinTypes
      <3> QED
        BY <1>2, <1>k, <3>1 DEF ChildInv
    <2>4. \A y \in TaskIds : y \notin archived' => co'[y] = "none"
      BY <1>3, <1>k, <1>s DEF ChildInv
    <2> QED
      BY <2>1, <2>2, <2>3, <2>4 DEF ChildInv
  <1>5. \A u \in TaskIds : CallOk(join[u], child', event_names')
    <2>1. \A u \in TaskIds : \A f \in join[u].handles : f \in Handles
      BY <1>k DEF JoinTypes, Calls
    <2> QED
      BY <1>2, <1>k, <1>s, <2>1, CallKept DEF CallInv
  <1> QED
    BY <1>1, <1>2, <1>4, <1>5, <1>n, <1>s, <1>t

\* The bodies that go on in TaskGroup:fork, after a jfork
LEMMA JforkInsert ==
    ASSUME JInv, NEW e \in Handles, NEW t \in TaskIds, Jfork(e, t), UNCHANGED tg,
           NEW u \in TaskIds, join[u].kind = "insert", join'[u] = join[u],
           \A f \in Handles : f # e => group_of'[f] = group_of[f]
    PROVE  InsertTask(u)'
  <1>1. /\ status = "ok" /\ child[e] = NULL_TASK_ID
        /\ \A f \in Handles : child[f] # NULL_TASK_ID => child'[f] = child[f]
        /\ \A k, y : BodyAt(stack', k, y) <=> BodyAt(stack, k, y)
    BY JforkTables
  <1>2. InsertTask(u) /\ CallOk(join[u], child, event_names) /\ join[u].handles \subseteq Handles
    BY <1>1, LiveFacts DEF LiveInv, InsertInv, BaseInv, CallInv, JoinTypes, Calls
  <1>3. \A f \in join[u].handles : f \in Handles /\ child[f] # NULL_TASK_ID
    BY <1>2 DEF CallOk
  <1>4. \A f \in Handles : child[f] # NULL_TASK_ID =>
          child'[f] = child[f] /\ group_of'[f] = group_of[f]
    BY <1>1
  <1> QED
    BY <1>1, <1>2, <1>3, <1>4, InsertKept

\* jfork, called outside of a task_group
LEMMA ForkJoinableLive ==
    ASSUME JInv, NEW e \in Handles, NEW t \in TaskIds, ForkJoinable(e, t)
    PROVE  JInv'
  <1>1. Jfork(e, t) /\ UNCHANGED <<group_of, tg, join>>
    BY DEF ForkJoinable
  <1>2. /\ Free /\ status = "ok" /\ AppendTask(t, TRUE) /\ ChildInv'
        /\ child' \in [Handles -> 0 .. MaxTaskId] /\ event_names' = event_names
        /\ \A f \in Handles : child[f] # NULL_TASK_ID => child'[f] = child[f]
        /\ \A u \in TaskIds : CallOk(join[u], child', event_names')
    BY <1>1, JforkTables
  <1>3. JoinTypes /\ GroupInv
    BY <1>2, LiveFacts DEF BaseInv, LiveInv
  <1>4. JoinTypes' /\ CallInv'
    BY <1>1, <1>2, <1>3 DEF JoinTypes, CallInv
  <1>5. InsertInv'
    BY <1>1, JforkInsert DEF InsertInv
  <1>6. GroupInv'
    <2>1. \A f \in Handles : child[f] # NULL_TASK_ID => child'[f] # NULL_TASK_ID
      BY <1>2
    <2>2. UNCHANGED <<group_of, tg, join, event_names>>
      BY <1>1, <1>2
    <2> QED
      BY ONLY <1>3, <2>1, <2>2 DEF GroupInv
  <1>7. \A y \in TaskIds : join'[y] = join[y]
    BY <1>1
  <1> QED
    BY <1>2, <1>4, <1>5, <1>6, <1>7, ForkLive

\* TaskGroup:fork up to the return of jfork
LEMMA GroupForkLive ==
    ASSUME JInv, NEW g \in TaskIds, NEW e \in Handles, NEW t \in TaskIds, GroupFork(g, e, t)
    PROVE  JInv'
  <1> DEFINE c == curr_task
             j == [NoCall EXCEPT !.kind = "insert", !.handles = {e}, !.group = g]
  <1>1. /\ Jfork(e, t) /\ InGroup(g) /\ group_of' = [group_of EXCEPT ![e] = g]
        /\ join' = [join EXCEPT ![c] = j] /\ UNCHANGED tg
    BY DEF GroupFork, Enter
  <1>2. /\ Free /\ status = "ok" /\ AppendTask(t, TRUE) /\ ChildInv'
        /\ child[e] = NULL_TASK_ID /\ child'[e] = t /\ t # NULL_TASK_ID
        /\ \A f \in Handles : f # e => child'[f] = child[f]
        /\ child' \in [Handles -> 0 .. MaxTaskId] /\ event_names' = event_names
        /\ \A f \in Handles : child[f] # NULL_TASK_ID => child'[f] = child[f]
        /\ \A k, y : BodyAt(stack', k, y) <=> BodyAt(stack, k, y)
        /\ \A k : ~ BodyAt(stack, k, t)
        /\ \A u \in TaskIds : CallOk(join[u], child', event_names')
    BY <1>1, JforkTables
  <1>b. At("body") /\ join[c].kind = "none"
    BY <1>2 DEF Free
  <1>r. c \in TaskIds /\ BodyAt(stack, Len(stack), c) /\ c # NULL_TASK_ID
    BY <1>b, RunsJoin, TaskIdLemma
  <1>k. JoinTypes /\ GroupInv /\ g \in 0 .. MaxTaskId /\ g # NULL_TASK_ID
    BY <1>2, LiveFacts, TaskIdLemma DEF BaseInv, LiveInv
  <1>3. j \in Calls /\ j.kind = "insert" /\ j.handles = {e} /\ j.group = g
        /\ j.finished = {} /\ j.left = 0
    <2>1. NoCall \in Calls
      BY NoCallType
    <2> QED
      BY <1>k, <2>1 DEF Calls, NoCall
  <1> HIDE DEF j
  <1>4. /\ group_of'[e] = g /\ \A f \in Handles : f # e => group_of'[f] = group_of[f]
        /\ group_of' \in [Handles -> 0 .. MaxTaskId]
        /\ join'[c] = j /\ \A y \in TaskIds : y # c => join'[y] = join[y]
        /\ join' \in [TaskIds -> Calls] /\ tg' = tg
    BY <1>1, <1>3, <1>k, <1>r DEF JoinTypes
  <1>5. JoinTypes'
    BY <1>2, <1>4, <1>k DEF JoinTypes
  <1>6. CallInv'
    <2>1. CallOk(j, child', event_names')
      BY <1>2, <1>3 DEF CallOk
    <2>2. ASSUME NEW u \in TaskIds
          PROVE  CallOk(join'[u], child', event_names')
      BY <1>2, <1>4, <2>1
    <2> QED
      BY <2>2 DEF CallInv
  <1>7. \A y : y = c => InsertTask(y)'
    <2> SUFFICES ASSUME NEW y, y = c
                 PROVE  InsertTask(y)'
      OBVIOUS
    <2>1. join'[y] = j
      BY <1>4
    <2>2. \A f \in join'[y].handles : group_of'[f] = join'[y].group
      BY <1>3, <1>4, <2>1
    <2>3. \/ y = join'[y].group
          \/ \E f \in Handles : child'[f] = y /\ group_of'[f] = join'[y].group
      <3>1. CASE c = g
        BY <1>3, <2>1, <3>1
      <3>2. CASE \E f \in Handles : child[f] = c /\ group_of[f] = g
        <4>1. PICK f \in Handles : child[f] = c /\ group_of[f] = g
          BY <3>2
        <4>2. f # e
          BY <1>2, <1>r, <4>1
        <4>3. child'[f] = y /\ group_of'[f] = g
          BY <1>2, <1>4, <4>1, <4>2
        <4> QED
          BY <1>3, <2>1, <4>3
      <3> QED
        BY <1>1, <3>1, <3>2 DEF InGroup
    <2>4. \A m : \A f \in join'[y].handles : ~ BodyAt(stack', m, child'[f])
      BY <1>2, <1>3, <2>1
    <2>5. \E k \in 1 .. Len(stack') : BodyAt(stack', k, y)
      <3>1. BodyAt(stack', Len(stack), y)
        BY <1>2, <1>r
      <3> QED
        BY <3>1 DEF BodyAt
    <2> QED
      BY <2>2, <2>3, <2>4, <2>5 DEF InsertTask
  <1>8. InsertInv'
    <2>1. ASSUME NEW u \in TaskIds, u # c, join'[u].kind = "insert"
          PROVE  InsertTask(u)'
      <3>1. join'[u] = join[u] /\ join[u].kind = "insert"
        BY <1>4, <2>1
      <3> QED
        BY <1>1, <1>4, <3>1, JforkInsert
    <2> QED
      BY <1>7, <2>1 DEF InsertInv
  <1>9. GroupInv'
    <2> SUFFICES ASSUME NEW f \in Handles, group_of'[f] # NULL_TASK_ID
                 PROVE  \/ f \notin event_names' /\ child'[f] # NULL_TASK_ID
                        \/ f \in tg'[group_of'[f]].handles
                        \/ \E u \in TaskIds : join'[u].kind = "insert" /\ join'[u].handles = {f}
      BY DEF GroupInv
    <2>1. CASE f = e
      BY <1>3, <1>4, <1>r, <2>1
    <2>2. CASE f # e
      <3>1. group_of'[f] = group_of[f] /\ child'[f] = child[f]
        BY <1>2, <1>4, <2>2
      <3>2. \A u \in TaskIds : join[u].kind = "insert" => join'[u] = join[u]
        BY <1>4, <1>b
      <3> QED
        BY <1>2, <1>4, <1>k, <3>1, <3>2, ZenonT(30) DEF GroupInv
    <2> QED
      BY <2>1, <2>2
  <1>10. \A y \in TaskIds : join'[y] = join[y] \/ (~ Waiting(y) /\ ~ Waiting(y)')
    <2>1. \A y : y = c => ~ Waiting(y) /\ ~ Waiting(y)'
      BY <1>3, <1>4, <1>b DEF Waiting
    <2> QED
      BY <1>4, <2>1
  <1> QED
    BY <1>2, <1>5, <1>6, <1>8, <1>9, <1>10, ForkLive

----------------------------------------------------------------------------
(* The invariant *)

\* Before the first step no task has begun and no handle is in use.
LEMMA InitLive == JInit => JInv
  <1> SUFFICES ASSUME JInit PROVE JInv
    OBVIOUS
  <1>u. /\ child = [e \in Handles |-> NULL_TASK_ID]
        /\ group_of = [e \in Handles |-> NULL_TASK_ID]
        /\ tg = [t \in TaskIds |-> NoGroup] /\ join = [t \in TaskIds |-> NoCall]
        /\ running = {} /\ archived = {} /\ removed = {} /\ nr_removed = 0
        /\ co = [t \in TaskIds |-> "none"] /\ waiters = [e \in Events |-> <<>>]
        /\ event_names = Events /\ pending_wakeup = <<>> /\ stack = <<>>
        /\ cbs = [t \in TaskIds |-> 0] /\ Handles \subseteq Events
    BY JoinAssumption DEF JInit, Init
  <1>d. Due = [e \in Events |-> <<>>]
    BY <1>u DEF Due
  <1>0. IInv
    BY InitInv DEF JInit
  <1>1. NoCall \in Calls /\ CallOk(NoCall, child, event_names) /\ NoCall.kind = "none"
    BY NoCallType DEF CallOk, NoCall
  <1>2. JoinTypes
    <2>1. NULL_TASK_ID \in 0 .. MaxTaskId
      BY ConstantsAssumption DEF NULL_TASK_ID
    <2>2. NoGroup \in [open : BOOLEAN, handles : SUBSET Handles]
      BY DEF NoGroup
    <2> QED
      BY <1>1, <1>u, <2>1, <2>2 DEF JoinTypes
  <1>3. CallInv
    BY <1>1, <1>u DEF CallInv
  <1>4. ChildInv
    <2>1. \A e \in Handles : child[e] = NULL_TASK_ID /\ e \in event_names
      BY <1>u
    <2>2. \A g \in TaskIds : tg[g].handles = {}
      BY <1>u DEF NoGroup
    <2> QED
      BY <1>u, <2>1, <2>2 DEF ChildInv
  <1>5. PlainInv /\ SentInv
    BY <1>u DEF PlainInv, SentInv
  <1>6. /\ \A t : ~ InSnaps(stack, t) /\ ~ IsEntering(stack, t)
        /\ StackOk
    BY <1>u, SourcesEmpty DEF StackOk
  <1>7. Plain(Due) = Due /\ UniqueWaiters(Due) /\ \A t : ~ InWaiters(Due, t)
    BY <1>d, <1>u, EmptyElems DEF Plain, UniqueWaiters, InWaiters
  <1>8. PlainSource(cbs, Plain(Due), stack, co)
    BY <1>6, <1>7, <1>u DEF PlainSource, PlainTask, OneSource, Sourced
  <1>9. HandleSource
    <2>1. \A e \in Handles : Due[e] = <<>> /\ Len(Due[e]) = 0
      BY <1>d, <1>u
    <2>2. \A t \in TaskIds : ~ Waiting(t) /\ Registered(Due, t, {})
      BY <1>1, <1>u, <2>1, EmptyElems DEF Waiting, Registered
    <2> QED
      BY <2>1, <2>2 DEF HandleSource, HandleTask
  <1>10. DeliverInv
    BY <1>d, <1>u DEF DeliverInv
  <1>11. InsertInv /\ GroupInv
    BY <1>1, <1>u DEF InsertInv, GroupInv
  <1> QED
    BY <1>0, <1>2, <1>3, <1>4, <1>5, <1>6, <1>8, <1>9, <1>10, <1>11
       DEF JInv, BaseInv, LiveInv

\* Every body step keeps the invariant.
LEMMA BodyLive ==
    ASSUME JInv, JoinUse, JBody
    PROVE  JInv'
  <1>1. CASE UserStep
    BY <1>1, UserLive
  <1>2. CASE \E e \in Handles : JforkEnds(e) \/ JoinOne(e)
    BY <1>2, JforkEndsLive, JoinOneLive
  <1>3. CASE \E S \in SUBSET Handles : JoinAll(S) \/ JoinAny(S)
    BY <1>3, JoinAllLive, JoinAnyLive
  <1>4. CASE \E t \in TaskIds : Fork(t) \/ \E e \in Handles : ForkJoinable(e, t)
    BY <1>4, PlainForkLive, ForkJoinableLive
  <1>5. CASE \E g, t \in TaskIds, e \in Handles : GroupFork(g, e, t)
    BY <1>5, GroupForkLive
  <1>6. CASE OpenGroup \/ GroupJoinAny
    BY <1>6, OpenGroupLive, GroupJoinAnyLive
  <1>7. CASE \E next \in {"all", "close"} : GroupJoinAll(next)
    BY <1>7, GroupJoinAllLive
  <1> QED
    BY <1>1, <1>2, <1>3, <1>4, <1>5, <1>6, <1>7 DEF JBody

\* Nothing changes.
LEMMA SameLive ==
    ASSUME JInv, UNCHANGED jvars
    PROVE  JInv'
  <1>1. UNCHANGED vars /\ UNCHANGED <<child, group_of, tg, join>>
    BY DEF jvars, joinVars
  <1>2. /\ UNCHANGED <<running, archived, fired, co, pending, removed, nr_removed,
                       event_names, Due, has_wakeup, pending_wakeup>>
        /\ UNCHANGED <<curr_wakeup, stack, cbs, status, owed>>
    BY <1>1, DueSame DEF vars, taskVars, removalVars, eventVars, wakeVars, outerVars, ghostVars
  <1>3. IInv'
    BY <1>1, StepInv DEF JInv, BaseInv
  <1>4. BaseInv'
    BY <1>1, <1>2, <1>3 DEF JInv, BaseInv, PlainInv, JoinTypes, CallInv, ChildInv, SentInv
  <1>5. ASSUME status = "ok" PROVE LiveInv'
    <2>1. LiveInv
      BY <1>5 DEF JInv
    <2>2. StackOk' /\ PlainSource(cbs, Plain(Due), stack, co)' /\ DeliverInv'
      BY <1>2, <2>1 DEF LiveInv, StackOk, DeliverInv
    <2>3. HandleSource'
      BY <1>1, <1>2, <2>1 DEF LiveInv, HandleSource, HandleTask, Waiting, Parked, Delivered,
                              Arriving, Top
    <2>4. InsertInv' /\ GroupInv'
      BY <1>1, <1>2, <2>1 DEF LiveInv, InsertInv, InsertTask, GroupInv
    <2> QED
      BY <2>2, <2>3, <2>4 DEF LiveInv
  <1> QED
    BY <1>2, <1>4, <1>5 DEF JInv

\* So does every step.
LEMMA StepLive ==
    ASSUME JoinUse
    PROVE  JInv /\ [JNext]_jvars => JInv'
  <1> SUFFICES ASSUME JInv, [JNext]_jvars PROVE JInv'
    OBVIOUS
  <1>1. CASE JEngine
    BY <1>1, EngineLive
  <1>2. CASE JBody
    BY <1>2, BodyLive
  <1>3. CASE JoinSteps
    BY <1>3, OneResumedLive, JoinResumedLive, AnyResumedLive, GroupInsertLive DEF JoinSteps
  <1>4. CASE UNCHANGED jvars
    BY <1>4, SameLive
  <1> QED
    BY <1>1, <1>2, <1>3, <1>4 DEF JNext

\* Under JoinUse jfork, join, join_any and task_group keep the invariant, for any
\* number of tasks and handles.
THEOREM JoinInvariant ==
    ASSUME JoinUse
    PROVE  JSpec => []JInv
  <1>1. JInit => JInv
    BY InitLive
  <1>2. JInv /\ [JNext]_jvars => JInv'
    BY StepLive
  <1> QED
    BY <1>1, <1>2, PTL DEF JSpec

----------------------------------------------------------------------------
(* The properties *)

\* Types of join, join_any, jfork and task_group, under JoinUse: the handles that
\* a join has counted are among those it was called with, and it expects no more
\* wakeups than there are handles.
THEOREM JoinTypeCorrect ==
    ASSUME JoinUse
    PROVE  JSpec => []JoinTypeOK
  <1>1. JInv => JoinTypeOK
    <2> SUFFICES ASSUME JInv PROVE JoinTypeOK
      OBVIOUS
    <2>k. JoinTypes /\ CallInv
      BY DEF JInv, BaseInv
    <2>1. ASSUME NEW t \in TaskIds
          PROVE  /\ join[t].kind \in {"none", "one", "all", "any", "insert"}
                 /\ join[t].handles \subseteq Handles
                 /\ join[t].finished \subseteq join[t].handles
                 /\ join[t].left \in 0 .. Cardinality(Handles)
                 /\ join[t].next \in {"user", "all", "close"}
      <3> DEFINE j == join[t]
      <3>1. j \in Calls /\ CallOk(j, child, event_names)
        BY <2>k DEF JoinTypes, CallInv
      <3>2. Open(j) \in SUBSET Handles /\ Cardinality(Handles) \in Nat
        BY <3>1, HandleSets DEF Open, Calls
      <3>3. Cardinality(Open(j)) \in Nat /\ Cardinality(Open(j)) <= Cardinality(Handles)
        BY <3>2, HandleSets, JoinAssumption, FS_Subset
      <3> HIDE DEF j
      <3>4. j.left \in 0 .. Cardinality(Handles)
        BY <3>1, <3>2, <3>3 DEF CallOk
      <3>5. /\ j.kind \in {"none", "one", "all", "any", "insert"}
            /\ j.handles \subseteq Handles /\ j.finished \subseteq j.handles
            /\ j.next \in {"user", "all", "close"}
        BY <3>1 DEF CallOk, Calls
      <3> QED
        BY <3>4, <3>5 DEF j
    <2> QED
      BY <2>k, <2>1 DEF JoinTypeOK, JoinTypes
  <1> QED
    BY <1>1, JoinInvariant, PTL

\* Under JoinUse the assertions at init.lua:806, 807, 866 and 891 hold: whoever
\* is resumed in a join or join_any was woken by a handle it still waits for,
\* whose task has ended.  Tasks that share a handle do fail them.
THEOREM JoinAssertions ==
    ASSUME JoinUse
    PROVE  JSpec => []JoinAssertionsHold /\ []JoinWokenByHandle
  <1>1. JInv => JoinAssertionsHold
    <2> SUFFICES ASSUME JInv, NEW kind \in {"all", "any"}, Inside(kind)
                 PROVE  AwaitedEnd(curr_wakeup)
      BY DEF JoinAssertionsHold
    <2>1. At("body") /\ Waiting(curr_task)
      BY DEF Inside, Waiting
    <2>2. /\ curr_wakeup \in Open(join[curr_task]) /\ curr_wakeup \notin event_names
          /\ CallOk(join[curr_task], child, event_names)
      BY <2>1, ResumedFacts
    <2> QED
      BY <2>2 DEF AwaitedEnd, Open, Finished, CallOk
  <1>2. JoinAssertionsHold => JoinWokenByHandle
    BY DEF JoinAssertionsHold, JoinWokenByHandle
  <1> QED
    BY <1>1, <1>2, JoinInvariant, PTL

\* Under JoinUse nobody is left behind in a join when the scheduler has returned
\* to the simulator: what a join still waits for has not ended.
THEOREM JoinWakesAll ==
    ASSUME JoinUse
    PROVE  JSpec => []JoinNotStuck
  <1>1. JInv => JoinNotStuck
    <2> SUFFICES ASSUME JInv, stack = <<>>, status = "ok", NEW t \in TaskIds, Waiting(t)
                 PROVE  ~ Behind(t)
      BY DEF JoinNotStuck
    <2>k. /\ IInv /\ BaseInv /\ DeliverInv /\ JoinTypes /\ ChildInv
          /\ CallOk(join[t], child, event_names)
      BY LiveFacts DEF BaseInv, CallInv
    <2>1. Len(pending_wakeup) = 0
      <3>1. Len(stack) = 0
        OBVIOUS
      <3>2. pending_wakeup = <<>>
        BY <2>k, <3>1 DEF IInv, SendInv, HasLoop
      <3> QED
        BY <3>2
    <2>2. \A e \in Handles : e \notin event_names => Due[e] = <<>>
      BY <2>k, <2>1 DEF DeliverInv
    <2>3. \A e \in Handles : t \in Elems(Due[e]) <=> e \in Open(join[t])
      <3>1. Parked(t)
        BY AllParked
      <3> QED
        BY <3>1 DEF Parked, Registered
    <2>4. ASSUME NEW e \in Open(join[t])
          PROVE  e \in join[t].handles /\ co[child[e]] # "dead"
      <3>1. e \in join[t].handles /\ e \in Handles
        BY <2>k DEF Open, JoinTypes, Calls
      <3>2. e \in event_names /\ child[e] # NULL_TASK_ID
        BY <2>2, <2>3, <2>k, <3>1, EmptyElems DEF CallOk
      <3> QED
        BY <2>k, <3>1, <3>2 DEF ChildInv
    <2>5. CASE join[t].kind = "any"
      <3>1. Open(join[t]) = join[t].handles
        BY <2>5, <2>k DEF CallOk, Open
      <3> QED
        BY <2>4, <2>5, <3>1 DEF Behind
    <2>6. CASE join[t].kind # "any"
      <3>1. \E e \in Open(join[t]) : TRUE
        BY <2>6, <2>k DEF Waiting, CallOk, Open
      <3> QED
        BY <2>4, <2>6, <3>1 DEF Behind
    <2> QED
      BY <2>5, <2>6
  <1> QED
    BY <1>1, JoinInvariant, PTL

\* Only the task itself, resumed in it, leaves a join.
LEMMA LeavesJoin ==
    ASSUME JInv, [JNext]_jvars, NEW t \in TaskIds, Waiting(t), join'[t] # join[t]
    PROVE  /\ At("body") /\ t = curr_task
           /\ OneResumed \/ JoinResumed \/ AnyResumed
  <1>0. JoinTypes
    BY DEF JInv, BaseInv
  <1>1. join' # join
    OBVIOUS
  <1>2. \A c : join' = [join EXCEPT ![curr_task] = c] => t = curr_task
    BY <1>0 DEF JoinTypes
  <1>3. ASSUME join[curr_task].kind = "none" PROVE t # curr_task
    BY <1>3 DEF Waiting
  <1>4. CASE JEngine \/ UNCHANGED jvars
    BY <1>1, <1>4 DEF JEngine, jvars, joinVars
  <1>5. CASE JBody
    <2>1. (\E c : join' = [join EXCEPT ![curr_task] = c]) => join[curr_task].kind # "none"
      BY <1>2, <1>3
    <2>2. ~ UserStep /\ ~ OpenGroup /\ \A y : ~ Fork(y)
      BY <1>1 DEF UserStep, OpenGroup, Fork, joinVars
    <2>3. \A e : ~ JforkEnds(e) /\ \A y : ~ ForkJoinable(e, y)
      BY <1>1 DEF JforkEnds, ForkJoinable, joinVars
    <2>4. \A e : ~ JoinOne(e)
      BY <2>1 DEF JoinOne, WaitOne, Enter, Free
    <2>5. \A S : WaitAny(S) => join[curr_task].kind # "none"
      BY <2>1 DEF WaitAny, WaitOne, Enter
    <2>6. \A S, c : JoinVec(S, c) => join[curr_task].kind # "none"
      BY <2>1 DEF JoinVec, Enter, Return
    <2>7. \A S : ~ JoinAll(S) /\ ~ JoinAny(S)
      BY <2>5, <2>6 DEF JoinAll, JoinAny, Free
    <2>8. ~ GroupJoinAny
      BY <2>5 DEF GroupJoinAny, Free
    <2>9. \A next : ~ GroupJoinAll(next)
      BY <2>1, <2>6 DEF GroupJoinAll, JoinGroup, Return, Enter, Free
    <2>10. \A g, e, y : ~ GroupFork(g, e, y)
      BY <2>1 DEF GroupFork, Enter, Free
    <2> QED
      BY <1>5, <2>2, <2>3, <2>4, <2>7, <2>8, <2>9, <2>10 DEF JBody
  <1>6. CASE JoinSteps
    <2>1. At("body")
      BY <1>6 DEF JoinSteps, OneResumed, JoinResumed, AnyResumed, GroupInsert, Inside
    <2>2. t = curr_task
      <3>1. CASE OneResumed \/ GroupInsert
        BY <1>2, <3>1 DEF OneResumed, GroupInsert, Return, Enter
      <3>2. CASE AnyResumed
        BY <1>1, <1>2, <3>2 DEF AnyResumed, JoinAsserts, Return, Enter, joinVars
      <3>3. CASE JoinResumed
        BY <1>1, <1>2, <3>3 DEF JoinResumed, JoinAsserts, JoinGroup, JoinVec, Return, Enter,
                                joinVars
      <3> QED
        BY <1>6, <3>1, <3>2, <3>3 DEF JoinSteps
    <2>3. ~ GroupInsert
      BY <2>2 DEF GroupInsert, Inside, Waiting
    <2> QED
      BY <1>6, <2>1, <2>2, <2>3 DEF JoinSteps
  <1> QED
    BY <1>4, <1>5, <1>6 DEF JNext

\* "Wait here until both tasks finished": join returns after the tasks of all
\* its handles, also when some had ended before it was called, unless their
\* event was still pending then, which JoinUse excludes (init.lua:782-792).
THEOREM JoinReturnsLast ==
    ASSUME JoinUse
    PROVE  JSpec => JoinAfterEnd
  <1>1. JInv /\ [JNext]_jvars =>
          [\A t \in TaskIds :
             join[t].kind \in {"one", "all"} /\ join'[t].handles # join[t].handles
               => \A e \in join[t].handles : Finished(e)]_jvars
    <2> SUFFICES ASSUME JInv, [JNext]_jvars, NEW t \in TaskIds,
                        join[t].kind \in {"one", "all"}, join'[t].handles # join[t].handles,
                        NEW e \in join[t].handles
                 PROVE  Finished(e)
      OBVIOUS
    <2>1. Waiting(t) /\ join'[t] # join[t]
      BY DEF Waiting
    <2>2. At("body") /\ t = curr_task /\ (OneResumed \/ JoinResumed \/ AnyResumed)
      BY <2>1, LeavesJoin
    <2>3. /\ curr_wakeup \in Open(join[t]) /\ curr_wakeup \notin event_names
          /\ CallOk(join[t], child, event_names) /\ join[t] \in Calls
      BY <2>1, <2>2, ResumedFacts
    <2>4. child[e] # NULL_TASK_ID
      BY <2>3 DEF CallOk
    <2>5. CASE join[t].kind = "one"
      BY <2>3, <2>4, <2>5 DEF CallOk, Open, Finished
    <2>6. CASE join[t].kind = "all"
      <3>1. JoinResumed
        BY <2>2, <2>6 DEF OneResumed, AnyResumed, Inside
      <3>2. join[t].left = 1
        <4>1. ~ UNCHANGED joinVars
          BY <2>1 DEF joinVars
        <4>2. ~ Enter([join[t] EXCEPT !.left = @ - 1, !.finished = @ \cup {curr_wakeup}])
          <5> SUFFICES ASSUME NEW c, c = [join[t] EXCEPT !.left = @ - 1,
                                                         !.finished = @ \cup {curr_wakeup}],
                              join' = [join EXCEPT ![t] = c]
                       PROVE  FALSE
            BY <2>2 DEF Enter
          <5>1. c.handles = join[t].handles
            BY <2>3 DEF Calls
          <5>2. join'[t] = c
            BY DEF JInv, BaseInv, JoinTypes
          <5> QED
            BY <5>1, <5>2
        <4> QED
          BY <2>2, <3>1, <4>1, <4>2 DEF JoinResumed, JoinAsserts
      <3>3. e \notin event_names
        BY <2>2, <2>6, <3>2, LastHandle
      <3> QED
        BY <2>4, <3>3 DEF Finished
    <2> QED
      BY <2>5, <2>6
  <1> QED
    BY <1>1, JoinInvariant, PTL DEF JSpec, JoinAfterEnd

\* No body of the group g, whose owner is in no TaskGroup:fork, has still to
\* track a handle, if the tracked ones have ended: below the body that waits for
\* jfork to return runs another one, which was forked into g too.
LEMMA NoOpenFork ==
    ASSUME JInv, status = "ok", NEW g \in TaskIds, join[g].kind # "insert",
           \A e \in tg[g].handles : e \notin event_names
    PROVE  \A u \in TaskIds : join[u].kind = "insert" => join[u].group # g
  <1> DEFINE Forker(u) == join[u].kind = "insert" /\ join[u].group = g
             D == {k \in Nat : \E u \in TaskIds : Forker(u) /\ BodyAt(stack, k, u)}
  <1>k. /\ IInv /\ BaseInv /\ JoinTypes /\ ChildInv /\ InsertInv /\ GroupInv /\ StackOk
        /\ Len(stack) \in Nat
    <2>1. IInv /\ BaseInv /\ LiveInv
      BY LiveFacts
    <2>2. Len(stack) \in Nat
      BY <2>1 DEF IInv, TypeOK
    <2> QED
      BY <2>1, <2>2 DEF BaseInv, LiveInv
  <1>1. ASSUME NEW u \in TaskIds, Forker(u)
        PROVE  \E k \in D : BodyAt(stack, k, u)
    <2>1. PICK k \in 1 .. Len(stack) : BodyAt(stack, k, u)
      BY <1>1, <1>k DEF InsertInv, InsertTask
    <2>2. k \in Nat
      BY <1>k
    <2> QED
      BY <1>1, <2>1, <2>2
  <1>2. ASSUME NEW k \in D
        PROVE  \E m \in D : m < k
    <2>1. PICK u \in TaskIds : Forker(u) /\ BodyAt(stack, k, u)
      OBVIOUS
    <2>2. co[u] = "active" /\ k \in 1 .. Len(stack)
      BY <1>k, <2>1 DEF BodyAt, StackOk, BodyInv
    <2>3. PICK f \in Handles : child[f] = u /\ group_of[f] = g
      BY <1>k, <2>1 DEF InsertInv, InsertTask
    <2>4. child[f] # NULL_TASK_ID /\ g # NULL_TASK_ID
      BY <2>3, TaskIdLemma
    <2>5. f \in event_names
      BY <1>k, <2>2, <2>3, <2>4 DEF ChildInv
    <2>6. f \notin tg[g].handles
      BY <2>5
    <2>7. PICK v \in TaskIds : join[v].kind = "insert" /\ join[v].handles = {f}
      BY <1>k, <2>3, <2>4, <2>5, <2>6 DEF GroupInv
    <2>8. InsertTask(v)
      BY <1>k, <2>7 DEF InsertInv
    <2>9. Forker(v)
      BY <2>3, <2>7, <2>8 DEF InsertTask
    <2>10. PICK m \in 1 .. Len(stack) :
             /\ BodyAt(stack, m, v)
             /\ \A n \in 1 .. Len(stack), e \in join[v].handles :
                  BodyAt(stack, n, child[e]) => n > m
      BY <2>8 DEF InsertTask
    <2>11. m < k /\ m \in Nat
      BY <1>k, <2>1, <2>2, <2>3, <2>7, <2>10
    <2>12. m \in D
      BY <2>9, <2>10, <2>11
    <2> QED
      BY <2>11, <2>12
  <1>3. D \in SUBSET Nat
    OBVIOUS
  <1>4. D = {}
    <2> SUFFICES ASSUME D # {} PROVE FALSE
      OBVIOUS
    <2> HIDE DEF D
    <2>1. PICK n \in D : \A m \in D : n <= m
      BY <1>3, LeastNat
    <2>2. PICK m \in D : m < n
      BY <1>2
    <2>3. n <= m /\ m \in Nat /\ n \in Nat
      BY <1>3, <2>1
    <2> QED
      BY <2>2, <2>3
  <1> HIDE DEF D
  <1> QED
    BY <1>1, <1>4

\* A group is closed by its owner, after all tracked handles.
LEMMA ClosesGroup ==
    ASSUME JInv, [JNext]_jvars, NEW g \in TaskIds, tg[g].open, ~ tg'[g].open
    PROVE  /\ status = "ok" /\ join[g].kind # "insert"
           /\ \A e \in tg[g].handles : e \notin event_names
  <1>0. tg \in [TaskIds -> [open : BOOLEAN, handles : SUBSET Handles]]
    BY DEF JInv, BaseInv, JoinTypes
  <1>1. tg'[g] # tg[g]
    OBVIOUS
  <1>2. tg' # tg
    BY <1>1
  <1>3. ASSUME NEW drained, NEW next, JoinGroup(drained, next),
               \A e \in drained : e \notin event_names
        PROVE  g = curr_task /\ \A e \in tg[g].handles : e \notin event_names
    <2>1. /\ (tg[curr_task].handles \ drained) \cap event_names = {}
          /\ tg' = [tg EXCEPT ![curr_task] = NoGroup]
      BY <1>2, <1>3 DEF JoinGroup
    <2>2. g = curr_task
      BY <1>0, <1>1, <2>1
    <2> QED
      BY <1>3, <2>1, <2>2
  <1>4. CASE JEngine \/ UNCHANGED jvars
    BY <1>2, <1>4 DEF JEngine, jvars, joinVars
  <1>5. CASE JBody
    <2>1. ~ OpenGroup
      BY <1>0 DEF OpenGroup
    <2>2. ~ UserStep /\ \A y : ~ Fork(y)
      BY <1>2 DEF UserStep, Fork, joinVars
    <2>3. \A e : ~ JforkEnds(e) /\ ~ JoinOne(e) /\ \A y : ~ ForkJoinable(e, y)
      BY <1>2 DEF JforkEnds, JoinOne, ForkJoinable, joinVars
    <2>4. \A S : ~ JoinAll(S) /\ ~ JoinAny(S)
      BY <1>2 DEF JoinAll, JoinAny
    <2>5. ~ GroupJoinAny /\ \A h, e, y : ~ GroupFork(h, e, y)
      BY <1>2 DEF GroupJoinAny, GroupFork
    <2>6. PICK next \in {"all", "close"} : GroupJoinAll(next)
      BY <1>5, <2>1, <2>2, <2>3, <2>4, <2>5 DEF JBody
    <2>7. g = curr_task /\ \A e \in tg[g].handles : e \notin event_names
      BY <1>3, <2>6 DEF GroupJoinAll
    <2> QED
      BY <2>6, <2>7 DEF GroupJoinAll, Free, At
  <1>6. CASE JoinSteps
    <2>1. ~ OneResumed /\ ~ AnyResumed
      BY <1>2 DEF OneResumed, AnyResumed, JoinAsserts, joinVars
    <2>2. ~ GroupInsert
      <3> SUFFICES ASSUME GroupInsert PROVE FALSE
        OBVIOUS
      <3> DEFINE G == join[curr_task].group
                 H == join[curr_task].handles
      <3>1. tg' = [tg EXCEPT ![G].handles = @ \cup H]
        BY DEF GroupInsert
      <3> HIDE DEF G, H
      <3>2. tg'[g].open = tg[g].open
        BY <1>0, <3>1
      <3> QED
        BY <3>2
    <2>3. JoinResumed
      BY <1>6, <2>1, <2>2 DEF JoinSteps
    <2>4. /\ At("body") /\ join[curr_task].kind = "all"
          /\ join[curr_task].left = 1 /\ join[curr_task].next # "user"
          /\ JoinGroup(join[curr_task].drained, join[curr_task].next)
      BY <1>2, <2>3 DEF JoinResumed, Inside, JoinAsserts, joinVars
    <2>5. \A e \in join[curr_task].drained : e \notin event_names
      BY <2>4, LastHandle
    <2>6. g = curr_task /\ \A e \in tg[g].handles : e \notin event_names
      BY <1>3, <2>4, <2>5
    <2> QED
      BY <2>4, <2>6 DEF At
  <1> QED
    BY <1>4, <1>5, <1>6 DEF JNext

\* "All tasks guaranteed to be finished here": under JoinUse a task_group returns
\* after all tasks forked into it, by its owner or by its other tasks.
THEOREM GroupWaitsForAll ==
    ASSUME JoinUse
    PROVE  JSpec => GroupComplete
  <1>1. JInv /\ [JNext]_jvars =>
          [\A g \in TaskIds : tg[g].open /\ ~ tg'[g].open =>
             \A e \in Handles : group_of[e] = g => Finished(e)]_jvars
    <2> SUFFICES ASSUME JInv, [JNext]_jvars, NEW g \in TaskIds, tg[g].open, ~ tg'[g].open,
                        NEW e \in Handles, group_of[e] = g
                 PROVE  Finished(e)
      OBVIOUS
    <2>1. /\ status = "ok" /\ join[g].kind # "insert"
          /\ \A f \in tg[g].handles : f \notin event_names
      BY ClosesGroup
    <2>k. GroupInv /\ InsertInv /\ ChildInv
      BY <2>1, LiveFacts DEF LiveInv, BaseInv
    <2>2. ~ \E u \in TaskIds : join[u].kind = "insert" /\ join[u].handles = {e}
      <3>1. \A u \in TaskIds : join[u].kind = "insert" => join[u].group # g
        BY <2>1, NoOpenFork
      <3> QED
        BY <2>k, <3>1 DEF InsertInv, InsertTask
    <2>3. g # NULL_TASK_ID
      BY TaskIdLemma
    <2>4. e \notin event_names /\ (child[e] # NULL_TASK_ID \/ e \in tg[g].handles)
      BY <2>1, <2>2, <2>3, <2>k DEF GroupInv
    <2> QED
      BY <2>4, <2>k DEF Finished, ChildInv
  <1> QED
    BY <1>1, JoinInvariant, PTL DEF JSpec, GroupComplete
=============================================================================
