---------------------------- MODULE WakeProofs -----------------------------
(* Proofs about Scheduler when user code removes no task and re-creates no
   event: who resumes a task, and which tasks are running.                  *)
EXTENDS SchedulerProofs

----------------------------------------------------------------------------
(* The inductive invariant *)

\* User code neither removes a task nor creates an event a second time.
NoRemoval == Ops \cap {"remove", "renew_event"} = {}

\* The coroutine has begun or will begin, and has not ended.
Live == {"fresh", "suspended", "active"}

\* q holds nothing twice.
Distinct(q) == \A k, m \in 1 .. Len(q) : q[k] = q[m] => k = m

\* The ways to resume t, besides a callback (cbs[t] # 0): an entry of a waiter
\* list, an entry of a snapshot, the frame that is about to enter its coroutine.
InWaiters(w, t) == \E e \in Events : t \in Elems(w[e])
InSnaps(s, t) == \E f \in 1 .. Len(s) : t \in Elems(s[f].snap)
IsEntering(s, t) == s # <<>> /\ s[Len(s)].pc \in Entering /\ s[Len(s)].id = t

\* All waiter lists together, and all snapshots, hold a task once.
UniqueWaiters(w) ==
    \A e, g \in Events : \A k \in 1 .. Len(w[e]), m \in 1 .. Len(w[g]) :
      w[e][k] = w[g][m] => e = g /\ k = m

UniqueSnaps(s) ==
    \A f, g \in 1 .. Len(s) : \A k \in 1 .. Len(s[f].snap), m \in 1 .. Len(s[g].snap) :
      s[f].snap[k] = s[g].snap[m] => f = g /\ k = m

Sourced(c, w, s, t) ==
    c[t] # 0 \/ InWaiters(w, t) \/ InSnaps(s, t) \/ IsEntering(s, t)

OneSource(c, w, s, t) ==
    /\ c[t] \in {0, 1}
    /\ c[t] # 0 => ~ InWaiters(w, t) /\ ~ InSnaps(s, t) /\ ~ IsEntering(s, t)
    /\ InWaiters(w, t) => ~ InSnaps(s, t) /\ ~ IsEntering(s, t)
    /\ InSnaps(s, t) => ~ IsEntering(s, t)

\* A suspended task has a source, a task that has not begun may have one, and
\* the others have none.
SourceOf(c, w, s, x, t) ==
    /\ OneSource(c, w, s, t)
    /\ x[t] = "suspended" => Sourced(c, w, s, t)
    /\ Sourced(c, w, s, t) => x[t] \in {"suspended", "fresh"}

SourceInv(c, w, s, x) ==
    /\ UniqueWaiters(w) /\ UniqueSnaps(s)
    /\ \A t \in TaskIds : SourceOf(c, w, s, x, t)

\* Every frame in its body runs the coroutine of its task, and no other frame
\* does.
BodyInv(s, x) ==
    /\ \A k \in 1 .. Len(s) :
         ~ s[k].stale /\ (s[k].pc = "body" => x[s[k].id] = "active")
    /\ \A k, m \in 1 .. Len(s) :
         s[k].pc = "body" /\ s[m].pc = "body" /\ s[k].id = s[m].id => k = m

\* Frame k of s runs the body of t.
BodyAt(s, k, t) == k \in 1 .. Len(s) /\ s[k].pc = "body" /\ s[k].id = t

\* The tables of tasks: those that have not ended are running, and not among
\* those to be forgotten.
TableInv(run, arch, q, x) ==
    /\ run \subseteq arch
    /\ Elems(q) \subseteq run
    /\ Distinct(q)
    /\ \A t \in TaskIds : t \in run \ Elems(q) <=> x[t] \in Live

\* schedule_all_tasks is running t.
Walking(s, t) == s # <<>> /\ s[1].pc = "all" /\ s[1].id = t

\* A task that has not fired has not begun, or schedule_all_tasks is running it.
FiredInv(unfired, c, w, s, x) ==
    \A t \in unfired :
      (x[t] = "fresh" /\ ~ Sourced(c, w, s, t)) \/ Walking(s, t)

WakeInv ==
    /\ removed = {} /\ nr_removed = 0 /\ status # "resume"
    /\ status = "ok" =>
         /\ SourceInv(cbs, waiters, stack, co)
         /\ BodyInv(stack, co)
         /\ TableInv(running, archived, pending, co)
         /\ FiredInv(running \ fired, cbs, waiters, stack, co)

----------------------------------------------------------------------------
(* The sources of a stack, as frames come and go *)

\* The empty stack.
LEMMA SourcesEmpty ==
    /\ \A t : ~ InSnaps(<<>>, t) /\ ~ IsEntering(<<>>, t) /\ ~ Walking(<<>>, t)
    /\ UniqueSnaps(<<>>)
    /\ \A x : BodyInv(<<>>, x)
  BY DEF InSnaps, IsEntering, Walking, UniqueSnaps, BodyInv

\* A call of schedule_task.
LEMMA SourcesPush ==
    ASSUME NEW s \in Seq(Frame), NEW f \in Frame
    PROVE  /\ \A t : InSnaps(Push(s, f), t) <=> InSnaps(s, t) \/ t \in Elems(f.snap)
           /\ \A t : IsEntering(Push(s, f), t) <=> f.pc \in Entering /\ f.id = t
           /\ f.pc # "all" => \A t : Walking(Push(s, f), t) <=> Walking(s, t)
           /\ s = <<>> => \A t : Walking(Push(s, f), t) <=> f.pc = "all" /\ f.id = t
           /\ /\ UniqueSnaps(s) /\ Distinct(f.snap)
              /\ \A t \in Elems(f.snap) : ~ InSnaps(s, t)
              => UniqueSnaps(Push(s, f))
  <1> DEFINE r == Push(s, f)
             n == Len(s)
  <1>1. /\ n \in Nat /\ Len(r) = n + 1 /\ r[n + 1] = f
        /\ \A k \in 1 .. n : r[k] = s[k]
    BY PushLemma, LenProperties
  <1>2. /\ n + 1 \in 1 .. n + 1
        /\ \A k \in 1 .. n + 1 : k = n + 1 \/ k \in 1 .. n
        /\ \A k \in 1 .. n : k \in 1 .. n + 1
    BY <1>1
  <1>3. r # <<>> /\ (s = <<>> <=> n = 0)
    BY <1>1, EmptySeq, LenProperties
  <1> HIDE DEF r, n
  <1>4. \A t : InSnaps(r, t) <=> InSnaps(s, t) \/ t \in Elems(f.snap)
    BY <1>1, <1>2 DEF InSnaps, n
  <1>5. \A t : IsEntering(r, t) <=> f.pc \in Entering /\ f.id = t
    BY <1>1, <1>3 DEF IsEntering
  <1>6. f.pc # "all" => \A t : Walking(r, t) <=> Walking(s, t)
    BY <1>1, <1>3 DEF Walking
  <1>7. s = <<>> => \A t : Walking(r, t) <=> f.pc = "all" /\ f.id = t
    BY <1>1, <1>3 DEF Walking
  <1>8. ASSUME UniqueSnaps(s), Distinct(f.snap),
               \A t \in Elems(f.snap) : ~ InSnaps(s, t)
        PROVE  UniqueSnaps(r)
    <2> SUFFICES ASSUME NEW i \in 1 .. Len(r), NEW j \in 1 .. Len(r),
                        NEW k \in 1 .. Len(r[i].snap), NEW m \in 1 .. Len(r[j].snap),
                        r[i].snap[k] = r[j].snap[m]
                 PROVE  i = j /\ k = m
      BY DEF UniqueSnaps
    <2>1. CASE i \in 1 .. n /\ j \in 1 .. n
      BY SMTT(30), <1>1, <1>8, <2>1 DEF UniqueSnaps, n
    <2>2. CASE i = n + 1 /\ j = n + 1
      BY <1>1, <1>8, <2>2 DEF Distinct
    <2>3. CASE i = n + 1 /\ j \in 1 .. n
      BY <1>1, <1>8, <2>3 DEF InSnaps, Elems, n
    <2>4. CASE i \in 1 .. n /\ j = n + 1
      BY <1>1, <1>8, <2>4 DEF InSnaps, Elems, n
    <2> QED
      BY <1>1, <1>2, <2>1, <2>2, <2>3, <2>4
  <1> QED
    BY <1>4, <1>5, <1>6, <1>7, <1>8 DEF r

\* A return from schedule_task.
LEMMA SourcesPop ==
    ASSUME NEW s \in Seq(Frame), s # <<>>, ShapeOf(s)
    PROVE  /\ \A t : InSnaps(s, t) <=> InSnaps(Pop(s), t) \/ t \in Elems(s[Len(s)].snap)
           /\ \A t : ~ IsEntering(Pop(s), t)
           /\ s[Len(s)].pc # "all" => \A t : Walking(Pop(s), t) <=> Walking(s, t)
           /\ UniqueSnaps(s) =>
                /\ UniqueSnaps(Pop(s)) /\ Distinct(s[Len(s)].snap)
                /\ \A t \in Elems(s[Len(s)].snap) : ~ InSnaps(Pop(s), t)
  <1> DEFINE r == Pop(s)
             n == Len(s)
  <1>1. /\ n \in Nat /\ n >= 1 /\ Len(r) = n - 1
        /\ \A k \in 1 .. n - 1 : r[k] = s[k]
    BY PopLemma, TopLemma
  <1>2. /\ n \in 1 .. n
        /\ \A k \in 1 .. n : k = n \/ k \in 1 .. n - 1
        /\ \A k \in 1 .. n - 1 : k \in 1 .. n /\ k # n
    BY <1>1
  <1>p. r \in Seq(Frame)
    BY PopLemma
  <1>3. (r # <<>> => n - 1 >= 1) /\ (r = <<>> => n = 1)
    BY <1>1, <1>p, EmptySeq
  <1> HIDE DEF r, n
  <1>4. \A t : InSnaps(s, t) <=> InSnaps(r, t) \/ t \in Elems(s[n].snap)
    BY <1>1, <1>2 DEF InSnaps, n
  <1>5. \A t : ~ IsEntering(r, t)
    <2>1. r # <<>> => n - 1 \in 1 .. n - 1 /\ s[n - 1].pc \notin Entering
      BY <1>1, <1>2, <1>3 DEF ShapeOf, n
    <2> QED
      BY <1>1, <2>1 DEF IsEntering
  <1>6. s[n].pc # "all" => \A t : Walking(r, t) <=> Walking(s, t)
    <2>1. CASE r = <<>>
      BY <1>3, <2>1 DEF Walking
    <2>2. CASE r # <<>>
      <3>1. 1 \in 1 .. n - 1
        BY <1>1, <1>3, <2>2
      <3> QED
        BY <1>1, <2>2, <3>1 DEF Walking
    <2> QED
      BY <2>1, <2>2
  <1>7. ASSUME UniqueSnaps(s)
        PROVE  /\ UniqueSnaps(r) /\ Distinct(s[n].snap)
               /\ \A t \in Elems(s[n].snap) : ~ InSnaps(r, t)
    <2>1. UniqueSnaps(r)
      <3> SUFFICES ASSUME NEW i \in 1 .. n - 1, NEW j \in 1 .. n - 1,
                          NEW k \in 1 .. Len(r[i].snap), NEW m \in 1 .. Len(r[j].snap),
                          r[i].snap[k] = r[j].snap[m]
                   PROVE  i = j /\ k = m
        BY <1>1 DEF UniqueSnaps
      <3>1. r[i] = s[i] /\ r[j] = s[j] /\ i \in 1 .. Len(s) /\ j \in 1 .. Len(s)
        BY <1>1, <1>2 DEF n
      <3> QED
        BY <1>7, <3>1 DEF UniqueSnaps
    <2>2. Distinct(s[n].snap)
      BY <1>2, <1>7 DEF UniqueSnaps, Distinct, n
    <2>3. \A t \in Elems(s[n].snap) : ~ InSnaps(r, t)
      <3> SUFFICES ASSUME NEW k \in 1 .. Len(s[n].snap), NEW j \in 1 .. n - 1,
                          NEW m \in 1 .. Len(r[j].snap), s[n].snap[k] = r[j].snap[m]
                   PROVE  FALSE
        BY <1>1 DEF InSnaps, Elems
      <3>1. r[j] = s[j] /\ j \in 1 .. Len(s) /\ n \in 1 .. Len(s) /\ j # n
        BY <1>1, <1>2 DEF n
      <3> QED
        BY <1>7, <3>1 DEF UniqueSnaps
    <2> QED
      BY <2>1, <2>2, <2>3
  <1> QED
    BY <1>4, <1>5, <1>6, <1>7 DEF r, n

\* The bodies, as frames come and go: the top body leaves with any state of its
\* coroutine, and a coroutine that is not active may be entered or replaced.
LEMMA BodyPush ==
    ASSUME NEW s \in Seq(Frame), NEW f \in Frame, NEW x, BodyInv(s, x),
           ~ f.stale,
           f.pc = "body" => /\ x[f.id] = "active"
                            /\ \A k \in 1 .. Len(s) :
                                 s[k].pc = "body" => s[k].id # f.id
    PROVE  BodyInv(Push(s, f), x)
  <1> DEFINE r == Push(s, f)
             n == Len(s)
  <1>1. /\ n \in Nat /\ Len(r) = n + 1 /\ r[n + 1] = f
        /\ \A k \in 1 .. n : r[k] = s[k]
    BY PushLemma, LenProperties
  <1>2. \A k \in 1 .. n + 1 : k = n + 1 \/ k \in 1 .. n
    BY <1>1
  <1> HIDE DEF r
  <1>3. ASSUME NEW k \in 1 .. n + 1
        PROVE  ~ r[k].stale /\ (r[k].pc = "body" => x[r[k].id] = "active")
    BY <1>1, <1>2, <1>3 DEF BodyInv
  <1>4. ASSUME NEW k \in 1 .. n + 1, NEW m \in 1 .. n + 1,
               r[k].pc = "body", r[m].pc = "body", r[k].id = r[m].id
        PROVE  k = m
    <2>1. CASE k \in 1 .. n /\ m \in 1 .. n
      BY <1>1, <1>4, <2>1 DEF BodyInv
    <2>2. CASE k = n + 1 \/ m = n + 1
      BY <1>1, <1>2, <1>4, <2>2
    <2> QED
      BY <1>2, <2>1, <2>2
  <1>5. BodyInv(r, x)
    BY <1>1, <1>3, <1>4 DEF BodyInv
  <1> QED
    BY <1>5 DEF r

\* A return from schedule_task leaves the other bodies alone.
LEMMA BodyPop ==
    ASSUME NEW s \in Seq(Frame), s # <<>>, NEW x, BodyInv(s, x)
    PROVE  /\ BodyInv(Pop(s), x)
           /\ \A k \in 1 .. Len(Pop(s)) : k \in 1 .. Len(s) /\ Pop(s)[k] = s[k]
           /\ s[Len(s)].pc = "body" =>
                \A k \in 1 .. Len(Pop(s)) :
                  Pop(s)[k].pc = "body" => Pop(s)[k].id # s[Len(s)].id
  <1> DEFINE r == Pop(s)
             n == Len(s)
  <1>1. /\ n \in Nat /\ n >= 1 /\ Len(r) = n - 1
        /\ \A k \in 1 .. n - 1 : r[k] = s[k]
    BY PopLemma, TopLemma
  <1>2. /\ n \in 1 .. n
        /\ \A k \in 1 .. n - 1 : k \in 1 .. n /\ k # n
    BY <1>1
  <1> HIDE DEF r
  <1>3. BodyInv(r, x)
    <2>1. \A k \in 1 .. n - 1 : ~ r[k].stale /\ (r[k].pc = "body" => x[r[k].id] = "active")
      BY <1>1, <1>2 DEF BodyInv
    <2>2. ASSUME NEW k \in 1 .. n - 1, NEW m \in 1 .. n - 1,
                 r[k].pc = "body", r[m].pc = "body", r[k].id = r[m].id
          PROVE  k = m
      <3>1. k \in 1 .. n /\ m \in 1 .. n /\ r[k] = s[k] /\ r[m] = s[m]
        BY <1>1, <1>2
      <3> QED
        BY <2>2, <3>1 DEF BodyInv
    <2> QED
      BY <1>1, <2>1, <2>2 DEF BodyInv
  <1>4. s[n].pc = "body" =>
           \A k \in 1 .. n - 1 : r[k].pc = "body" => r[k].id # s[n].id
    BY <1>1, <1>2 DEF BodyInv
  <1> QED
    BY <1>1, <1>2, <1>3, <1>4 DEF r

\* Where the bodies are, as frames come and go.
LEMMA BodyAtPush ==
    ASSUME NEW s \in Seq(Frame), NEW f \in Frame
    PROVE  \A k, t : BodyAt(Push(s, f), k, t) <=>
              BodyAt(s, k, t) \/ (k = Len(s) + 1 /\ f.pc = "body" /\ f.id = t)
  <1> DEFINE r == Push(s, f)
             n == Len(s)
  <1>1. /\ n \in Nat /\ Len(r) = n + 1 /\ r[n + 1] = f
        /\ \A k \in 1 .. n : r[k] = s[k]
    BY PushLemma, LenProperties
  <1>2. /\ \A k \in 1 .. n + 1 : k = n + 1 \/ k \in 1 .. n
        /\ \A k \in 1 .. n : k \in 1 .. n + 1 /\ k # n + 1
        /\ n + 1 \in 1 .. n + 1
    BY <1>1
  <1> HIDE DEF r, n
  <1>3. \A k, t : BodyAt(r, k, t) <=>
           BodyAt(s, k, t) \/ (k = n + 1 /\ f.pc = "body" /\ f.id = t)
    BY <1>1, <1>2 DEF BodyAt, n
  <1> QED
    BY <1>3 DEF r, n

\* A return takes the body of the top frame away, if it is one.
LEMMA BodyAtPop ==
    ASSUME NEW s \in Seq(Frame), s # <<>>
    PROVE  \A k, t : BodyAt(Pop(s), k, t) <=> BodyAt(s, k, t) /\ k # Len(s)
  <1> DEFINE r == Pop(s)
             n == Len(s)
  <1>1. /\ n \in Nat /\ n >= 1 /\ Len(r) = n - 1
        /\ \A k \in 1 .. n - 1 : r[k] = s[k]
    BY PopLemma, TopLemma
  <1>2. \A k : k \in 1 .. n - 1 <=> k \in 1 .. n /\ k # n
    BY <1>1
  <1> HIDE DEF r
  <1>3. \A k, t : BodyAt(r, k, t) <=> BodyAt(s, k, t) /\ k # n
    BY <1>1, <1>2 DEF BodyAt
  <1> QED
    BY <1>3 DEF r

\* The bodies depend only on the coroutines they run.
LEMMA BodyOther ==
    ASSUME NEW s \in Seq(Frame), NEW x, NEW y, BodyInv(s, x),
           \A k \in 1 .. Len(s) : s[k].pc = "body" => y[s[k].id] = x[s[k].id]
    PROVE  BodyInv(s, y)
  BY DEF BodyInv

\* A coroutine that is not active can be replaced: no frame runs it.
LEMMA StaleNone ==
    ASSUME NEW s \in Seq(Frame), NEW x, BodyInv(s, x), NEW t, x[t] # "active"
    PROVE  /\ Stale(s, t) = s
           /\ \A k \in 1 .. Len(s) : s[k].pc = "body" => s[k].id # t
  <1>1. \A k \in 1 .. Len(s) : s[k].pc = "body" => s[k].id # t
    BY DEF BodyInv
  <1>2. Stale(s, t) = [k \in 1 .. Len(s) |-> s[k]]
    BY <1>1 DEF Stale
  <1>3. s = [k \in 1 .. Len(s) |-> s[k]]
    OBVIOUS
  <1> QED
    BY <1>1, <1>2, <1>3

----------------------------------------------------------------------------
(* What the steps of the scheduler do to the sources of the stack *)

\* The empty list holds nothing.
LEMMA EmptyElems == Elems(<<>>) = {} /\ Distinct(<<>>)
  BY DEF Elems, Distinct

\* An event is emptied: its waiters were waiters of no other event.
LEMMA TakeUnique ==
    ASSUME NEW w, NEW v, UniqueWaiters(w), NEW e \in Events, v[e] = <<>>,
           \A g \in Events : g # e => v[g] = w[g]
    PROVE  /\ UniqueWaiters(v) /\ Distinct(w[e])
           /\ \A y : InWaiters(w, y) <=> InWaiters(v, y) \/ y \in Elems(w[e])
           /\ \A y \in Elems(w[e]) : ~ InWaiters(v, y)
  <1>1. Distinct(w[e])
    BY DEF UniqueWaiters, Distinct
  <1>2. UniqueWaiters(v)
    <2> SUFFICES ASSUME NEW a \in Events, NEW g \in Events,
                        NEW k \in 1 .. Len(v[a]), NEW m \in 1 .. Len(v[g]),
                        v[a][k] = v[g][m]
                 PROVE  a = g /\ k = m
      BY DEF UniqueWaiters
    <2>1. a # e /\ g # e
      OBVIOUS
    <2>2. v[a] = w[a] /\ v[g] = w[g]
      BY <2>1
    <2> QED
      BY <2>2 DEF UniqueWaiters
  <1>3. \A y : InWaiters(w, y) <=> InWaiters(v, y) \/ y \in Elems(w[e])
    BY EmptyElems DEF InWaiters
  <1>4. ASSUME NEW y \in Elems(w[e]), NEW g \in Events, y \in Elems(v[g])
        PROVE  FALSE
    <2>1. g # e
      BY <1>4, EmptyElems
    <2>2. y \in Elems(w[g])
      BY <1>4, <2>1
    <2> QED
      BY <1>4, <2>1, <2>2 DEF UniqueWaiters, Elems
  <1> QED
    BY <1>1, <1>2, <1>3, <1>4 DEF InWaiters

\* A task that waits for no event registers with one.
LEMMA AppendUnique ==
    ASSUME NEW w \in [Events -> Seq(TaskIds)], NEW v, UniqueWaiters(w),
           NEW t \in TaskIds, ~ InWaiters(w, t), NEW e \in Events,
           v[e] = Append(w[e], t), \A g \in Events : g # e => v[g] = w[g]
    PROVE  /\ UniqueWaiters(v) /\ Elems(v[e]) = Elems(w[e]) \cup {t}
           /\ \A y : InWaiters(v, y) <=> InWaiters(w, y) \/ y = t
  <1>1. Elems(v[e]) = Elems(w[e]) \cup {t}
    BY ElemsLemma
  <1>2. \A y : InWaiters(v, y) <=> InWaiters(w, y) \/ y = t
    BY <1>1 DEF InWaiters
  <1>3. UniqueWaiters(v)
    <2>2. /\ Len(w[e]) \in Nat /\ Len(v[e]) = Len(w[e]) + 1
          /\ v[e][Len(w[e]) + 1] = t
          /\ \A k \in 1 .. Len(w[e]) : v[e][k] = w[e][k]
      OBVIOUS
    <2> SUFFICES ASSUME NEW a \in Events, NEW g \in Events,
                        NEW k \in 1 .. Len(v[a]), NEW m \in 1 .. Len(v[g]),
                        v[a][k] = v[g][m]
                 PROVE  a = g /\ k = m
      BY DEF UniqueWaiters
    <2>3. ASSUME NEW b \in Events, NEW j \in 1 .. Len(v[b]), ~ (b = e /\ j = Len(w[e]) + 1)
          PROVE  j \in 1 .. Len(w[b]) /\ v[b][j] = w[b][j] /\ v[b][j] # t
      <3>1. j \in 1 .. Len(w[b]) /\ v[b][j] = w[b][j]
        <4>1. CASE b = e
          <5>1. j \in 1 .. Len(w[e]) + 1 /\ j # Len(w[e]) + 1
            BY <2>2, <2>3, <4>1
          <5>2. j \in 1 .. Len(w[e])
            BY <2>2, <5>1
          <5> QED
            BY <2>2, <4>1, <5>2
        <4>2. CASE b # e
          BY <4>2
        <4> QED
          BY <4>1, <4>2
      <3> QED
        BY <3>1 DEF InWaiters, Elems
    <2>4. CASE a = e /\ k = Len(w[e]) + 1
      BY <2>2, <2>3, <2>4
    <2>5. CASE g = e /\ m = Len(w[e]) + 1
      BY <2>2, <2>3, <2>5
    <2>6. CASE ~ (a = e /\ k = Len(w[e]) + 1) /\ ~ (g = e /\ m = Len(w[e]) + 1)
      <3>1. /\ k \in 1 .. Len(w[a]) /\ m \in 1 .. Len(w[g])
            /\ w[a][k] = w[g][m]
        BY <2>3, <2>6
      <3> QED
        BY <3>1 DEF UniqueWaiters
    <2> QED
      BY <2>4, <2>5, <2>6
  <1> QED
    BY <1>1, <1>2, <1>3

\* A new activation is not stale.
LEMMA NewFrameFresh ==
    ASSUME NEW t \in 0 .. MaxTaskId, NEW at \in PCs
    PROVE  ~ NewFrame(t, at).stale
  BY DEF NewFrame

\* The snapshots and the bodies of the stack are in order.
StackOk == UniqueSnaps(stack) /\ BodyInv(stack, co)

\* schedule_task is called.
LEMMA CallView ==
    ASSUME NEW s \in Seq(Frame), NEW f \in Frame, f.snap = <<>>, ~ f.stale,
           f.pc # "body", f.pc # "wake", NEW x, UniqueSnaps(s), BodyInv(s, x)
    PROVE  /\ \A y : InSnaps(Push(s, f), y) <=> InSnaps(s, y)
           /\ \A y : IsEntering(Push(s, f), y) <=> f.pc \in Entering /\ y = f.id
           /\ f.pc # "all" => \A y : Walking(Push(s, f), y) <=> Walking(s, y)
           /\ UniqueSnaps(Push(s, f)) /\ BodyInv(Push(s, f), x)
           /\ \A k, y : BodyAt(Push(s, f), k, y) <=> BodyAt(s, k, y)
           /\ \A j \in Nat : WillTake(s, j) => WillTake(Push(s, f), j)
  <1>1. /\ \A y : InSnaps(Push(s, f), y) <=> InSnaps(s, y)
        /\ \A y : IsEntering(Push(s, f), y) <=> f.pc \in Entering /\ y = f.id
        /\ f.pc # "all" => \A y : Walking(Push(s, f), y) <=> Walking(s, y)
        /\ UniqueSnaps(Push(s, f))
    BY EmptyElems, SourcesPush
  <1>2. BodyInv(Push(s, f), x)
    BY BodyPush
  <1>3. \A k, y : BodyAt(Push(s, f), k, y) <=> BodyAt(s, k, y)
    BY BodyAtPush
  <1>4. \A j \in Nat : WillTake(s, j) => WillTake(Push(s, f), j)
    BY WakePush
  <1> QED
    BY <1>1, <1>2, <1>3, <1>4

\* schedule_task, or the walk over the tasks, returns from outside of a body.
LEMMA ReturnView ==
    ASSUME NEW s \in Seq(Frame), s # <<>>, ShapeOf(s), NEW x, UniqueSnaps(s),
           BodyInv(s, x), s[Len(s)].snap = <<>>, s[Len(s)].pc # "body"
    PROVE  /\ \A y : InSnaps(Pop(s), y) <=> InSnaps(s, y)
           /\ \A y : ~ IsEntering(Pop(s), y)
           /\ s[Len(s)].pc # "all" => \A y : Walking(Pop(s), y) <=> Walking(s, y)
           /\ UniqueSnaps(Pop(s)) /\ BodyInv(Pop(s), x)
           /\ \A k, y : BodyAt(Pop(s), k, y) <=> BodyAt(s, k, y)
  <1>1. /\ \A y : InSnaps(Pop(s), y) <=> InSnaps(s, y)
        /\ \A y : ~ IsEntering(Pop(s), y)
        /\ s[Len(s)].pc # "all" => \A y : Walking(Pop(s), y) <=> Walking(s, y)
        /\ UniqueSnaps(Pop(s))
    BY EmptyElems, SourcesPop
  <1>2. BodyInv(Pop(s), x)
    BY BodyPop
  <1>3. \A k, y : BodyAt(Pop(s), k, y) <=> BodyAt(s, k, y)
    BY BodyAtPop DEF BodyAt
  <1> QED
    BY <1>1, <1>2, <1>3

\* schedule_task enters a coroutine.
LEMMA ResumeView ==
    ASSUME IInv, StackOk, Resume
    PROVE  /\ \A y : InSnaps(stack', y) <=> InSnaps(stack, y)
           /\ \A y : ~ IsEntering(stack', y)
           /\ \A y : Walking(stack', y) <=> Walking(stack, y)
           /\ UniqueSnaps(stack') /\ BodyInv(stack', co')
           /\ co'[Top.id] = "active"
           /\ \A y \in TaskIds : y # Top.id => co'[y] = co[y]
           /\ \A k, y : BodyAt(stack', k, y) <=>
                BodyAt(stack, k, y) \/ (k = Len(stack) /\ y = Top.id)
           /\ stack' # <<>> /\ stack'[Len(stack')].pc = "body"
           /\ stack'[Len(stack')].id = Top.id
           /\ \A j \in Nat : WillTake(stack, j) => WillTake(stack', j)
  <1>b. /\ stack \in Seq(Frame) /\ stack # <<>> /\ status = "ok"
        /\ Top \in Frame /\ Top.pc \in Entering /\ Top.snap = <<>>
        /\ Top.pc # "body" /\ Top.pc # "all" /\ Top.pc # "wake" /\ Top.id \in TaskIds
        /\ Len(stack) \in Nat /\ Len(stack) \in 1 .. Len(stack)
    BY EnterFacts, TopLemma DEF Resume
  <1>i. /\ ShapeOf(stack) /\ curr_task \in 0 .. MaxTaskId
        /\ co \in [TaskIds -> {"none", "fresh", "suspended", "active", "exited", "dead"}]
        /\ UniqueSnaps(stack) /\ BodyInv(stack, co)
    BY DEF IInv, TypeOK, StackOk
  <1> DEFINE t == Top.id
             p == Pop(stack)
             f == [Top EXCEPT !.pc = "body", !.old = curr_task]
  <1>u. /\ stack' = SetTop(stack, f) /\ co' = [co EXCEPT ![t] = "active"]
        /\ co[t] # "active"
    BY DEF Resume, Resumable
  <1>f. /\ f \in Frame /\ f.pc = "body" /\ f.id = t /\ f.snap = <<>>
        /\ f.stale = Top.stale /\ f.pc \notin Entering /\ f.pc # "all" /\ f.pc # "wake"
    BY <1>b, <1>i DEF Frame, PCs, Entering
  <1>g. ~ f.stale
    BY <1>b, <1>i, <1>f DEF BodyInv, Top
  <1>q. /\ p \in Seq(Frame) /\ stack' = Push(p, f) /\ Len(p) + 1 = Len(stack)
        /\ Len(stack') = Len(stack) /\ stack'[Len(stack)] = f /\ stack' # <<>>
    <2>1. p \in Seq(Frame) /\ Len(p) = Len(stack) - 1
      BY <1>b, PopLemma
    <2>2. /\ SetTop(stack, f) = Push(p, f) /\ Len(SetTop(stack, f)) = Len(stack)
          /\ SetTop(stack, f)[Len(stack)] = f /\ SetTop(stack, f) # <<>>
      BY <1>b, <1>f, SetTopIsPopPush, SetTopLemma
    <2> HIDE DEF p, f
    <2> QED
      BY <1>b, <1>u, <2>1, <2>2
  <1>c. co'[t] = "active" /\ \A y \in TaskIds : y # t => co'[y] = co[y]
    BY <1>b, <1>i, <1>u
  <1>n. \A k \in 1 .. Len(stack) : stack[k].pc = "body" => stack[k].id # t
    BY <1>i, <1>u DEF BodyInv
  <1> HIDE DEF f
  <1>1. /\ \A y : InSnaps(stack, y) <=> InSnaps(p, y)
        /\ \A y : Walking(p, y) <=> Walking(stack, y)
        /\ UniqueSnaps(p) /\ BodyInv(p, co)
        /\ \A k, y : BodyAt(p, k, y) <=> BodyAt(stack, k, y)
    BY <1>b, <1>i, ReturnView DEF Top
  <1>2. \A j \in Nat : WillTake(stack, j) => WillTake(p, j)
    BY <1>b, WakePop DEF Top
  <1>3. \A k \in 1 .. Len(p) : p[k].pc = "body" => p[k].id # t /\ p[k].id \in TaskIds
    <2>1. \A k \in 1 .. Len(p) : k \in 1 .. Len(stack) /\ p[k] = stack[k]
      BY <1>b, <1>i, BodyPop
    <2> QED
      BY <1>i, <1>n, <2>1 DEF ShapeOf
  <1> HIDE DEF p
  <1>4. BodyInv(p, co')
    BY <1>c, <1>q, <1>1, <1>3, BodyOther
  <1>5. BodyInv(Push(p, f), co')
    BY <1>c, <1>f, <1>g, <1>q, <1>3, <1>4, BodyPush
  <1>6. /\ \A y : InSnaps(Push(p, f), y) <=> InSnaps(p, y)
        /\ \A y : ~ IsEntering(Push(p, f), y)
        /\ \A y : Walking(Push(p, f), y) <=> Walking(p, y)
        /\ UniqueSnaps(Push(p, f))
    BY <1>f, <1>q, <1>1, EmptyElems, SourcesPush
  <1>7. \A k, y : BodyAt(Push(p, f), k, y) <=>
           BodyAt(p, k, y) \/ (k = Len(stack) /\ y = t)
    BY <1>f, <1>q, BodyAtPush
  <1>8. \A j \in Nat : WillTake(p, j) => WillTake(Push(p, f), j)
    BY <1>f, <1>q, WakePush
  <1> QED
    BY <1>c, <1>f, <1>q, <1>1, <1>2, <1>5, <1>6, <1>7, <1>8

\* The body of the top frame is left in state st, and its frame becomes a wake
\* loop or goes.
Leaves(st) ==
    /\ co' = [co EXCEPT ![Top.id] = st]
    /\ stack' = Pop(stack) \/ stack' = SetTop(stack, NewFrame(Top.id, "wake"))

\* What AfterBody does to the stack and the coroutines.
LEMMA AfterLeaves ==
    ASSUME IInv, StackOk, At("body"), NEW st, AfterBody(st)
    PROVE  Leaves(st)
  <1>1. Len(stack) \in 1 .. Len(stack)
    BY BodyFacts, TopLemma
  <1>2. ~ Top.stale
    BY <1>1 DEF StackOk, BodyInv, Top
  <1> QED
    BY <1>2 DEF AfterBody, Leaves

\* The stack keeps its sources when a body is left.
LEMMA LeaveView ==
    ASSUME IInv, StackOk, At("body"), NEW st, Leaves(st)
    PROVE  /\ \A y : InSnaps(stack', y) <=> InSnaps(stack, y)
           /\ \A y : ~ IsEntering(stack', y)
           /\ \A y : Walking(stack', y) <=> Walking(stack, y)
           /\ UniqueSnaps(stack') /\ BodyInv(stack', co')
           /\ co'[curr_task] = st
           /\ \A y \in TaskIds : y # curr_task => co'[y] = co[y]
           /\ \A k, y : BodyAt(stack', k, y) <=> BodyAt(stack, k, y) /\ k # Len(stack)
  <1>b. /\ stack \in Seq(Frame) /\ stack # <<>> /\ status = "ok"
        /\ Top \in Frame /\ Top.pc = "body" /\ Top.snap = <<>>
        /\ Top.id \in TaskIds /\ curr_task = Top.id
        /\ Len(stack) \in 1 .. Len(stack)
    BY BodyFacts, TopLemma
  <1>i. /\ ShapeOf(stack)
        /\ co \in [TaskIds -> {"none", "fresh", "suspended", "active", "exited", "dead"}]
        /\ UniqueSnaps(stack) /\ BodyInv(stack, co)
    BY DEF IInv, TypeOK, StackOk
  <1> DEFINE t == curr_task
             p == Pop(stack)
             f == NewFrame(t, "wake")
  <1>u. /\ stack' = p \/ stack' = SetTop(stack, f)
        /\ co' = [co EXCEPT ![t] = st]
    BY <1>b DEF Leaves
  <1>f. /\ f \in Frame /\ f.pc = "wake" /\ f.snap = <<>> /\ ~ f.stale
        /\ f.pc \notin Entering /\ f.pc # "all" /\ f.pc # "body"
    BY <1>b, NewFrameLemma, NewFrameFresh, TaskIdLemma DEF PCs, Entering
  <1>q. p \in Seq(Frame) /\ SetTop(stack, f) = Push(p, f)
    BY <1>b, <1>f, SetTopIsPopPush, PopLemma
  <1>c. co'[t] = st /\ \A y \in TaskIds : y # t => co'[y] = co[y]
    BY <1>b, <1>i, <1>u
  <1>1. /\ \A y : InSnaps(stack, y) <=> InSnaps(p, y)
        /\ \A y : ~ IsEntering(p, y)
        /\ \A y : Walking(p, y) <=> Walking(stack, y)
        /\ UniqueSnaps(p)
    BY <1>b, <1>i, EmptyElems, SourcesPop DEF Top
  <1>2. BodyInv(p, co')
    <2>1. /\ BodyInv(p, co)
          /\ \A k \in 1 .. Len(p) : k \in 1 .. Len(stack) /\ p[k] = stack[k]
          /\ \A k \in 1 .. Len(p) : p[k].pc = "body" => p[k].id # t
      BY <1>b, <1>i, BodyPop DEF Top
    <2>2. \A k \in 1 .. Len(p) : p[k].pc = "body" => p[k].id \in TaskIds
      BY <1>i, <2>1 DEF ShapeOf
    <2> HIDE DEF p
    <2> QED
      BY <1>c, <1>q, <2>1, <2>2, BodyOther
  <1>7. \A k, y : BodyAt(p, k, y) <=> BodyAt(stack, k, y) /\ k # Len(stack)
    BY <1>b, BodyAtPop
  <1> HIDE DEF p, f
  <1>3. /\ \A y : InSnaps(Push(p, f), y) <=> InSnaps(p, y)
        /\ \A y : ~ IsEntering(Push(p, f), y)
        /\ \A y : Walking(Push(p, f), y) <=> Walking(p, y)
        /\ UniqueSnaps(Push(p, f))
    BY <1>f, <1>q, <1>1, EmptyElems, SourcesPush
  <1>4. BodyInv(Push(p, f), co')
    BY <1>f, <1>q, <1>2, BodyPush
  <1>8. \A k, y : BodyAt(Push(p, f), k, y) <=> BodyAt(p, k, y)
    BY <1>f, <1>q, BodyAtPush
  <1>5. CASE stack' = p
    BY <1>b, <1>c, <1>u, <1>1, <1>2, <1>5, <1>7
  <1>6. CASE stack' = SetTop(stack, f)
    BY <1>b, <1>c, <1>u, <1>q, <1>1, <1>3, <1>4, <1>6, <1>7, <1>8
  <1> QED
    BY <1>u, <1>5, <1>6

\* The wake loop takes an event: its waiters become the snapshot.
LEMMA TakeView ==
    ASSUME IInv, StackOk, TakeEvent, NEW e, e = pending_wakeup[Top.pos],
           Distinct(waiters[e]), \A y \in Elems(waiters[e]) : ~ InSnaps(stack, y)
    PROVE  /\ e \in Events /\ Top.pos \in 1 .. Len(pending_wakeup)
           /\ waiters'[e] = <<>>
           /\ \A g \in Events : g # e => waiters'[g] = waiters[g]
           /\ \A y : InSnaps(stack', y) <=> InSnaps(stack, y) \/ y \in Elems(waiters[e])
           /\ \A y : ~ IsEntering(stack, y) /\ ~ IsEntering(stack', y)
           /\ \A y : Walking(stack', y) <=> Walking(stack, y)
           /\ UniqueSnaps(stack') /\ BodyInv(stack', co)
           /\ \A k, y : BodyAt(stack', k, y) <=> BodyAt(stack, k, y)
           /\ stack' # <<>> /\ stack'[Len(stack')].pc = "wake"
           /\ stack'[Len(stack')].snap = waiters[e]
           /\ ~ has_wakeup
           /\ \A j \in Nat : WillTake(stack, j) /\ j # Top.pos => WillTake(stack', j)
  <1>b. /\ stack \in Seq(Frame) /\ stack # <<>> /\ status = "ok" /\ ~ has_wakeup
        /\ Top \in Frame /\ Top.pc = "wake" /\ Top.pos \in Nat \ {0} /\ Top.snap = <<>>
        /\ Len(stack) \in 1 .. Len(stack)
        /\ \A k \in 1 .. Len(stack) : stack[k].pc \notin Entering
    BY WakeFacts, TopLemma DEF TakeEvent
  <1>i. /\ ShapeOf(stack) /\ pending_wakeup \in Seq(Events)
        /\ waiters \in [Events -> Seq(TaskIds)]
        /\ UniqueSnaps(stack) /\ BodyInv(stack, co)
    BY DEF IInv, TypeOK, StackOk
  <1> DEFINE p == Pop(stack)
             f == [Top EXCEPT !.pos = Top.pos + 1, !.snap = waiters[e]]
  <1>u. /\ stack' = SetTop(stack, f)
        /\ waiters' = [waiters EXCEPT ![e] = <<>>]
        /\ Top.pos <= Len(pending_wakeup)
    BY DEF TakeEvent
  <1>l. Top.pos \in 1 .. Len(pending_wakeup)
    BY <1>b, <1>i, <1>u
  <1>e. e \in Events
    BY <1>i, <1>l, ElementOfSeq
  <1>f. /\ f \in Frame /\ f.pc = "wake" /\ f.snap = waiters[e] /\ f.stale = Top.stale
        /\ f.pos = Top.pos + 1
    <2>1. waiters[e] \in Seq(TaskIds) /\ Top.pos + 1 \in Nat \ {0}
      BY <1>b, <1>i, <1>e
    <2> QED
      BY <1>b, <2>1 DEF Frame
  <1>g. ~ f.stale
    BY <1>b, <1>i, <1>f DEF BodyInv, Top
  <1> HIDE DEF f
  <1>q. /\ p \in Seq(Frame) /\ stack' = Push(p, f)
        /\ Len(stack') = Len(stack) /\ stack'[Len(stack)] = f /\ stack' # <<>>
    BY <1>b, <1>f, <1>u, SetTopIsPopPush, PopLemma, SetTopLemma
  <1>p. /\ \A y : InSnaps(stack, y) <=> InSnaps(p, y)
        /\ \A y : Walking(p, y) <=> Walking(stack, y)
        /\ UniqueSnaps(p) /\ BodyInv(p, co)
        /\ \A k, y : BodyAt(p, k, y) <=> BodyAt(stack, k, y)
    BY <1>b, <1>i, ReturnView DEF Top
  <1>w. /\ waiters'[e] = <<>> /\ \A g \in Events : g # e => waiters'[g] = waiters[g]
    BY <1>e, <1>i, <1>u
  <1>4. ASSUME NEW j \in Nat, WillTake(stack, j), j # Top.pos
        PROVE  f.pos <= j
    <2>1. Top.pos <= j
      BY <1>b, <1>4, WillTakeTop DEF Top
    <2> QED
      BY <1>b, <1>f, <1>4, <2>1
  <1> HIDE DEF p
  <1>1. BodyInv(Push(p, f), co)
    BY <1>f, <1>g, <1>q, <1>p, BodyPush
  <1>2. /\ \A y : InSnaps(Push(p, f), y) <=> InSnaps(p, y) \/ y \in Elems(waiters[e])
        /\ \A y : ~ IsEntering(Push(p, f), y)
        /\ \A y : Walking(Push(p, f), y) <=> Walking(p, y)
    <2>1. f.pc \notin Entering /\ f.pc # "all"
      BY <1>f DEF Entering
    <2>2. /\ \A y : InSnaps(Push(p, f), y) <=> InSnaps(p, y) \/ y \in Elems(f.snap)
          /\ \A y : ~ IsEntering(Push(p, f), y)
          /\ \A y : Walking(Push(p, f), y) <=> Walking(p, y)
      BY <1>f, <1>q, <2>1, SourcesPush
    <2> QED
      BY <1>f, <2>2
  <1>3. UniqueSnaps(Push(p, f))
    <2>1. Distinct(f.snap) /\ \A y \in Elems(f.snap) : ~ InSnaps(p, y)
      BY <1>f, <1>p
    <2> QED
      BY <1>f, <1>p, <1>q, <2>1, SourcesPush
  <1>5. \A j \in Nat : f.pos <= j => WillTake(Push(p, f), j)
    BY <1>f, <1>q, WakePush
  <1>6. \A k, y : BodyAt(Push(p, f), k, y) <=> BodyAt(p, k, y)
    BY <1>f, <1>q, BodyAtPush
  <1>7. \A y : ~ IsEntering(stack, y)
    BY <1>b DEF IsEntering
  <1> QED
    BY <1>b, <1>e, <1>f, <1>l, <1>p, <1>q, <1>w, <1>1, <1>2, <1>3, <1>4, <1>5, <1>6, <1>7

\* The first element of a list without repetitions is not in the rest.
LEMMA HeadTail ==
    ASSUME NEW q \in Seq(TaskIds), q # <<>>, Distinct(q)
    PROVE  /\ Head(q) \in TaskIds /\ Tail(q) \in Seq(TaskIds)
           /\ Elems(q) = Elems(Tail(q)) \cup {Head(q)}
           /\ Head(q) \notin Elems(Tail(q))
           /\ Distinct(Tail(q))
  <1> DEFINE h == Head(q)
  <1>1. /\ Len(q) \in Nat /\ Len(q) >= 1 /\ Len(Tail(q)) = Len(q) - 1
        /\ \A k \in 1 .. Len(q) - 1 : Tail(q)[k] = q[k + 1]
        /\ h = q[1] /\ h \in TaskIds /\ Tail(q) \in Seq(TaskIds)
    OBVIOUS
  <1> HIDE DEF h
  <1>2. /\ \A k \in 1 .. Len(q) - 1 : k + 1 \in 1 .. Len(q) /\ k + 1 # 1
        /\ \A k \in 1 .. Len(q) : k = 1 \/ (k - 1 \in 1 .. Len(q) - 1 /\ (k - 1) + 1 = k)
        /\ 1 \in 1 .. Len(q)
    BY <1>1
  <1>3. \A k \in 1 .. Len(q) : q[k] = h \/ q[k] \in Elems(Tail(q))
    <2> TAKE k \in 1 .. Len(q)
    <2>1. CASE k = 1
      BY <1>1, <2>1
    <2>2. CASE k # 1
      <3>1. k - 1 \in 1 .. Len(Tail(q)) /\ Tail(q)[k - 1] = q[k]
        BY <1>1, <1>2, <2>2
      <3> QED
        BY <3>1 DEF Elems
    <2> QED
      BY <2>1, <2>2
  <1>4. Elems(Tail(q)) \subseteq Elems(q)
    BY <1>1, <1>2 DEF Elems
  <1>5. h \in Elems(q)
    BY <1>1, <1>2 DEF Elems
  <1>6. Elems(q) = Elems(Tail(q)) \cup {h}
    <2>1. \A y \in Elems(q) : y = h \/ y \in Elems(Tail(q))
      <3>1. \A y \in Elems(q) : \E k \in 1 .. Len(q) : y = q[k]
        BY DEF Elems
      <3> QED
        BY <1>3, <3>1
    <2> QED
      BY <1>4, <1>5, <2>1
  <1>7. h \notin Elems(Tail(q))
    <2>1. \A k \in 1 .. Len(q) - 1 : Tail(q)[k] # h
      BY <1>1, <1>2 DEF Distinct
    <2> QED
      BY <1>1, <2>1 DEF Elems
  <1>8. Distinct(Tail(q))
    <2> SUFFICES ASSUME NEW k \in 1 .. Len(q) - 1, NEW m \in 1 .. Len(q) - 1,
                        Tail(q)[k] = Tail(q)[m]
                 PROVE  k = m
      BY <1>1 DEF Distinct
    <2>1. k + 1 = m + 1
      BY <1>1, <1>2 DEF Distinct
    <2> QED
      BY <1>1, <2>1
  <1> QED
    BY <1>1, <1>6, <1>7, <1>8 DEF h

\* The wake loop wakes a waiter: it leaves the snapshot and is about to be entered.
LEMMA WakeView ==
    ASSUME IInv, StackOk, WakeWaiter, NEW h, h = Head(Top.snap)
    PROVE  /\ h \in TaskIds /\ InSnaps(stack, h) /\ ~ InSnaps(stack', h)
           /\ \A y : y # h => (InSnaps(stack', y) <=> InSnaps(stack, y))
           /\ \A y : ~ IsEntering(stack, y)
           /\ \A y : IsEntering(stack', y) <=> y = h
           /\ \A y : Walking(stack', y) <=> Walking(stack, y)
           /\ UniqueSnaps(stack') /\ BodyInv(stack', co)
           /\ \A k, y : BodyAt(stack', k, y) <=> BodyAt(stack, k, y)
           /\ stack' # <<>> /\ stack'[Len(stack')].pc = "woken"
           /\ stack'[Len(stack')].id = h
           /\ \A j \in Nat : WillTake(stack, j) => WillTake(stack', j)
  <1>b. /\ stack \in Seq(Frame) /\ stack # <<>> /\ status = "ok"
        /\ Top \in Frame /\ Top.pc = "wake" /\ Top.id \in TaskIds
        /\ Top.snap \in Seq(TaskIds) /\ Top.snap # <<>> /\ Top.pos \in Nat
        /\ Len(stack) \in 1 .. Len(stack)
        /\ \A k \in 1 .. Len(stack) : stack[k].pc \notin Entering
    BY WakeFacts, TopLemma DEF WakeWaiter
  <1>i. ShapeOf(stack) /\ UniqueSnaps(stack) /\ BodyInv(stack, co)
    BY DEF IInv, StackOk
  <1> DEFINE q == Top.snap
             p == Pop(stack)
             g == [Top EXCEPT !.snap = Tail(q)]
             f == NewFrame(h, "woken")
             r == SetTop(stack, g)
  <1>u. stack' = Push(r, f)
    BY DEF WakeWaiter
  <1>p. /\ \A y : InSnaps(stack, y) <=> InSnaps(p, y) \/ y \in Elems(q)
        /\ \A y : Walking(p, y) <=> Walking(stack, y)
        /\ UniqueSnaps(p) /\ Distinct(q)
        /\ \A y \in Elems(q) : ~ InSnaps(p, y)
    BY <1>b, <1>i, SourcesPop DEF Top
  <1>t. /\ h \in TaskIds /\ Tail(q) \in Seq(TaskIds)
        /\ Elems(q) = Elems(Tail(q)) \cup {h}
        /\ h \notin Elems(Tail(q)) /\ Distinct(Tail(q))
    BY <1>b, <1>p, HeadTail
  <1>g. /\ g \in Frame /\ g.pc = "wake" /\ g.snap = Tail(q) /\ g.stale = Top.stale
        /\ g.pos = Top.pos
    BY <1>b, <1>t DEF Frame
  <1>a. ~ g.stale
    BY <1>b, <1>g, <1>i DEF BodyInv, Top
  <1>f. /\ f \in Frame /\ f.pc = "woken" /\ f.id = h /\ f.snap = <<>> /\ ~ f.stale
        /\ f.pc \in Entering /\ f.pc # "all" /\ f.pc # "body" /\ f.pc # "wake"
    BY <1>t, NewFrameLemma, NewFrameFresh, TaskIdLemma DEF PCs, Entering
  <1> HIDE DEF f, g
  <1>q. p \in Seq(Frame) /\ r = Push(p, g) /\ r \in Seq(Frame)
    BY <1>b, <1>g, SetTopIsPopPush, PopLemma, SetTopLemma
  <1>o. /\ BodyInv(p, co) /\ \A k, y : BodyAt(p, k, y) <=> BodyAt(stack, k, y)
    <2>1. BodyInv(p, co)
      BY <1>b, <1>i, BodyPop
    <2>2. \A k, y : BodyAt(p, k, y) <=> BodyAt(stack, k, y) /\ k # Len(stack)
      BY <1>b, BodyAtPop
    <2> QED
      BY <1>b, <2>1, <2>2 DEF BodyAt, Top
  <1>j. \A y : ~ IsEntering(stack, y)
    BY <1>b DEF IsEntering
  <1>k. \A j \in Nat : WillTake(stack, j) => g.pos <= j
    BY <1>b, <1>g, WillTakeTop DEF Top
  <1>z. stack' # <<>> /\ stack'[Len(stack')] = f
    <2>1. /\ Len(Push(r, f)) = Len(r) + 1 /\ Push(r, f)[Len(r) + 1] = f /\ Len(r) \in Nat
      BY <1>f, <1>q, PushLemma, LenProperties
    <2> QED
      BY <1>u, <2>1
  <1> HIDE DEF p, r, q
  <1>2. /\ \A y : InSnaps(r, y) <=> InSnaps(p, y) \/ y \in Elems(Tail(q))
        /\ \A y : Walking(r, y) <=> Walking(p, y)
        /\ UniqueSnaps(r) /\ BodyInv(r, co)
        /\ \A k, y : BodyAt(r, k, y) <=> BodyAt(p, k, y)
        /\ \A j \in Nat : g.pos <= j => WillTake(r, j)
    <2>1. g.pc # "all" /\ g.pc # "body"
      BY <1>g
    <2>2. /\ \A y : InSnaps(Push(p, g), y) <=> InSnaps(p, y) \/ y \in Elems(g.snap)
          /\ \A y : Walking(Push(p, g), y) <=> Walking(p, y)
      BY <1>g, <1>q, <2>1, SourcesPush
    <2>3. UniqueSnaps(Push(p, g))
      <3>1. UniqueSnaps(p) /\ Distinct(g.snap) /\ \A y \in Elems(g.snap) : ~ InSnaps(p, y)
        BY <1>g, <1>p, <1>t
      <3>2. g \in Frame /\ p \in Seq(Frame)
        BY <1>g, <1>q
      <3> QED
        BY <3>1, <3>2, SourcesPush
    <2>4. BodyInv(r, co)
      BY <1>a, <1>g, <1>q, <1>o, BodyPush
    <2>5. \A k, y : BodyAt(r, k, y) <=> BodyAt(p, k, y)
      BY <1>g, <1>q, <2>1, BodyAtPush
    <2>6. \A j \in Nat : g.pos <= j => WillTake(r, j)
      BY <1>g, <1>q, WakePush
    <2> QED
      BY <1>g, <1>q, <2>2, <2>3, <2>4, <2>5, <2>6
  <1>3. /\ \A y : InSnaps(stack', y) <=> InSnaps(r, y)
        /\ \A y : IsEntering(stack', y) <=> y = h
        /\ \A y : Walking(stack', y) <=> Walking(r, y)
        /\ UniqueSnaps(stack') /\ BodyInv(stack', co)
        /\ \A k, y : BodyAt(stack', k, y) <=> BodyAt(r, k, y)
        /\ \A j \in Nat : WillTake(r, j) => WillTake(stack', j)
    BY <1>f, <1>q, <1>u, <1>2, CallView
  <1>4. InSnaps(stack, h) /\ ~ InSnaps(stack', h)
    BY <1>p, <1>t, <1>2, <1>3
  <1>5. \A y : y # h => (InSnaps(stack', y) <=> InSnaps(stack, y))
    BY <1>p, <1>t, <1>2, <1>3
  <1> QED
    BY <1>f, <1>j, <1>k, <1>o, <1>p, <1>t, <1>z, <1>2, <1>3, <1>4, <1>5

----------------------------------------------------------------------------
(* One lemma per action *)

\* The invariant, while the simulation goes on.
LEMMA WakeOk ==
    ASSUME WakeInv, status = "ok"
    PROVE  /\ SourceInv(cbs, waiters, stack, co)
           /\ BodyInv(stack, co) /\ StackOk
           /\ TableInv(running, archived, pending, co)
           /\ FiredInv(running \ fired, cbs, waiters, stack, co)
           /\ removed = {} /\ nr_removed = 0
  BY DEF WakeInv, StackOk, SourceInv

\* A step that keeps the sources, the coroutines and the tables.
LEMMA SameWake ==
    ASSUME WakeInv, status = "ok", UNCHANGED <<taskVars, pending, removed, nr_removed>>,
           UNCHANGED <<cbs, waiters, stack, co, status>>
    PROVE  WakeInv'
  BY DEF WakeInv, taskVars

\* The task that is about to be entered is suspended or has not begun, nothing
\* else will resume it, and it is not among the ended tasks.
LEMMA EnteringTask ==
    ASSUME IInv, WakeInv, \E pc \in Entering : At(pc)
    PROVE  /\ IsEntering(stack, Top.id)
           /\ co[Top.id] \in {"suspended", "fresh"}
           /\ cbs[Top.id] = 0 /\ ~ InWaiters(waiters, Top.id) /\ ~ InSnaps(stack, Top.id)
           /\ Top.id \in running /\ Top.id \notin Elems(pending)
  <1>b. /\ stack # <<>> /\ status = "ok" /\ Top.pc \in Entering /\ Top.id \in TaskIds
    BY EnterFacts
  <1>1. IsEntering(stack, Top.id)
    BY <1>b DEF IsEntering, Top
  <1>2. SourceOf(cbs, waiters, stack, co, Top.id)
    BY <1>b, WakeOk DEF SourceInv
  <1>3. co[Top.id] \in {"suspended", "fresh"}
    BY <1>1, <1>2 DEF SourceOf, Sourced
  <1>4. cbs[Top.id] = 0 /\ ~ InWaiters(waiters, Top.id) /\ ~ InSnaps(stack, Top.id)
    BY <1>1, <1>2 DEF SourceOf, OneSource
  <1>5. Top.id \in running \ Elems(pending)
    BY <1>b, <1>3, WakeOk DEF TableInv, Live
  <1> QED
    BY <1>1, <1>3, <1>4, <1>5

\* schedule_task enters the coroutine.
LEMMA ResumeWake ==
    ASSUME IInv, WakeInv, Resume
    PROVE  WakeInv'
  <1> DEFINE t == Top.id
  <1>b. status = "ok" /\ t \in TaskIds
    BY EnterFacts DEF Resume
  <1>k. /\ SourceInv(cbs, waiters, stack, co)
        /\ TableInv(running, archived, pending, co)
        /\ FiredInv(running \ fired, cbs, waiters, stack, co)
        /\ removed = {} /\ nr_removed = 0 /\ StackOk
    BY <1>b, WakeOk
  <1>e. /\ co[t] \in {"suspended", "fresh"}
        /\ cbs[t] = 0 /\ ~ InWaiters(waiters, t) /\ ~ InSnaps(stack, t)
        /\ IsEntering(stack, t) /\ t \in running /\ t \notin Elems(pending)
    BY EnteringTask DEF Resume
  <1>u. /\ status' = status /\ cbs' = cbs /\ waiters' = waiters /\ pending' = <<>>
        /\ removed' = removed /\ nr_removed' = nr_removed /\ archived' = archived
        /\ running' = running \ Elems(pending) /\ fired' = fired \ Elems(pending)
    BY DEF Resume, outerVars, eventVars, ForgetEnded
  <1>s. /\ \A y : InSnaps(stack', y) <=> InSnaps(stack, y)
        /\ \A y : ~ IsEntering(stack', y)
        /\ \A y : Walking(stack', y) <=> Walking(stack, y)
        /\ UniqueSnaps(stack') /\ BodyInv(stack', co')
        /\ co'[t] = "active" /\ \A y \in TaskIds : y # t => co'[y] = co[y]
    BY <1>k, ResumeView
  <1>n. \A y : y # t => ~ IsEntering(stack, y)
    BY DEF IsEntering, Top
  <1> HIDE DEF t
  <1>2. SourceInv(cbs, waiters, stack', co')
    <2> SUFFICES ASSUME NEW y \in TaskIds PROVE SourceOf(cbs, waiters, stack', co', y)
      BY <1>k, <1>s DEF SourceInv
    <2>1. SourceOf(cbs, waiters, stack, co, y)
      BY <1>k DEF SourceInv
    <2>2. CASE y = t
      BY <1>e, <1>s, <2>2 DEF SourceOf, OneSource, Sourced
    <2>3. CASE y # t
      BY <1>n, <1>s, <2>1, <2>3 DEF SourceOf, OneSource, Sourced
    <2> QED
      BY <2>2, <2>3
  <1>3. TableInv(running \ Elems(pending), archived, <<>>, co')
    BY <1>b, <1>e, <1>k, <1>s, EmptyElems DEF TableInv, Live
  <1>4. FiredInv((running \ Elems(pending)) \ (fired \ Elems(pending)), cbs, waiters, stack', co')
    <2> SUFFICES ASSUME NEW y \in running \ fired
                 PROVE  \/ co'[y] = "fresh" /\ ~ Sourced(cbs, waiters, stack', y)
                        \/ Walking(stack', y)
      BY DEF FiredInv
    <2>0. y \in TaskIds
      BY DEF IInv, TypeOK
    <2>1. CASE Walking(stack, y)
      BY <1>s, <2>1
    <2>2. CASE co[y] = "fresh" /\ ~ Sourced(cbs, waiters, stack, y)
      <3>1. y # t
        BY <1>e, <2>2 DEF Sourced
      <3> QED
        BY <1>s, <2>0, <2>2, <3>1 DEF Sourced
    <2> QED
      BY <1>k, <2>1, <2>2 DEF FiredInv
  <1> QED
    BY <1>b, <1>k, <1>u, <1>s, <1>2, <1>3, <1>4 DEF WakeInv

\* No coroutine is resumed that cannot be.
LEMMA ResumeFailsNever ==
    ASSUME IInv, WakeInv, ResumeFails
    PROVE  FALSE
  <1>1. co[Top.id] \in {"suspended", "fresh"}
    BY EnteringTask DEF ResumeFails
  <1> QED
    BY <1>1 DEF ResumeFails, Resumable

\* No task is skipped.
LEMMA SkipRemovedNever ==
    ASSUME WakeInv, SkipRemoved
    PROVE  FALSE
  BY DEF WakeInv, SkipRemoved, At

\* What holds while a body runs: its task is active, and nothing resumes it.
LEMMA RunningTask ==
    ASSUME IInv, WakeInv, At("body")
    PROVE  /\ curr_task \in TaskIds /\ co[curr_task] = "active"
           /\ cbs[curr_task] = 0 /\ ~ InWaiters(waiters, curr_task)
           /\ ~ InSnaps(stack, curr_task)
           /\ \A y : ~ IsEntering(stack, y)
           /\ curr_task \in running /\ curr_task \notin Elems(pending)
  <1>b. /\ stack \in Seq(Frame) /\ stack # <<>> /\ status = "ok"
        /\ Top.pc = "body" /\ Top.id \in TaskIds /\ curr_task = Top.id
        /\ Len(stack) \in 1 .. Len(stack)
    BY BodyFacts, TopLemma
  <1>1. co[curr_task] = "active"
    BY <1>b, WakeOk DEF BodyInv, Top
  <1>2. SourceOf(cbs, waiters, stack, co, curr_task)
    BY <1>b, WakeOk DEF SourceInv
  <1>3. ~ Sourced(cbs, waiters, stack, curr_task)
    BY <1>1, <1>2 DEF SourceOf
  <1>4. \A y : ~ IsEntering(stack, y)
    BY <1>b DEF IsEntering, Entering, Top
  <1>5. curr_task \in running \ Elems(pending)
    BY <1>b, <1>1, WakeOk DEF TableInv, Live
  <1> QED
    BY <1>b, <1>1, <1>3, <1>4, <1>5 DEF Sourced

\* The body is left: its task gets the state st, and the stack keeps its sources.
LEMMA LeaveBody ==
    ASSUME IInv, WakeInv, At("body"), NEW st, AfterBody(st)
    PROVE  /\ \A y : InSnaps(stack', y) <=> InSnaps(stack, y)
           /\ \A y : ~ IsEntering(stack', y)
           /\ \A y : Walking(stack', y) <=> Walking(stack, y)
           /\ UniqueSnaps(stack')
           /\ co'[curr_task] = st
           /\ \A y \in TaskIds : y # curr_task => co'[y] = co[y]
           /\ BodyInv(stack', co')
           /\ UNCHANGED <<running, archived, fired, removed, nr_removed, status>>
           /\ status = "ok"
  <1>1. status = "ok" /\ StackOk
    BY WakeOk DEF At
  <1>2. Leaves(st)
    BY <1>1, AfterLeaves
  <1>3. UNCHANGED <<running, archived, fired, removed, nr_removed, status>>
    BY DEF AfterBody, taskVars, outerVars
  <1> QED
    BY <1>1, <1>2, <1>3, LeaveView

\* What the other tasks keep when a body is left, whatever its task registered.
LEMMA LeaveOthers ==
    ASSUME IInv, WakeInv, At("body"), NEW st, AfterBody(st), NEW y \in TaskIds,
           y # curr_task, cbs'[y] = cbs[y],
           InWaiters(waiters', y) <=> InWaiters(waiters, y)
    PROVE  /\ SourceOf(cbs', waiters', stack', co', y)
           /\ Sourced(cbs', waiters', stack', y) <=> Sourced(cbs, waiters, stack, y)
  <1>1. SourceOf(cbs, waiters, stack, co, y)
    BY WakeOk DEF SourceInv, At
  <1>2. ~ IsEntering(stack, y)
    BY RunningTask
  <1>3. /\ InSnaps(stack', y) <=> InSnaps(stack, y)
        /\ ~ IsEntering(stack', y)
        /\ co'[y] = co[y]
    BY LeaveBody
  <1> QED
    BY <1>1, <1>2, <1>3 DEF SourceOf, OneSource, Sourced

\* Leaving a body leaves the tasks that have not fired as they are.
LEMMA LeaveFired ==
    ASSUME IInv, WakeInv, At("body"), NEW st, AfterBody(st),
           \A y \in TaskIds : y # curr_task =>
              cbs'[y] = cbs[y] /\ (InWaiters(waiters', y) <=> InWaiters(waiters, y))
    PROVE  FiredInv(running' \ fired', cbs', waiters', stack', co')
  <1>1. /\ running' = running /\ fired' = fired
        /\ \A y : Walking(stack', y) <=> Walking(stack, y)
        /\ \A y \in TaskIds : y # curr_task => co'[y] = co[y]
    BY LeaveBody
  <1> SUFFICES ASSUME NEW y \in running \ fired
               PROVE  \/ co'[y] = "fresh" /\ ~ Sourced(cbs', waiters', stack', y)
                      \/ Walking(stack', y)
    BY <1>1 DEF FiredInv
  <1>2. y \in TaskIds
    BY DEF IInv, TypeOK
  <1>3. CASE Walking(stack, y)
    BY <1>1, <1>3
  <1>4. CASE co[y] = "fresh" /\ ~ Sourced(cbs, waiters, stack, y)
    <2>1. y # curr_task
      BY <1>4, RunningTask
    <2>2. Sourced(cbs', waiters', stack', y) <=> Sourced(cbs, waiters, stack, y)
      BY <1>2, <2>1, LeaveOthers
    <2> QED
      BY <1>1, <1>2, <1>4, <2>1, <2>2
  <1> QED
    BY <1>3, <1>4, WakeOk DEF FiredInv, At

\* The body awaits a callback.
LEMMA AwaitCallbackWake ==
    ASSUME IInv, WakeInv, AwaitCallback
    PROVE  WakeInv'
  <1>b. /\ At("body") /\ AfterBody("suspended") /\ status = "ok"
        /\ waiters' = waiters /\ pending' = pending
        /\ cbs' = [cbs EXCEPT ![curr_task] = @ + 1]
    BY DEF AwaitCallback, InBody, Yield, At
  <1>t. /\ curr_task \in TaskIds /\ co[curr_task] = "active"
        /\ cbs[curr_task] = 0 /\ ~ InWaiters(waiters, curr_task)
        /\ ~ InSnaps(stack, curr_task)
        /\ curr_task \in running /\ curr_task \notin Elems(pending)
    BY <1>b, RunningTask
  <1>i. cbs \in [TaskIds -> Nat]
    BY DEF IInv, TypeOK
  <1>c. cbs'[curr_task] = 1 /\ \A y \in TaskIds : y # curr_task => cbs'[y] = cbs[y]
    BY <1>b, <1>t, <1>i
  <1>l. /\ \A y : InSnaps(stack', y) <=> InSnaps(stack, y)
        /\ \A y : ~ IsEntering(stack', y)
        /\ UniqueSnaps(stack')
        /\ co'[curr_task] = "suspended"
        /\ \A y \in TaskIds : y # curr_task => co'[y] = co[y]
        /\ BodyInv(stack', co')
        /\ UNCHANGED <<running, archived, fired, removed, nr_removed, status>>
    BY <1>b, LeaveBody
  <1>k. /\ SourceInv(cbs, waiters, stack, co)
        /\ TableInv(running, archived, pending, co)
        /\ removed = {} /\ nr_removed = 0
    BY <1>b, WakeOk
  <1>1. ASSUME NEW y \in TaskIds PROVE SourceOf(cbs', waiters', stack', co', y)
    <2>1. CASE y = curr_task
      <3>1. ~ InWaiters(waiters', y) /\ ~ InSnaps(stack', y) /\ ~ IsEntering(stack', y)
        BY <1>b, <1>l, <1>t, <2>1
      <3> QED
        BY <1>c, <1>l, <2>1, <3>1 DEF SourceOf, OneSource, Sourced
    <2>2. CASE y # curr_task
      BY <1>b, <1>c, <2>2, LeaveOthers
    <2> QED
      BY <2>1, <2>2
  <1>2. SourceInv(cbs', waiters', stack', co')
    BY <1>b, <1>k, <1>l, <1>1 DEF SourceInv
  <1>3. TableInv(running', archived', pending', co')
    BY <1>b, <1>k, <1>l, <1>t DEF TableInv, Live
  <1>4. FiredInv(running' \ fired', cbs', waiters', stack', co')
    BY <1>b, <1>c, LeaveFired
  <1> QED
    BY <1>b, <1>k, <1>l, <1>2, <1>3, <1>4 DEF WakeInv

\* The body waits for an event.
LEMMA WaitEventWake ==
    ASSUME IInv, WakeInv, NEW e \in Events, WaitEvent(e)
    PROVE  WakeInv'
  <1> DEFINE t == curr_task
  <1>b. /\ At("body") /\ AfterBody("suspended") /\ status = "ok"
        /\ cbs' = cbs /\ pending' = pending
        /\ waiters' = [waiters EXCEPT ![e] = Append(@, t)]
    BY DEF WaitEvent, InBody, Yield, At, RegisterEvent
  <1>t. /\ t \in TaskIds /\ co[t] = "active"
        /\ cbs[t] = 0 /\ ~ InWaiters(waiters, t)
        /\ ~ InSnaps(stack, t)
        /\ t \in running /\ t \notin Elems(pending)
    BY <1>b, RunningTask
  <1>i. waiters \in [Events -> Seq(TaskIds)]
    BY DEF IInv, TypeOK
  <1>l. /\ \A y : InSnaps(stack', y) <=> InSnaps(stack, y)
        /\ \A y : ~ IsEntering(stack', y)
        /\ UniqueSnaps(stack')
        /\ co'[t] = "suspended"
        /\ \A y \in TaskIds : y # t => co'[y] = co[y]
        /\ BodyInv(stack', co')
        /\ UNCHANGED <<running, archived, fired, removed, nr_removed, status>>
    BY <1>b, LeaveBody
  <1>k. /\ SourceInv(cbs, waiters, stack, co)
        /\ TableInv(running, archived, pending, co)
        /\ removed = {} /\ nr_removed = 0
    BY <1>b, WakeOk
  <1>w. /\ waiters'[e] = Append(waiters[e], t)
        /\ \A g \in Events : g # e => waiters'[g] = waiters[g]
    BY <1>b, <1>i
  <1> HIDE DEF t
  <1>n. /\ UniqueWaiters(waiters')
        /\ \A y : InWaiters(waiters', y) <=> InWaiters(waiters, y) \/ y = t
    BY <1>i, <1>k, <1>t, <1>w, AppendUnique DEF SourceInv
  <1>1. ASSUME NEW y \in TaskIds PROVE SourceOf(cbs', waiters', stack', co', y)
    <2>1. CASE y = t
      <3>1. /\ InWaiters(waiters', y) /\ ~ InSnaps(stack', y) /\ ~ IsEntering(stack', y)
            /\ cbs'[y] = 0
        BY <1>b, <1>l, <1>n, <1>t, <2>1
      <3> QED
        BY <1>l, <2>1, <3>1 DEF SourceOf, OneSource, Sourced
    <2>2. CASE y # t
      BY <1>b, <1>n, <2>2, LeaveOthers DEF t
    <2> QED
      BY <2>1, <2>2
  <1>3. SourceInv(cbs', waiters', stack', co')
    BY <1>l, <1>n, <1>1 DEF SourceInv
  <1>4. TableInv(running', archived', pending', co')
    BY <1>b, <1>k, <1>l, <1>t DEF TableInv, Live
  <1>5. FiredInv(running' \ fired', cbs', waiters', stack', co')
    BY <1>b, <1>n, LeaveFired DEF t
  <1> QED
    BY <1>b, <1>k, <1>l, <1>3, <1>4, <1>5 DEF WakeInv

\* The body returns, or leaves through exit_task.
LEMMA EndWake ==
    ASSUME IInv, WakeInv, At("body"), NEW st \in {"dead", "exited"}, End(st)
    PROVE  WakeInv'
  <1> DEFINE t == curr_task
  <1>b. /\ AfterBody(st) /\ status = "ok" /\ cbs' = cbs /\ waiters' = waiters
        /\ pending' = Append(pending, t)
    BY BodyFacts DEF End, At
  <1>t. /\ t \in TaskIds /\ co[t] = "active"
        /\ cbs[t] = 0 /\ ~ InWaiters(waiters, t)
        /\ ~ InSnaps(stack, t)
        /\ t \in running /\ t \notin Elems(pending)
    BY RunningTask
  <1>i. pending \in Seq(TaskIds)
    BY DEF IInv, TypeOK
  <1>l. /\ \A y : InSnaps(stack', y) <=> InSnaps(stack, y)
        /\ \A y : ~ IsEntering(stack', y)
        /\ UniqueSnaps(stack')
        /\ co'[t] = st
        /\ \A y \in TaskIds : y # t => co'[y] = co[y]
        /\ BodyInv(stack', co')
        /\ UNCHANGED <<running, archived, fired, removed, nr_removed, status>>
    BY <1>b, LeaveBody
  <1>k. /\ SourceInv(cbs, waiters, stack, co)
        /\ TableInv(running, archived, pending, co)
        /\ removed = {} /\ nr_removed = 0
    BY <1>b, WakeOk
  <1> HIDE DEF t
  <1>1. ASSUME NEW y \in TaskIds PROVE SourceOf(cbs', waiters', stack', co', y)
    <2>1. CASE y = t
      <3>1. ~ Sourced(cbs', waiters', stack', y)
        BY <1>b, <1>l, <1>t, <2>1 DEF Sourced
      <3> QED
        BY <1>b, <1>l, <1>t, <2>1, <3>1 DEF SourceOf, OneSource, Sourced
    <2>2. CASE y # t
      BY <1>b, <2>2, LeaveOthers DEF t
    <2> QED
      BY <2>1, <2>2
  <1>2. SourceInv(cbs', waiters', stack', co')
    BY <1>b, <1>k, <1>l, <1>1 DEF SourceInv
  <1>3. TableInv(running', archived', pending', co')
    <2>1. Elems(pending') = Elems(pending) \cup {t}
      BY <1>b, <1>i, <1>t, ElemsLemma
    <2>2. Distinct(pending')
      <3>1. /\ Len(pending) \in Nat /\ Len(pending') = Len(pending) + 1
            /\ pending'[Len(pending) + 1] = t
            /\ \A k \in 1 .. Len(pending) : pending'[k] = pending[k] /\ pending[k] # t
        <4>1. \A k \in 1 .. Len(pending) : pending[k] # t
          BY <1>t DEF Elems
        <4> QED
          BY <1>b, <1>i, <1>t, <4>1
      <3>2. \A k \in 1 .. Len(pending) + 1 : k \in 1 .. Len(pending) \/ k = Len(pending) + 1
        BY <3>1
      <3>3. Distinct(pending)
        BY <1>k DEF TableInv
      <3> SUFFICES ASSUME NEW k \in 1 .. Len(pending) + 1, NEW m \in 1 .. Len(pending) + 1,
                          pending'[k] = pending'[m]
                   PROVE  k = m
        BY <3>1 DEF Distinct
      <3>4. CASE k \in 1 .. Len(pending) /\ m \in 1 .. Len(pending)
        BY <3>1, <3>3, <3>4 DEF Distinct
      <3>5. CASE k = Len(pending) + 1 \/ m = Len(pending) + 1
        BY <3>1, <3>2, <3>5
      <3> QED
        BY <3>2, <3>4, <3>5
    <2>3. ASSUME NEW y \in TaskIds
          PROVE  y \in running' \ Elems(pending') <=> co'[y] \in Live
      BY <1>k, <1>l, <2>1 DEF TableInv, Live
    <2> QED
      BY <1>k, <1>l, <1>t, <2>1, <2>2, <2>3 DEF TableInv
  <1>4. FiredInv(running' \ fired', cbs', waiters', stack', co')
    BY <1>b, LeaveFired
  <1> QED
    BY <1>b, <1>k, <1>l, <1>2, <1>3, <1>4 DEF WakeInv

\* A step that moves sources from one place to another.
LEMMA MovedWake ==
    ASSUME IInv, WakeInv, status = "ok", UniqueWaiters(waiters'), UniqueSnaps(stack'),
           BodyInv(stack', co),
           UNCHANGED <<running, archived, fired, pending, removed, nr_removed, co, status>>,
           \A y \in TaskIds :
             /\ OneSource(cbs', waiters', stack', y)
             /\ Sourced(cbs', waiters', stack', y) <=> Sourced(cbs, waiters, stack, y)
             /\ Walking(stack, y) => Walking(stack', y)
    PROVE  WakeInv'
  <1>k. /\ SourceInv(cbs, waiters, stack, co)
        /\ TableInv(running, archived, pending, co)
        /\ FiredInv(running \ fired, cbs, waiters, stack, co)
        /\ removed = {} /\ nr_removed = 0
    BY WakeOk
  <1>1. SourceInv(cbs', waiters', stack', co)
    BY <1>k DEF SourceInv, SourceOf
  <1>2. FiredInv(running \ fired, cbs', waiters', stack', co)
    <2>1. running \subseteq TaskIds
      BY DEF IInv, TypeOK
    <2> QED
      BY <1>k, <2>1 DEF FiredInv
  <1> QED
    BY <1>k, <1>1, <1>2 DEF WakeInv

\* The loop takes an event: its waiters become the snapshot.
LEMMA TakeEventWake ==
    ASSUME IInv, WakeInv, TakeEvent
    PROVE  WakeInv'
  <1> DEFINE e == pending_wakeup[Top.pos]
  <1>b. status = "ok"
    BY DEF TakeEvent, At
  <1>k. /\ SourceInv(cbs, waiters, stack, co) /\ StackOk /\ UniqueWaiters(waiters)
    BY <1>b, WakeOk DEF SourceInv
  <1>u. /\ cbs' = cbs
        /\ UNCHANGED <<running, archived, fired, pending, removed, nr_removed, co, status>>
    BY DEF TakeEvent, taskVars, removalVars, outerVars
  <1>e. /\ e \in Events /\ Elems(waiters[e]) \subseteq TaskIds
    <2>1. e \in Events
      <3>1. Top.pos \in 1 .. Len(pending_wakeup)
        BY WakeFacts DEF TakeEvent, IInv, TypeOK
      <3> QED
        BY <3>1, ElementOfSeq DEF IInv, TypeOK
    <2>2. waiters[e] \in Seq(TaskIds)
      BY <2>1 DEF IInv, TypeOK
    <2> QED
      BY <2>1, <2>2 DEF Elems
  <1> HIDE DEF e
  <1>d. \A y \in Elems(waiters[e]) : ~ InSnaps(stack, y) /\ cbs[y] = 0
    BY <1>e, <1>k DEF SourceInv, SourceOf, OneSource, InWaiters
  <1>f. Distinct(waiters[e])
    BY <1>e, <1>k DEF UniqueWaiters, Distinct
  <1>6. /\ waiters'[e] = <<>> /\ \A g \in Events : g # e => waiters'[g] = waiters[g]
        /\ \A y : InSnaps(stack', y) <=> InSnaps(stack, y) \/ y \in Elems(waiters[e])
        /\ \A y : ~ IsEntering(stack, y) /\ ~ IsEntering(stack', y)
        /\ \A y : Walking(stack', y) <=> Walking(stack, y)
        /\ UniqueSnaps(stack') /\ BodyInv(stack', co)
    BY <1>d, <1>f, <1>k, TakeView DEF e
  <1>3. /\ UniqueWaiters(waiters')
        /\ \A y : InWaiters(waiters, y) <=> InWaiters(waiters', y) \/ y \in Elems(waiters[e])
        /\ \A y \in Elems(waiters[e]) : ~ InWaiters(waiters', y)
    BY <1>e, <1>k, <1>6, TakeUnique
  <1>8. ASSUME NEW y \in TaskIds
        PROVE  /\ OneSource(cbs', waiters', stack', y)
               /\ Sourced(cbs', waiters', stack', y) <=> Sourced(cbs, waiters, stack, y)
    <2>1. OneSource(cbs, waiters, stack, y)
      BY <1>k DEF SourceInv, SourceOf
    <2>2. CASE y \in Elems(waiters[e])
      BY <1>d, <1>u, <1>3, <1>6, <2>1, <2>2 DEF OneSource, Sourced
    <2>3. CASE y \notin Elems(waiters[e])
      BY <1>u, <1>3, <1>6, <2>1, <2>3 DEF OneSource, Sourced
    <2> QED
      BY <2>2, <2>3
  <1> QED
    BY <1>b, <1>u, <1>3, <1>6, <1>8, MovedWake

\* The loop wakes a waiter: it leaves the snapshot and is about to be entered.
LEMMA WakeWaiterWake ==
    ASSUME IInv, WakeInv, WakeWaiter
    PROVE  WakeInv'
  <1> DEFINE h == Head(Top.snap)
  <1>b. status = "ok"
    BY DEF WakeWaiter, At
  <1>k. SourceInv(cbs, waiters, stack, co) /\ StackOk
    BY <1>b, WakeOk
  <1>u. /\ cbs' = cbs /\ waiters' = waiters
        /\ UNCHANGED <<running, archived, fired, pending, removed, nr_removed, co, status>>
    BY DEF WakeWaiter, taskVars, removalVars, outerVars, eventVars
  <1>3. /\ InSnaps(stack, h) /\ ~ InSnaps(stack', h)
        /\ \A y : y # h => (InSnaps(stack', y) <=> InSnaps(stack, y))
        /\ \A y : ~ IsEntering(stack, y) /\ (IsEntering(stack', y) <=> y = h)
        /\ \A y : Walking(stack', y) <=> Walking(stack, y)
        /\ UniqueSnaps(stack') /\ BodyInv(stack', co)
    BY <1>k, WakeView
  <1> HIDE DEF h
  <1>6. ASSUME NEW y \in TaskIds
        PROVE  /\ OneSource(cbs', waiters', stack', y)
               /\ Sourced(cbs', waiters', stack', y) <=> Sourced(cbs, waiters, stack, y)
    <2>1. OneSource(cbs, waiters, stack, y)
      BY <1>k DEF SourceInv, SourceOf
    <2>2. CASE y = h
      BY <1>u, <1>3, <2>1, <2>2 DEF OneSource, Sourced
    <2>3. CASE y # h
      BY <1>u, <1>3, <2>1, <2>3 DEF OneSource, Sourced
    <2> QED
      BY <2>2, <2>3
  <1>7. UniqueWaiters(waiters')
    BY <1>k, <1>u DEF SourceInv
  <1> QED
    BY <1>b, <1>u, <1>3, <1>6, <1>7, MovedWake

\* The loop ends.
LEMMA WakeDoneWake ==
    ASSUME IInv, WakeInv, WakeDone
    PROVE  WakeInv'
  <1>b. /\ stack \in Seq(Frame) /\ stack # <<>> /\ status = "ok"
        /\ Top.pc = "wake" /\ Top.snap = <<>>
        /\ Len(stack) \in 1 .. Len(stack)
        /\ \A k \in 1 .. Len(stack) : stack[k].pc \notin Entering
    BY WakeFacts, TopLemma DEF WakeDone
  <1>i. ShapeOf(stack)
    BY DEF IInv
  <1>k. SourceInv(cbs, waiters, stack, co) /\ BodyInv(stack, co)
    BY <1>b, WakeOk
  <1>u. /\ stack' = Pop(stack) /\ cbs' = cbs /\ waiters' = waiters
        /\ UNCHANGED <<running, archived, fired, pending, removed, nr_removed, co, status>>
    BY DEF WakeDone, taskVars, removalVars, outerVars, eventVars
  <1>1. /\ \A y : InSnaps(stack, y) <=> InSnaps(stack', y)
        /\ \A y : Walking(stack', y) <=> Walking(stack, y)
        /\ \A y : ~ IsEntering(stack', y)
        /\ UniqueSnaps(stack') /\ BodyInv(stack', co)
    BY <1>b, <1>i, <1>k, <1>u, ReturnView DEF Top, SourceInv
  <1>2. \A y : ~ IsEntering(stack, y)
    BY <1>b DEF IsEntering
  <1>4. ASSUME NEW y \in TaskIds
        PROVE  /\ OneSource(cbs', waiters', stack', y)
               /\ Sourced(cbs', waiters', stack', y) <=> Sourced(cbs, waiters, stack, y)
    BY <1>k, <1>u, <1>1, <1>2 DEF OneSource, Sourced, SourceInv, SourceOf
  <1>5. UniqueWaiters(waiters')
    BY <1>k, <1>u DEF SourceInv
  <1> QED
    BY <1>b, <1>u, <1>1, <1>4, <1>5, MovedWake

\* verilua_init calls schedule_all_tasks.
LEMMA StartCallbackWake ==
    ASSUME IInv, WakeInv, StartCallback
    PROVE  WakeInv'
  <1> DEFINE f == NewFrame(NULL_TASK_ID, "all")
  <1>u. /\ status = "ok" /\ stack = <<>> /\ stack' = <<f>>
        /\ cbs' = cbs /\ waiters' = waiters
        /\ UNCHANGED <<running, archived, fired, pending, removed, nr_removed, co, status>>
    BY DEF StartCallback, taskVars, removalVars, eventVars
  <1>k. SourceInv(cbs, waiters, stack, co) /\ BodyInv(stack, co)
    BY <1>u, WakeOk
  <1>f. /\ f \in Frame /\ f.pc = "all" /\ f.snap = <<>> /\ ~ f.stale
        /\ f.pc \notin Entering /\ f.pc # "body" /\ f.pc # "wake"
    <2>1. NULL_TASK_ID \in 0 .. MaxTaskId
      BY ConstantsAssumption DEF NULL_TASK_ID
    <2> QED
      BY <2>1, NewFrameLemma, NewFrameFresh DEF PCs, Entering
  <1> HIDE DEF f
  <1>q. stack' = Push(stack, f) /\ stack \in Seq(Frame)
    BY <1>u DEF Push
  <1>2. /\ \A y : InSnaps(stack', y) <=> InSnaps(stack, y)
        /\ \A y : ~ IsEntering(stack', y)
        /\ UniqueSnaps(stack') /\ BodyInv(stack', co)
    BY <1>f, <1>k, <1>q, CallView DEF SourceInv
  <1>4. \A y : ~ IsEntering(stack, y) /\ ~ Walking(stack, y)
    BY <1>u, SourcesEmpty
  <1>5. ASSUME NEW y \in TaskIds
        PROVE  /\ OneSource(cbs', waiters', stack', y)
               /\ Sourced(cbs', waiters', stack', y) <=> Sourced(cbs, waiters, stack, y)
    BY <1>k, <1>u, <1>2, <1>4 DEF OneSource, Sourced, SourceInv, SourceOf
  <1>6. UniqueWaiters(waiters')
    BY <1>k, <1>u DEF SourceInv
  <1> QED
    BY <1>u, <1>2, <1>4, <1>5, <1>6, MovedWake

\* A callback fires: the task is about to be entered.
LEMMA SimEventWake ==
    ASSUME IInv, WakeInv, NEW t \in TaskIds, SimEvent(t)
    PROVE  WakeInv'
  <1> DEFINE f == NewFrame(t, "resume")
  <1>u. /\ status = "ok" /\ stack = <<>> /\ stack' = <<f>> /\ cbs[t] > 0
        /\ cbs' = [cbs EXCEPT ![t] = @ - 1] /\ waiters' = waiters
        /\ UNCHANGED <<running, archived, fired, pending, removed, nr_removed, co, status>>
    BY DEF SimEvent, taskVars, removalVars, eventVars, outerVars
  <1>k. SourceInv(cbs, waiters, stack, co) /\ BodyInv(stack, co)
    BY <1>u, WakeOk
  <1>f. /\ f \in Frame /\ f.pc = "resume" /\ f.snap = <<>> /\ ~ f.stale /\ f.id = t
        /\ f.pc \in Entering /\ f.pc # "body" /\ f.pc # "all" /\ f.pc # "wake"
    BY NewFrameLemma, NewFrameFresh, TaskIdLemma DEF PCs, Entering
  <1> HIDE DEF f
  <1>q. stack' = Push(stack, f) /\ stack \in Seq(Frame)
    BY <1>u DEF Push
  <1>2. /\ \A y : InSnaps(stack', y) <=> InSnaps(stack, y)
        /\ \A y : IsEntering(stack', y) <=> y = t
        /\ UniqueSnaps(stack') /\ BodyInv(stack', co)
    BY <1>f, <1>k, <1>q, CallView DEF SourceInv
  <1>4. \A y : ~ IsEntering(stack, y) /\ ~ Walking(stack, y) /\ ~ InSnaps(stack, y)
    BY <1>u, SourcesEmpty
  <1>5. cbs[t] = 1 /\ ~ InWaiters(waiters, t)
    BY <1>k, <1>u DEF SourceInv, SourceOf, OneSource
  <1>c. cbs'[t] = 0 /\ \A y \in TaskIds : y # t => cbs'[y] = cbs[y]
    <2>1. cbs \in [TaskIds -> Nat]
      BY DEF IInv, TypeOK
    <2> QED
      BY <1>u, <1>5, <2>1
  <1>6. ASSUME NEW y \in TaskIds
        PROVE  /\ OneSource(cbs', waiters', stack', y)
               /\ Sourced(cbs', waiters', stack', y) <=> Sourced(cbs, waiters, stack, y)
    <2>1. OneSource(cbs, waiters, stack, y)
      BY <1>k DEF SourceInv, SourceOf
    <2>2. CASE y = t
      BY <1>c, <1>u, <1>2, <1>4, <1>5, <2>2 DEF OneSource, Sourced
    <2>3. CASE y # t
      BY <1>c, <1>u, <1>2, <1>4, <2>1, <2>3 DEF OneSource, Sourced
    <2> QED
      BY <2>2, <2>3
  <1>7. UniqueWaiters(waiters')
    BY <1>k, <1>u DEF SourceInv
  <1> QED
    BY <1>u, <1>2, <1>4, <1>6, <1>7, MovedWake

\* The task the walk was running has fired; the others have not begun.
LEMMA WalkUnfired ==
    ASSUME IInv, WakeInv, At("all"), NEW y \in running \ WalkFired
    PROVE  co[y] = "fresh" /\ ~ Sourced(cbs, waiters, stack, y)
  <1>b. stack # <<>> /\ status = "ok" /\ Len(stack) = 1
    BY AllFacts
  <1>1. y \in running \ fired /\ y \in TaskIds /\ y # NULL_TASK_ID
    BY TaskIdLemma DEF WalkFired, IInv, TypeOK
  <1>2. ~ Walking(stack, y)
    BY <1>b, <1>1 DEF WalkFired, Walking, Top
  <1> QED
    BY <1>b, <1>1, <1>2, WakeOk DEF FiredInv

\* The walk schedules the next task.
LEMMA WalkNextWake ==
    ASSUME IInv, WakeInv, NEW t \in TaskIds, WalkNext(t)
    PROVE  WakeInv'
  <1>b. /\ stack \in Seq(Frame) /\ stack # <<>> /\ status = "ok" /\ Len(stack) = 1
        /\ Top \in Frame /\ Top.pc = "all" /\ Top.snap = <<>>
        /\ At("all") /\ t \in running \ WalkFired
        /\ \A k \in 1 .. Len(stack) : stack[k].pc \notin Entering
    BY AllFacts DEF WalkNext
  <1>i. ShapeOf(stack)
    BY DEF IInv
  <1>k. /\ SourceInv(cbs, waiters, stack, co) /\ BodyInv(stack, co)
        /\ TableInv(running, archived, pending, co)
        /\ removed = {} /\ nr_removed = 0
    BY <1>b, WakeOk
  <1> DEFINE g == [Top EXCEPT !.id = t]
             f == NewFrame(t, "resume")
             p == Pop(stack)
             r == SetTop(stack, g)
  <1>u. /\ stack' = Push(r, f) /\ cbs' = cbs /\ waiters' = waiters
        /\ fired' = WalkFired
        /\ UNCHANGED <<running, archived, pending, removed, nr_removed, co, status>>
    BY DEF WalkNext, removalVars, eventVars
  <1>g. g \in Frame /\ g.pc = "all" /\ g.snap = <<>> /\ g.id = t /\ g.stale = Top.stale
    BY <1>b, TaskIdLemma DEF Frame
  <1>a. ~ g.stale
    BY <1>b, <1>g, <1>k DEF BodyInv, Top
  <1>f. /\ f \in Frame /\ f.pc = "resume" /\ f.snap = <<>> /\ ~ f.stale /\ f.id = t
        /\ f.pc \in Entering /\ f.pc # "body" /\ f.pc # "all"
    BY NewFrameLemma, NewFrameFresh, TaskIdLemma DEF PCs, Entering
  <1> HIDE DEF f, g
  <1>q. /\ p \in Seq(Frame) /\ r = Push(p, g) /\ r \in Seq(Frame)
        /\ p = <<>>
    <2>1. Len(p) = 0 /\ p \in Seq(Frame)
      BY <1>b, PopLemma
    <2> QED
      BY <1>b, <1>g, <2>1, EmptySeq, SetTopIsPopPush, SetTopLemma
  <1>p. UniqueSnaps(p) /\ \A y : InSnaps(stack, y) <=> InSnaps(p, y)
    BY <1>b, <1>i, <1>k, EmptyElems, SourcesPop DEF Top, SourceInv
  <1>1. BodyInv(stack', co)
    <2>1. BodyInv(p, co)
      BY <1>b, <1>k, BodyPop
    <2> HIDE DEF p, r
    <2>2. BodyInv(r, co)
      BY <1>a, <1>g, <1>q, <2>1, BodyPush
    <2> QED
      BY <1>f, <1>q, <1>u, <2>2, BodyPush
  <1>j. \A y : ~ IsEntering(stack, y)
    BY <1>b DEF IsEntering
  <1> HIDE DEF p, r
  <1>2. /\ \A y : InSnaps(r, y) <=> InSnaps(p, y)
        /\ \A y : Walking(r, y) <=> y = t
        /\ UniqueSnaps(r)
    <2>1. \A y : InSnaps(Push(p, g), y) <=> InSnaps(p, y)
      BY <1>g, <1>q, EmptyElems, SourcesPush
    <2>2. \A y : Walking(Push(p, g), y) <=> g.pc = "all" /\ g.id = y
      BY <1>g, <1>q, SourcesPush
    <2>3. UniqueSnaps(Push(p, g))
      <3>1. Distinct(g.snap) /\ \A y \in Elems(g.snap) : ~ InSnaps(p, y)
        BY <1>g, EmptyElems
      <3> QED
        BY <1>g, <1>p, <1>q, <3>1, SourcesPush
    <2> QED
      BY <1>g, <1>q, <2>1, <2>2, <2>3
  <1>3. /\ \A y : InSnaps(stack', y) <=> InSnaps(r, y)
        /\ \A y : IsEntering(stack', y) <=> y = t
        /\ \A y : Walking(stack', y) <=> Walking(r, y)
        /\ UniqueSnaps(stack')
    BY <1>f, <1>q, <1>u, <1>2, EmptyElems, SourcesPush
  <1>4. co[t] = "fresh" /\ ~ Sourced(cbs, waiters, stack, t)
    BY <1>b, WalkUnfired
  <1>5. ASSUME NEW y \in TaskIds PROVE SourceOf(cbs, waiters, stack', co, y)
    <2>1. SourceOf(cbs, waiters, stack, co, y)
      BY <1>k DEF SourceInv
    <2>2. CASE y = t
      BY <1>p, <1>2, <1>3, <1>4, <2>1, <2>2 DEF SourceOf, OneSource, Sourced
    <2>3. CASE y # t
      BY <1>j, <1>p, <1>2, <1>3, <2>1, <2>3 DEF SourceOf, OneSource, Sourced
    <2> QED
      BY <2>2, <2>3
  <1>6. SourceInv(cbs, waiters, stack', co)
    BY <1>k, <1>3, <1>5 DEF SourceInv
  <1>7. FiredInv(running \ WalkFired, cbs, waiters, stack', co)
    <2> SUFFICES ASSUME NEW y \in running \ WalkFired, y # t
                 PROVE  co[y] = "fresh" /\ ~ Sourced(cbs, waiters, stack', y)
      BY <1>2, <1>3 DEF FiredInv
    <2>1. co[y] = "fresh" /\ ~ Sourced(cbs, waiters, stack, y)
      BY <1>b, WalkUnfired
    <2> QED
      BY <1>p, <1>2, <1>3, <2>1 DEF Sourced
  <1> QED
    BY <1>b, <1>k, <1>u, <1>1, <1>6, <1>7 DEF WakeInv

\* The walk ends.
LEMMA WalkDoneWake ==
    ASSUME IInv, WakeInv, WalkDone
    PROVE  WakeInv'
  <1>b. /\ stack \in Seq(Frame) /\ stack # <<>> /\ status = "ok" /\ Len(stack) = 1
        /\ Top.pc = "all" /\ Top.snap = <<>> /\ At("all")
        /\ \A k \in 1 .. Len(stack) : stack[k].pc \notin Entering
    BY AllFacts DEF WalkDone
  <1>i. ShapeOf(stack)
    BY DEF IInv
  <1>k. /\ SourceInv(cbs, waiters, stack, co) /\ BodyInv(stack, co)
        /\ TableInv(running, archived, pending, co)
        /\ removed = {} /\ nr_removed = 0
    BY <1>b, WakeOk
  <1>u. /\ stack' = Pop(stack) /\ cbs' = cbs /\ waiters' = waiters
        /\ fired' = WalkFired
        /\ UNCHANGED <<running, archived, pending, removed, nr_removed, co, status>>
    BY DEF WalkDone, removalVars, eventVars
  <1>1. /\ \A y : InSnaps(stack, y) <=> InSnaps(stack', y)
        /\ \A y : ~ IsEntering(stack', y)
        /\ UniqueSnaps(stack')
    BY <1>b, <1>i, <1>k, <1>u, EmptyElems, SourcesPop DEF Top, SourceInv
  <1>2. \A y : ~ IsEntering(stack, y)
    BY <1>b DEF IsEntering
  <1>3. BodyInv(stack', co)
    BY <1>b, <1>k, <1>u, BodyPop
  <1>4. ASSUME NEW y \in TaskIds PROVE SourceOf(cbs, waiters, stack', co, y)
    BY <1>k, <1>1, <1>2 DEF SourceInv, SourceOf, OneSource, Sourced
  <1>5. SourceInv(cbs, waiters, stack', co)
    BY <1>k, <1>1, <1>4 DEF SourceInv
  <1>6. FiredInv(running \ WalkFired, cbs, waiters, stack', co)
    <2> SUFFICES ASSUME NEW y \in running \ WalkFired
                 PROVE  co[y] = "fresh" /\ ~ Sourced(cbs, waiters, stack', y)
      BY DEF FiredInv
    <2>1. co[y] = "fresh" /\ ~ Sourced(cbs, waiters, stack, y)
      BY <1>b, WalkUnfired
    <2> QED
      BY <1>1, <2>1 DEF Sourced
  <1> QED
    BY <1>b, <1>k, <1>u, <1>3, <1>5, <1>6 DEF WakeInv

\* A task that is not live gets a new coroutine, and a frame if it starts now.
LEMMA CreateWake ==
    ASSUME IInv, WakeInv, NEW op, UserCode(op), NEW t \in TaskIds, co[t] \notin Live,
           UNCHANGED <<cbs, waiters, removed, nr_removed, status>>,
           co' = [co EXCEPT ![t] = "fresh"], running' = running \cup {t},
           archived' = archived \cup {t},
           Elems(pending') = Elems(pending) \ {t}, Distinct(pending'),
           \/ /\ stack' = Push(Stale(stack, t), NewFrame(t, "start"))
              /\ fired' = fired \cup {t}
           \/ stack' = Stale(stack, t) /\ fired' = fired \ {t}
    PROVE  WakeInv'
  <1>b. /\ stack \in Seq(Frame) /\ status = "ok" /\ Len(stack) \in Nat
        /\ \A k \in 1 .. Len(stack) : stack[k].pc \notin Entering
        /\ stack = <<>> \/ stack[Len(stack)].pc = "body"
    BY UserCodeFacts
  <1>k. /\ SourceInv(cbs, waiters, stack, co) /\ BodyInv(stack, co)
        /\ TableInv(running, archived, pending, co)
        /\ FiredInv(running \ fired, cbs, waiters, stack, co)
        /\ removed = {} /\ nr_removed = 0
    BY <1>b, WakeOk
  <1> DEFINE f == NewFrame(t, "start")
  <1>f. /\ f \in Frame /\ f.pc = "start" /\ f.snap = <<>> /\ ~ f.stale /\ f.id = t
        /\ f.pc \in Entering /\ f.pc # "body" /\ f.pc # "all"
    BY NewFrameLemma, NewFrameFresh, TaskIdLemma DEF PCs, Entering
  <1> HIDE DEF f
  <1>s. Stale(stack, t) = stack /\ \A k \in 1 .. Len(stack) : stack[k].pc = "body" => stack[k].id # t
    BY <1>b, <1>k, StaleNone DEF Live
  <1>u. \/ stack' = Push(stack, f) /\ fired' = fired \cup {t}
        \/ stack' = stack /\ fired' = fired \ {t}
    BY <1>s DEF f
  <1>c. co'[t] = "fresh" /\ \A y \in TaskIds : y # t => co'[y] = co[y]
    <2>1. co \in [TaskIds -> {"none", "fresh", "suspended", "active", "exited", "dead"}]
      BY DEF IInv, TypeOK
    <2> QED
      BY <2>1
  <1>j. \A y : ~ IsEntering(stack, y)
    BY <1>b DEF IsEntering, Entering
  <1>n. ~ Sourced(cbs, waiters, stack, t)
    BY <1>k DEF SourceInv, SourceOf, Live
  <1>1. BodyInv(stack, co')
    <2>1. \A k \in 1 .. Len(stack) : stack[k].pc = "body" => stack[k].id \in TaskIds
      BY DEF IInv, ShapeOf
    <2> QED
      BY <1>b, <1>c, <1>k, <1>s, <2>1, BodyOther
  <1>2. BodyInv(stack', co')
    <2>1. BodyInv(Push(stack, f), co')
      BY <1>b, <1>f, <1>1, BodyPush
    <2> QED
      BY <1>u, <1>1, <2>1
  <1>3. /\ \A y : InSnaps(stack', y) <=> InSnaps(stack, y)
        /\ \A y : IsEntering(stack', y) => y = t
        /\ \A y : Walking(stack', y) <=> Walking(stack, y)
        /\ UniqueSnaps(stack')
    <2>1. CASE stack' = stack
      BY <1>j, <1>k, <2>1 DEF SourceInv
    <2>2. CASE stack' = Push(stack, f)
      <3>1. UniqueSnaps(stack)
        BY <1>k DEF SourceInv
      <3> QED
        BY <1>b, <1>f, <2>2, <3>1, EmptyElems, SourcesPush
    <2> QED
      BY <1>u, <2>1, <2>2
  <1>4. ASSUME NEW y \in TaskIds PROVE SourceOf(cbs, waiters, stack', co', y)
    <2>1. SourceOf(cbs, waiters, stack, co, y)
      BY <1>k DEF SourceInv
    <2>2. CASE y = t
      BY <1>c, <1>n, <1>3, <2>1, <2>2 DEF SourceOf, OneSource, Sourced
    <2>3. CASE y # t
      BY <1>c, <1>j, <1>3, <2>1, <2>3 DEF SourceOf, OneSource, Sourced
    <2> QED
      BY <2>2, <2>3
  <1>5. SourceInv(cbs, waiters, stack', co')
    BY <1>k, <1>3, <1>4 DEF SourceInv
  <1>6. TableInv(running', archived', pending', co')
    <2>1. ASSUME NEW y \in TaskIds
          PROVE  y \in running' \ Elems(pending') <=> co'[y] \in Live
      BY <1>c, <1>k DEF TableInv, Live
    <2> QED
      BY <1>k, <2>1 DEF TableInv
  <1>7. FiredInv(running' \ fired', cbs, waiters, stack', co')
    <2> SUFFICES ASSUME NEW y \in running' \ fired'
                 PROVE  \/ co'[y] = "fresh" /\ ~ Sourced(cbs, waiters, stack', y)
                        \/ Walking(stack', y)
      BY DEF FiredInv
    <2>0. y \in TaskIds
      BY DEF IInv, TypeOK
    <2>1. CASE y = t
      <3>1. stack' = stack
        BY <1>u, <2>1
      <3> QED
        BY <1>c, <1>n, <2>1, <3>1
    <2>2. CASE y # t
      <3>1. y \in running \ fired
        BY <1>u, <2>2
      <3>2. (co[y] = "fresh" /\ ~ Sourced(cbs, waiters, stack, y)) \/ Walking(stack, y)
        BY <1>k, <3>1 DEF FiredInv
      <3> QED
        BY <1>c, <1>3, <2>0, <2>2, <3>2 DEF Sourced
    <2> QED
      BY <2>1, <2>2
  <1> QED
    BY <1>b, <1>k, <1>2, <1>5, <1>6, <1>7 DEF WakeInv

\* A task that is not running is not live.
LEMMA NotRunning ==
    ASSUME WakeInv, status = "ok", NEW t \in TaskIds, t \notin running
    PROVE  co[t] \notin Live /\ Elems(pending) = Elems(pending) \ {t} /\ Distinct(pending)
  BY WakeOk DEF TableInv

\* Without a removal flag there is none to clear.
LEMMA ClearNone ==
    ASSUME WakeInv, NEW t, ClearRemoved(t)
    PROVE  removed' = removed /\ nr_removed' = nr_removed
  BY DEF WakeInv, ClearRemoved

\* append_task once the id is chosen.
LEMMA RegisterWake ==
    ASSUME IInv, WakeInv, NEW op, UserCode(op), NEW t \in TaskIds, t \notin running,
           NEW start_now, Register(t, start_now)
    PROVE  WakeInv'
  <1>1. status = "ok"
    BY UserCodeFacts
  <1>2. co[t] \notin Live /\ Elems(pending) = Elems(pending) \ {t} /\ Distinct(pending)
    BY <1>1, NotRunning
  <1>3. /\ UNCHANGED <<cbs, waiters, status, pending>> /\ ClearRemoved(t)
        /\ co' = [co EXCEPT ![t] = "fresh"] /\ running' = running \cup {t}
        /\ archived' = archived \cup {t}
        /\ \/ /\ stack' = Push(Stale(stack, t), NewFrame(t, "start"))
              /\ fired' = fired \cup {t}
           \/ stack' = Stale(stack, t) /\ fired' = fired \ {t}
    BY DEF Register, StartCoroutine, eventVars
  <1>4. removed' = removed /\ nr_removed' = nr_removed
    BY <1>3, ClearNone
  <1> QED
    BY <1>2, <1>3, <1>4, CreateWake

\* append_task, with and without an id, takes an id that is not running.
LEMMA AppendWake ==
    ASSUME IInv, WakeInv, NEW t \in TaskIds, NEW start_now,
           AppendTaskId(t, start_now) \/ AppendTask(t, start_now)
    PROVE  WakeInv'
  <1>1. CASE AppendTaskId(t, start_now)
    <2>1. UserCode("append_id") /\ Register(t, start_now) /\ t \notin running
      BY <1>1 DEF AppendTaskId, StillRunning, WakeInv
    <2> QED
      BY <2>1, RegisterWake
  <1>2. CASE AppendTask(t, start_now)
    <2>1. UserCode("append") /\ Register(t, start_now) /\ t \notin archived
      BY <1>2 DEF AppendTask
    <2>2. t \notin running
      BY <2>1, UserCodeFacts, WakeOk DEF TableInv
    <2> QED
      BY <2>1, <2>2, RegisterWake
  <1> QED
    BY <1>1, <1>2

\* try_wakeup_task restarts a task only if it is not running.
LEMMA TryWakeupWake ==
    ASSUME IInv, WakeInv, NEW t \in TaskIds, TryWakeupTask(t)
    PROVE  WakeInv'
  <1>1. /\ UserCode("try_wakeup") /\ t \notin running /\ t \in archived /\ status = "ok"
    BY DEF TryWakeupTask, StillRunning, WakeInv, UserCode, InBody, At
  <1>2. co[t] \notin Live /\ Elems(pending) = Elems(pending) \ {t} /\ Distinct(pending)
    BY <1>1, NotRunning
  <1>3. /\ UNCHANGED <<cbs, waiters, status, pending>> /\ ClearRemoved(t)
        /\ co' = [co EXCEPT ![t] = "fresh"] /\ running' = running \cup {t}
        /\ archived' = archived \cup {t}
        /\ stack' = Push(Stale(stack, t), NewFrame(t, "start"))
        /\ fired' = fired \cup {t}
    BY <1>1 DEF TryWakeupTask, StartCoroutine, eventVars
  <1>4. removed' = removed /\ nr_removed' = nr_removed
    BY <1>3, ClearNone
  <1> QED
    BY <1>1, <1>2, <1>3, <1>4, CreateWake

\* table_remove takes exactly one element out of a list that holds none twice.
LEMMA RemoveAtDistinct ==
    ASSUME NEW q \in Seq(TaskIds), Distinct(q), NEW k \in 1 .. Len(q)
    PROVE  Elems(RemoveAt(q, k)) = Elems(q) \ {q[k]} /\ Distinct(RemoveAt(q, k))
  <1> DEFINE r == RemoveAt(q, k)
             At0(i) == IF i < k THEN i ELSE i + 1
  <1>1. /\ Len(q) \in Nat /\ r \in Seq(TaskIds) /\ Len(r) = Len(q) - 1
        /\ \A x \in Elems(q) : x # q[k] => x \in Elems(r)
    BY RemoveAtLemma
  <1>2. \A i \in 1 .. Len(r) : At0(i) \in 1 .. Len(q) /\ At0(i) # k
    BY <1>1
  <1>3. \A i \in 1 .. Len(r) : r[i] = q[At0(i)]
    BY <1>1 DEF RemoveAt
  <1>4. \A i, j \in 1 .. Len(r) : At0(i) = At0(j) => i = j
    BY <1>1
  <1> HIDE DEF r, At0
  <1>5. \A i \in 1 .. Len(r) : r[i] # q[k] /\ r[i] \in Elems(q)
    BY <1>2, <1>3 DEF Distinct, Elems
  <1>6. Elems(r) = Elems(q) \ {q[k]}
    BY <1>1, <1>5 DEF Elems
  <1>7. Distinct(r)
    BY <1>2, <1>3, <1>4 DEF Distinct
  <1> QED
    BY <1>6, <1>7 DEF r

\* wakeup_task restarts a task that is not running, or that has ended and is
\* taken back from the tasks to be forgotten.
LEMMA WakeupWake ==
    ASSUME IInv, WakeInv, NEW t \in TaskIds, WakeupTask(t)
    PROVE  WakeInv'
  <1>1. /\ UserCode("wakeup") /\ t \in archived /\ status = "ok" /\ removed = {}
    BY DEF WakeupTask, UserCode, InBody, At, WakeInv
  <1>2. /\ UNCHANGED <<cbs, waiters, status>>
        /\ co' = [co EXCEPT ![t] = "fresh"] /\ running' = running \cup {t}
        /\ archived' = archived \cup {t}
        /\ stack' = Push(Stale(stack, t), NewFrame(t, "start"))
        /\ fired' = fired \cup {t}
    BY <1>1 DEF WakeupTask, StartCoroutine, eventVars
  <1>3. CASE t \notin running
    <2>1. pending' = pending /\ removed' = removed /\ nr_removed' = nr_removed
      BY <1>3 DEF WakeupTask, removalVars
    <2>2. co[t] \notin Live /\ Elems(pending) = Elems(pending) \ {t} /\ Distinct(pending)
      BY <1>1, <1>3, NotRunning
    <2> QED
      BY <1>1, <1>2, <2>1, <2>2, CreateWake
  <1>4. CASE t \in running
    <2>1. removed' = removed /\ nr_removed' = nr_removed
      BY <1>1, <1>4 DEF WakeupTask
    <2>2. PICK k \in Positions(pending, t) : pending' = RemoveAt(pending, k)
      BY <1>1, <1>4 DEF WakeupTask
    <2>3. k \in 1 .. Len(pending) /\ pending[k] = t
      BY DEF Positions
    <2>4. pending \in Seq(TaskIds) /\ Distinct(pending) /\ t \in Elems(pending)
      <3>1. Distinct(pending)
        BY <1>1, WakeOk DEF TableInv
      <3> QED
        BY <2>3, <3>1 DEF IInv, TypeOK, Elems
    <2>5. Elems(pending') = Elems(pending) \ {t} /\ Distinct(pending')
      BY <2>2, <2>3, <2>4, RemoveAtDistinct
    <2>6. co[t] \notin Live
      BY <1>1, <2>4, WakeOk DEF TableInv
    <2> QED
      BY <1>1, <1>2, <2>1, <2>5, <2>6, CreateWake
  <1> QED
    BY <1>3, <1>4

----------------------------------------------------------------------------
(* The theorems *)

\* Nothing is registered and nothing runs before the first script.
LEMMA InitWake == Init => WakeInv
  <1> SUFFICES ASSUME Init PROVE WakeInv
    OBVIOUS
  <1>1. /\ \A t : ~ InSnaps(stack, t) /\ ~ IsEntering(stack, t)
        /\ UniqueSnaps(stack) /\ BodyInv(stack, co)
    BY SourcesEmpty DEF Init
  <1>2. UniqueWaiters(waiters) /\ \A t : ~ InWaiters(waiters, t)
    BY EmptyElems DEF Init, UniqueWaiters, InWaiters
  <1>3. \A t \in TaskIds : cbs[t] = 0 /\ co[t] = "none"
    BY DEF Init
  <1>4. SourceInv(cbs, waiters, stack, co)
    BY <1>1, <1>2, <1>3 DEF SourceInv, SourceOf, OneSource, Sourced
  <1>5. TableInv(running, archived, pending, co)
    BY <1>3, EmptyElems DEF Init, TableInv, Live
  <1>6. FiredInv(running \ fired, cbs, waiters, stack, co)
    BY DEF Init, FiredInv
  <1> QED
    BY <1>1, <1>4, <1>5, <1>6 DEF Init, WakeInv

\* Every step preserves the invariant.
LEMMA StepWake ==
    ASSUME NoRemoval
    PROVE  IInv /\ WakeInv /\ [Next]_vars => WakeInv'
  <1> SUFFICES ASSUME IInv, WakeInv, [Next]_vars PROVE WakeInv'
    OBVIOUS
  <1>1. CASE SkipRemoved
    BY <1>1, SkipRemovedNever
  <1>2. CASE Resume
    BY <1>2, ResumeWake
  <1>3. CASE ResumeFails
    BY <1>3, ResumeFailsNever
  <1>4. CASE TakeEvent
    BY <1>4, TakeEventWake
  <1>5. CASE WakeWaiter
    BY <1>5, WakeWaiterWake
  <1>6. CASE WakeDone
    BY <1>6, WakeDoneWake
  <1>7. CASE WalkDone
    BY <1>7, WalkDoneWake
  <1>8. CASE \E t \in TaskIds : WalkNext(t)
    BY <1>8, WalkNextWake
  <1>9. CASE AwaitCallback
    BY <1>9, AwaitCallbackWake
  <1>10. CASE Finish
    BY <1>10, EndWake DEF Finish
  <1>11. CASE ExitTask
    BY <1>11, EndWake DEF ExitTask, InBody
  <1>12. CASE TaskError
    BY <1>12 DEF TaskError, Abort, WakeInv, removalVars
  <1>13. CASE \E e \in Events : WaitEvent(e)
    BY <1>13, WaitEventWake
  <1>14. CASE \E e \in Events : SendEvent(e)
    <2>1. status = "ok" /\ UNCHANGED <<taskVars, removalVars, eventVars, co, stack, cbs, status>>
      BY <1>14 DEF SendEvent, InBody, At, outerVars
    <2> QED
      BY <2>1, SameWake DEF removalVars, eventVars
  <1>15. CASE \E e \in Events : NewEventHdl(e)
    <2>1. /\ status = "ok"
          /\ UNCHANGED <<taskVars, removalVars, co, stack, cbs, status>>
      BY <1>15 DEF NewEventHdl, InBody, At, outerVars
    <2>2. PICK e \in Events : NewEventHdl(e)
      BY <1>15
    <2>3. waiters[e] = <<>> /\ waiters' = [waiters EXCEPT ![e] = <<>>]
      BY <2>2 DEF NewEventHdl, NoRemoval
    <2>4. waiters \in [Events -> Seq(TaskIds)]
      BY DEF IInv, TypeOK
    <2>5. waiters' = waiters
      BY <2>3, <2>4
    <2> QED
      BY <2>1, <2>5, SameWake DEF removalVars
  <1>16. CASE \E e \in Events : RemoveEvent(e)
    <2>1. status = "ok" /\ UNCHANGED <<taskVars, removalVars, waiters, co, stack, cbs, status>>
      BY <1>16 DEF RemoveEvent, InBody, At, outerVars
    <2> QED
      BY <2>1, SameWake DEF removalVars
  <1>17. CASE \E t \in TaskIds : WakeupTask(t)
    BY <1>17, WakeupWake
  <1>18. CASE \E t \in TaskIds : TryWakeupTask(t)
    BY <1>18, TryWakeupWake
  <1>19. CASE \E t \in TaskIds : RemoveTask(t)
    BY <1>19 DEF RemoveTask, InBody, NoRemoval
  <1>20. CASE \E t \in TaskIds, start_now \in BOOLEAN :
                AppendTaskId(t, start_now) \/ AppendTask(t, start_now)
    BY <1>20, AppendWake
  <1>21. CASE StartCallback
    BY <1>21, StartCallbackWake
  <1>22. CASE \E t \in TaskIds : SimEvent(t)
    BY <1>22, SimEventWake
  <1>23. CASE UNCHANGED vars
    BY <1>23 DEF vars, WakeInv, taskVars, removalVars, eventVars, outerVars
  <1>24. CASE Engine
    BY <1>24, <1>1, <1>2, <1>3, <1>4, <1>5, <1>6, <1>7, <1>8 DEF Engine
  <1>25. CASE Body
    BY <1>25, <1>9, <1>10, <1>11, <1>12, <1>13, <1>14, <1>15, <1>16, <1>17,
       <1>18, <1>19, <1>20 DEF Body
  <1> QED
    BY <1>21, <1>22, <1>23, <1>24, <1>25 DEF Next

\* The invariant holds in every reachable state.
THEOREM WakeInvariant ==
    ASSUME NoRemoval
    PROVE  Spec => [](IInv /\ WakeInv)
  <1>1. Init => IInv /\ WakeInv
    BY InitInv, InitWake
  <1>2. (IInv /\ WakeInv) /\ [Next]_vars => (IInv /\ WakeInv)'
    BY StepInv, StepWake
  <1> QED
    BY <1>1, <1>2, PTL DEF Spec

\* The number of entries of the waiter lists that name t.
LEMMA WaiterEntries ==
    ASSUME NEW w, UniqueWaiters(w), NEW t,
           NEW S, S = UNION {{<<e, k>> : k \in {j \in 1 .. Len(w[e]) : w[e][j] = t}} : e \in Events}
    PROVE  Cardinality(S) = IF InWaiters(w, t) THEN 1 ELSE 0
  <1>1. \A z : z \in S <=> \E e \in Events : \E k \in 1 .. Len(w[e]) : w[e][k] = t /\ z = <<e, k>>
    OBVIOUS
  <1>2. CASE ~ InWaiters(w, t)
    <2>1. S = {}
      BY <1>1, <1>2 DEF InWaiters, Elems
    <2> QED
      BY <1>2, <2>1, FS_EmptySet
  <1>3. CASE InWaiters(w, t)
    <2>1. PICK e \in Events : \E k \in 1 .. Len(w[e]) : w[e][k] = t
      BY <1>3 DEF InWaiters, Elems
    <2>2. PICK k \in 1 .. Len(w[e]) : w[e][k] = t
      BY <2>1
    <2>3. \A g \in Events : \A m \in 1 .. Len(w[g]) : w[g][m] = t => g = e /\ m = k
      BY <2>2 DEF UniqueWaiters
    <2>4. S = {<<e, k>>}
      BY <1>1, <2>2, <2>3
    <2> QED
      BY <1>3, <2>4, FS_Singleton
  <1> QED
    BY <1>2, <1>3

\* The number of entries of the snapshots that name t.
LEMMA SnapEntries ==
    ASSUME NEW s, UniqueSnaps(s), NEW t,
           NEW S, S = UNION {{<<f, k>> : k \in {j \in 1 .. Len(s[f].snap) : s[f].snap[j] = t}}
                               : f \in 1 .. Len(s)}
    PROVE  Cardinality(S) = IF InSnaps(s, t) THEN 1 ELSE 0
  <1>1. \A z : z \in S <=> \E f \in 1 .. Len(s) : \E k \in 1 .. Len(s[f].snap) :
                              s[f].snap[k] = t /\ z = <<f, k>>
    OBVIOUS
  <1>2. CASE ~ InSnaps(s, t)
    <2>1. S = {}
      BY <1>1, <1>2 DEF InSnaps, Elems
    <2> QED
      BY <1>2, <2>1, FS_EmptySet
  <1>3. CASE InSnaps(s, t)
    <2>1. PICK f \in 1 .. Len(s) : \E k \in 1 .. Len(s[f].snap) : s[f].snap[k] = t
      BY <1>3 DEF InSnaps, Elems
    <2>2. PICK k \in 1 .. Len(s[f].snap) : s[f].snap[k] = t
      BY <2>1
    <2>3. \A g \in 1 .. Len(s) : \A m \in 1 .. Len(s[g].snap) :
            s[g].snap[m] = t => g = f /\ m = k
      BY <2>2 DEF UniqueSnaps
    <2>4. S = {<<f, k>>}
      BY <1>1, <2>2, <2>3
    <2> QED
      BY <1>3, <2>4, FS_Singleton
  <1> QED
    BY <1>2, <1>3

\* The number of activations about to resume t.
LEMMA EnteringEntries ==
    ASSUME NEW s \in Seq(Frame), ShapeOf(s), NEW t,
           NEW S, S = {f \in 1 .. Len(s) : s[f].id = t /\ s[f].pc \in Entering}
    PROVE  Cardinality(S) = IF IsEntering(s, t) THEN 1 ELSE 0
  <1>1. \A f \in S : f = Len(s)
    BY DEF ShapeOf
  <1>2. CASE IsEntering(s, t)
    <2>1. Len(s) \in 1 .. Len(s)
      BY <1>2, TopLemma DEF IsEntering
    <2>2. S = {Len(s)}
      BY <1>1, <1>2, <2>1 DEF IsEntering
    <2> QED
      BY <1>2, <2>2, FS_Singleton
  <1>3. CASE ~ IsEntering(s, t)
    <2>1. S = {}
      <3> SUFFICES ASSUME NEW f \in S PROVE FALSE
        OBVIOUS
      <3>1. f = Len(s) /\ f \in 1 .. Len(s) /\ s[f].id = t /\ s[f].pc \in Entering
        BY <1>1
      <3>2. s # <<>>
        BY <3>1
      <3> QED
        BY <1>3, <3>1, <3>2 DEF IsEntering
    <2> QED
      BY <1>3, <2>1, FS_EmptySet
  <1> QED
    BY <1>2, <1>3

\* WakeSources counts a task's sources: it has at most one.
LEMMA CountSources ==
    ASSUME IInv, WakeInv, status = "ok", NEW t \in TaskIds
    PROVE  WakeSources(t) = IF Sourced(cbs, waiters, stack, t) THEN 1 ELSE 0
  <1>k. /\ UniqueWaiters(waiters) /\ UniqueSnaps(stack)
        /\ OneSource(cbs, waiters, stack, t)
    BY WakeOk DEF SourceInv, SourceOf
  <1>i. stack \in Seq(Frame) /\ ShapeOf(stack)
    BY DEF IInv, TypeOK
  <1> DEFINE A == UNION {{<<e, k>> : k \in {j \in 1 .. Len(waiters[e]) :
                              waiters[e][j] = t}} : e \in Events}
             B == UNION {{<<f, k>> : k \in {j \in 1 .. Len(stack[f].snap) :
                              stack[f].snap[j] = t}} : f \in 1 .. Len(stack)}
             C == {f \in 1 .. Len(stack) : stack[f].id = t /\ stack[f].pc \in Entering}
  <1>1. Cardinality(A) = IF InWaiters(waiters, t) THEN 1 ELSE 0
    BY <1>k, WaiterEntries
  <1>2. Cardinality(B) = IF InSnaps(stack, t) THEN 1 ELSE 0
    BY <1>k, SnapEntries
  <1>3. Cardinality(C) = IF IsEntering(stack, t) THEN 1 ELSE 0
    BY <1>i, EnteringEntries
  <1>4. WakeSources(t) = cbs[t] + Cardinality(A) + Cardinality(B) + Cardinality(C)
    BY DEF WakeSources
  <1> HIDE DEF A, B, C
  <1>5. CASE cbs[t] = 1
    BY <1>k, <1>1, <1>2, <1>3, <1>4, <1>5 DEF OneSource, Sourced
  <1>6. CASE cbs[t] = 0
    BY <1>k, <1>1, <1>2, <1>3, <1>4, <1>6 DEF OneSource, Sourced
  <1> QED
    BY <1>k, <1>5, <1>6 DEF OneSource

\* Every suspended task has exactly one way to be resumed, a running or ended
\* one has none, and no coroutine is resumed that cannot be: callbacks, waiter
\* lists, snapshots of the wake loops and nested activations together, for any
\* number of tasks and events and however deep they nest.
THEOREM OneWakeSource ==
    ASSUME NoRemoval
    PROVE  Spec => []WakeSourceUnique
  <1>1. IInv /\ WakeInv => WakeSourceUnique
    <2> SUFFICES ASSUME IInv, WakeInv PROVE WakeSourceUnique
      OBVIOUS
    <2>1. ASSUME status = "ok", NEW t \in TaskIds
          PROVE  /\ co[t] = "suspended" => WakeSources(t) = 1
                 /\ co[t] = "fresh" => WakeSources(t) <= 1
                 /\ co[t] \notin {"suspended", "fresh"} => WakeSources(t) = 0
      <3>1. SourceOf(cbs, waiters, stack, co, t)
        BY <2>1, WakeOk DEF SourceInv
      <3>2. WakeSources(t) = IF Sourced(cbs, waiters, stack, t) THEN 1 ELSE 0
        BY <2>1, CountSources
      <3> QED
        BY <3>1, <3>2 DEF SourceOf
    <2>2. status # "resume"
      BY DEF WakeInv
    <2> QED
      BY <2>1, <2>2 DEF WakeSourceUnique
  <1> QED
    BY <1>1, WakeInvariant, PTL

\* get_running_tasks returns exactly the tasks that have not ended.
THEOREM RunningTasks ==
    ASSUME NoRemoval
    PROVE  Spec => []RunningTasksExact
  <1>1. IInv /\ WakeInv => RunningTasksExact
    <2> SUFFICES ASSUME IInv, WakeInv, status = "ok"
                 PROVE  GetRunningTasks = {t \in TaskIds : co[t] \in Live}
      BY DEF RunningTasksExact, Live
    <2>1. /\ \A t \in TaskIds : t \in running \ Elems(pending) <=> co[t] \in Live
          /\ removed = {} /\ running \subseteq TaskIds
      BY WakeOk DEF TableInv, IInv, TypeOK
    <2> QED
      BY <2>1 DEF GetRunningTasks
  <1> QED
    BY <1>1, WakeInvariant, PTL

\* The SAFETY assertion of schedule_task never fails.
THEOREM SafetyAssertion ==
    ASSUME NoRemoval
    PROVE  Spec => []ResumedNotForgotten
  <1>1. IInv /\ WakeInv => ResumedNotForgotten
    BY EnteringTask DEF ResumedNotForgotten
  <1> QED
    BY <1>1, WakeInvariant, PTL
=============================================================================
