-------------------------- MODULE SchedulerProofs --------------------------
(* Proofs about Scheduler, for every number of tasks and events, every set of
   operations user code may call and all bounds.                          *)
EXTENDS Scheduler, TLAPS, FiniteSetTheorems, SequenceTheorems

----------------------------------------------------------------------------
(* The inductive invariant *)

\* Only the top frame is about to enter its coroutine, a frame that starts a
\* new coroutine sits on the body that called the API, the walk is outermost,
\* and only wake loops hold a snapshot.
ShapeOf(s) ==
    \A k \in 1 .. Len(s) :
        /\ s[k].pc \in Entering => k = Len(s)
        /\ s[k].pc # "all" => s[k].id \in TaskIds
        /\ s[k].pc = "start" /\ k > 1 => s[k - 1].pc = "body"
        /\ s[k].pc = "all" => k = 1
        /\ s[k].pc # "wake" => s[k].snap = <<>>

\* Every body saved, as old_curr_task_id, the task of the body around it.
CurrOf(s, c) ==
    /\ InnermostBody(s, Len(s), c)
    /\ \A k \in 1 .. Len(s) :
         s[k].pc = "body" => InnermostBody(s, k - 1, s[k].old)

\* Flags and counts agree.
CountInv ==
    /\ nr_removed >= Cardinality(removed)
    /\ nr_pending = Len(pending)

\* s holds a wake loop.
HasLoop(s) == \E k \in 1 .. Len(s) : s[k].pc = "wake"

\* has_wakeup_event is set only while a body runs or has just called the API,
\* and the event list is filled only while it is set or a wake loop runs.
SendInv ==
    status = "ok" =>
      /\ has_wakeup => /\ stack # <<>>
                       /\ \/ Top.pc = "body"
                          \/ Top.pc = "start" /\ Len(stack) > 1
      /\ pending_wakeup # <<>> =>
            has_wakeup \/ HasLoop(stack)

\* The innermost wake loop of s has entry j still before it.
WillTake(s, j) ==
    \E k \in 1 .. Len(s) :
        /\ s[k].pc = "wake" /\ s[k].pos <= j
        /\ \A i \in k + 1 .. Len(s) : s[i].pc # "wake"

\* t is in a snapshot of s, or on its way from one to its coroutine.
Snapped(s, t) ==
    \E k \in 1 .. Len(s) :
        \/ t \in Elems(s[k].snap)
        \/ s[k].pc \in Entering /\ s[k].id = t

\* t waits for an event that is sent and will be taken.
OwedWait(t) ==
    \E j \in 1 .. Len(pending_wakeup) :
        /\ t \in Elems(waiters[pending_wakeup[j]])
        /\ has_wakeup \/ WillTake(stack, j)

\* No event is re-created while tasks wait for it.
KeepsWaiters == "renew_event" \notin Ops

OwedInv ==
    status = "ok" /\ KeepsWaiters =>
      \A t \in owed : Snapped(stack, t) \/ OwedWait(t)

IInv ==
    /\ TypeOK
    /\ ShapeOf(stack)
    /\ CurrOf(stack, curr_task)
    /\ CountInv
    /\ SendInv
    /\ OwedInv

----------------------------------------------------------------------------
(* Sequences used as stacks and lists *)

\* Push adds an element on top and keeps the others.
LEMMA PushLemma ==
    ASSUME NEW s \in Seq(Frame), NEW f \in Frame
    PROVE  /\ Push(s, f) \in Seq(Frame)
           /\ Len(Push(s, f)) = Len(s) + 1
           /\ Push(s, f)[Len(s) + 1] = f
           /\ \A k \in 1 .. Len(s) : Push(s, f)[k] = s[k]
  BY DEF Push

\* Pop drops the top and keeps the others.
LEMMA PopLemma ==
    ASSUME NEW s \in Seq(Frame), s # <<>>
    PROVE  /\ Pop(s) \in Seq(Frame)
           /\ Len(Pop(s)) = Len(s) - 1
           /\ \A k \in 1 .. Len(s) - 1 : Pop(s)[k] = s[k]
  <1>1. Len(s) \in Nat /\ Len(s) > 0
    BY EmptySeq, LenProperties
  <1>2. \A i \in 1 .. Len(s) - 1 : s[i] \in Frame
    BY <1>1, ElementOfSeq
  <1>3. Len(s) - 1 \in Int
    BY <1>1
  <1> DEFINE p == SubSeq(s, 1, Len(s) - 1)
  <1>4. /\ p \in Seq(Frame)
        /\ Len(p) = IF 1 <= Len(s) - 1 THEN (Len(s) - 1) - 1 + 1 ELSE 0
        /\ \A i \in 1 .. (Len(s) - 1) - 1 + 1 : p[i] = s[1 + i - 1]
    BY <1>2, <1>3, SubSeqProperties
  <1>5. Pop(s) = p
    BY DEF Pop
  <1> HIDE DEF p
  <1>6. Len(p) = Len(s) - 1
    <2>1. ASSUME NEW n \in Nat, n > 0,
                 NEW m, m = IF 1 <= n - 1 THEN (n - 1) - 1 + 1 ELSE 0
          PROVE  m = n - 1
      BY <2>1
    <2>2. Len(p) = IF 1 <= Len(s) - 1 THEN (Len(s) - 1) - 1 + 1 ELSE 0
      BY <1>4
    <2> QED
      BY <1>1, <2>1, <2>2
  <1>7. \A k \in 1 .. Len(s) - 1 : p[k] = s[k]
    BY <1>1, <1>4
  <1> QED
    BY <1>4, <1>5, <1>6, <1>7

\* SetTop replaces the top and keeps the others.
LEMMA SetTopLemma ==
    ASSUME NEW s \in Seq(Frame), s # <<>>, NEW f \in Frame
    PROVE  /\ SetTop(s, f) \in Seq(Frame)
           /\ Len(SetTop(s, f)) = Len(s)
           /\ SetTop(s, f)[Len(s)] = f
           /\ \A k \in 1 .. Len(s) - 1 : SetTop(s, f)[k] = s[k]
           /\ SetTop(s, f) # <<>>
  <1>1. Len(s) \in Nat /\ Len(s) > 0
    BY EmptySeq, LenProperties
  <1>2. SetTop(s, f) \in Seq(Frame) /\ Len(SetTop(s, f)) = Len(s)
    BY <1>1, ExceptSeq DEF SetTop
  <1>3. SetTop(s, f)[Len(s)] = f
    BY <1>1, ExceptSeq DEF SetTop
  <1>4. \A k \in 1 .. Len(s) - 1 : SetTop(s, f)[k] = s[k]
    BY <1>1, ExceptSeq DEF SetTop
  <1>5. SetTop(s, f) # <<>>
    BY <1>1, <1>2
  <1> QED
    BY <1>2, <1>3, <1>4, <1>5

\* Marking frames as stale changes neither their number nor anything else.
LEMMA StaleLemma ==
    ASSUME NEW s \in Seq(Frame), NEW t
    PROVE  /\ Stale(s, t) \in Seq(Frame)
           /\ Len(Stale(s, t)) = Len(s)
           /\ \A k \in 1 .. Len(s) :
                /\ Stale(s, t)[k].id = s[k].id
                /\ Stale(s, t)[k].pc = s[k].pc
                /\ Stale(s, t)[k].old = s[k].old
                /\ Stale(s, t)[k].pos = s[k].pos
                /\ Stale(s, t)[k].snap = s[k].snap
  <1>1. \A k \in 1 .. Len(s) : s[k] \in Frame
    BY ElementOfSeq
  <1>2. \A k \in 1 .. Len(s) : Stale(s, t)[k] \in Frame
    BY <1>1 DEF Stale, Frame
  <1>3. Len(s) \in Nat
    BY LenProperties
  <1>4. Stale(s, t) \in Seq(Frame) /\ Len(Stale(s, t)) = Len(s)
    BY <1>2, <1>3 DEF Stale
  <1> QED
    BY <1>1, <1>4 DEF Stale, Frame

\* table_remove keeps every element but the one at k.
LEMMA RemoveAtLemma ==
    ASSUME NEW S, NEW s \in Seq(S), NEW k \in 1 .. Len(s)
    PROVE  /\ RemoveAt(s, k) \in Seq(S)
           /\ Len(RemoveAt(s, k)) = Len(s) - 1
           /\ \A x \in Elems(s) : x # s[k] => x \in Elems(RemoveAt(s, k))
  <1>1. Len(s) \in Nat
    BY LenProperties
  <1>2. \A i \in 1 .. Len(s) : s[i] \in S
    BY ElementOfSeq
  <1>3. \A i \in 1 .. Len(s) - 1 : RemoveAt(s, k)[i] \in S
    BY <1>1, <1>2 DEF RemoveAt
  <1>4. RemoveAt(s, k) \in Seq(S) /\ Len(RemoveAt(s, k)) = Len(s) - 1
    BY <1>1, <1>3 DEF RemoveAt
  <1>5. ASSUME NEW i \in 1 .. Len(s), s[i] # s[k]
        PROVE  s[i] \in Elems(RemoveAt(s, k))
    <2>1. CASE i < k
      BY <1>1, <1>4, <2>1 DEF RemoveAt, Elems
    <2>2. CASE i > k
      <3>1. i - 1 \in 1 .. Len(s) - 1 /\ ~(i - 1 < k) /\ (i - 1) + 1 = i
        BY <1>1, <2>2
      <3>2. RemoveAt(s, k)[i - 1] = s[i]
        BY <3>1 DEF RemoveAt
      <3> QED
        BY <1>4, <3>1, <3>2 DEF Elems
    <2> QED
      BY <1>5, <2>1, <2>2
  <1> QED
    BY <1>4, <1>5 DEF Elems

\* The elements of a sequence, and of one with an element appended.
LEMMA ElemsLemma ==
    ASSUME NEW S, NEW s \in Seq(S), NEW x \in S
    PROVE  /\ Elems(s) \subseteq S
           /\ Elems(Append(s, x)) = Elems(s) \cup {x}
           /\ Elems(<<>>) = {}
  BY DEF Elems

\* A non-empty stack has a top frame.
LEMMA TopLemma ==
    ASSUME NEW s \in Seq(Frame), s # <<>>
    PROVE  /\ Len(s) \in Nat /\ Len(s) >= 1
           /\ Len(s) \in 1 .. Len(s)
           /\ s[Len(s)] \in Frame
           /\ \A k \in 1 .. Len(s) : s[k] \in Frame
  <1>1. Len(s) \in Nat /\ Len(s) >= 1
    BY EmptySeq, LenProperties
  <1>2. \A k \in 1 .. Len(s) : s[k] \in Frame
    BY ElementOfSeq
  <1> QED
    BY <1>1, <1>2

----------------------------------------------------------------------------
(* The shape of the stack *)

\* The shape survives a return from schedule_task.
LEMMA ShapePop ==
    ASSUME NEW s \in Seq(Frame), s # <<>>, ShapeOf(s)
    PROVE  /\ ShapeOf(Pop(s))
           /\ \A k \in 1 .. Len(Pop(s)) : s[k].pc \notin Entering
  <1>1. Len(s) \in Nat /\ Len(s) >= 1
    BY TopLemma
  <1>2. Len(Pop(s)) = Len(s) - 1 /\ \A k \in 1 .. Len(s) - 1 : Pop(s)[k] = s[k]
    BY PopLemma
  <1> QED
    BY <1>1, <1>2 DEF ShapeOf

\* The shape survives a step of the top frame into its body or its wake loop.
LEMMA ShapeSetTop ==
    ASSUME NEW s \in Seq(Frame), s # <<>>, ShapeOf(s), NEW f \in Frame,
           f.pc \in {"body", "wake"} \/ (f.pc = "all" /\ s[Len(s)].pc = "all"),
           f.pc # "all" => f.id \in TaskIds,
           f.pc # "wake" => f.snap = <<>>
    PROVE  ShapeOf(SetTop(s, f))
  <1>1. Len(s) \in Nat /\ Len(s) >= 1 /\ Len(s) \in 1 .. Len(s)
    BY TopLemma
  <1>2. /\ Len(SetTop(s, f)) = Len(s) /\ SetTop(s, f)[Len(s)] = f
        /\ \A k \in 1 .. Len(s) - 1 : SetTop(s, f)[k] = s[k]
    BY SetTopLemma
  <1>3. f.pc \notin Entering /\ f.pc # "start"
    BY DEF Entering
  <1>4. \A k \in 1 .. Len(s) : k = Len(s) \/ k \in 1 .. Len(s) - 1
    BY <1>1
  <1>5. \A k \in 1 .. Len(s) - 1 : s[k].pc # "start" /\ s[k].pc \notin Entering
    BY <1>1 DEF ShapeOf, Entering
  <1> QED
    BY <1>1, <1>2, <1>3, <1>4, <1>5 DEF ShapeOf

\* The shape survives a call of schedule_task.
LEMMA ShapePush ==
    ASSUME NEW s \in Seq(Frame), ShapeOf(s), NEW f \in Frame,
           \A k \in 1 .. Len(s) : s[k].pc \notin Entering,
           f.pc \in Entering, f.id \in TaskIds, f.snap = <<>>,
           f.pc = "start" => s = <<>> \/ s[Len(s)].pc = "body"
    PROVE  ShapeOf(Push(s, f))
  <1>1. Len(s) \in Nat
    BY LenProperties
  <1>2. /\ Len(Push(s, f)) = Len(s) + 1 /\ Push(s, f)[Len(s) + 1] = f
        /\ \A k \in 1 .. Len(s) : Push(s, f)[k] = s[k]
    BY PushLemma
  <1>3. \A k \in 1 .. Len(s) + 1 : k = Len(s) + 1 \/ k \in 1 .. Len(s)
    BY <1>1
  <1>4. f.pc # "all" /\ f.pc # "wake"
    BY DEF Entering
  <1>5. \A k \in 1 .. Len(s) : k > 1 => k - 1 \in 1 .. Len(s)
    BY <1>1
  <1>6. Len(s) + 1 > 1 => s # <<>> /\ Len(s) \in 1 .. Len(s) /\ (Len(s) + 1) - 1 = Len(s)
    BY <1>1
  <1> QED
    BY <1>1, <1>2, <1>3, <1>4, <1>5, <1>6 DEF ShapeOf, Entering

\* The shape survives the creation of a coroutine.
LEMMA ShapeStale ==
    ASSUME NEW s \in Seq(Frame), ShapeOf(s), NEW t
    PROVE  ShapeOf(Stale(s, t))
  <1>1. Len(s) \in Nat
    BY LenProperties
  <1>2. \A k \in 1 .. Len(s) : k > 1 => k - 1 \in 1 .. Len(s)
    BY <1>1
  <1> QED
    BY <1>1, <1>2, StaleLemma DEF ShapeOf

----------------------------------------------------------------------------
(* The current task *)

\* InnermostBody depends on the task and the place of the first n frames only.
LEMMA InnermostSame ==
    ASSUME NEW s, NEW r, NEW n \in Int, NEW t, InnermostBody(s, n, t),
           \A k \in 1 .. n : r[k].pc = s[k].pc /\ r[k].id = s[k].id
    PROVE  InnermostBody(r, n, t)
  <1>1. CASE t = NULL_TASK_ID /\ \A k \in 1 .. n : s[k].pc # "body"
    BY <1>1 DEF InnermostBody
  <1>2. CASE \E k \in 1 .. n :
               /\ s[k].pc = "body" /\ s[k].id = t
               /\ \A j \in k + 1 .. n : s[j].pc # "body"
    <2>1. PICK k \in 1 .. n :
               /\ s[k].pc = "body" /\ s[k].id = t
               /\ \A j \in k + 1 .. n : s[j].pc # "body"
      BY <1>2
    <2>2. \A j \in k + 1 .. n : j \in 1 .. n
      OBVIOUS
    <2> QED
      BY <2>1, <2>2 DEF InnermostBody
  <1> QED
    BY <1>1, <1>2 DEF InnermostBody

\* A frame that is not in its body makes no difference.
LEMMA InnermostSkip ==
    ASSUME NEW s, NEW n \in Nat, n >= 1, NEW t, s[n].pc # "body"
    PROVE  InnermostBody(s, n, t) <=> InnermostBody(s, n - 1, t)
  <1>1. \A k \in 1 .. n : k = n \/ k \in 1 .. n - 1
    OBVIOUS
  <1>2. \A k \in 1 .. n - 1 : k \in 1 .. n
    OBVIOUS
  <1>3. ASSUME NEW k \in 1 .. n - 1
        PROVE  (\A j \in k + 1 .. n : s[j].pc # "body")
                 <=> (\A j \in k + 1 .. n - 1 : s[j].pc # "body")
    <2>1. \A j \in k + 1 .. n : j = n \/ j \in k + 1 .. n - 1
      OBVIOUS
    <2>2. \A j \in k + 1 .. n - 1 : j \in k + 1 .. n
      OBVIOUS
    <2> QED
      BY <2>1, <2>2
  <1> QED
    BY <1>1, <1>2, <1>3 DEF InnermostBody

\* A frame in its body is the innermost one.
LEMMA InnermostTop ==
    ASSUME NEW s, NEW n \in Nat, n >= 1, NEW t, s[n].pc = "body"
    PROVE  InnermostBody(s, n, t) <=> s[n].id = t
  <1>1. n \in 1 .. n /\ n + 1 .. n = {}
    OBVIOUS
  <1>2. ASSUME InnermostBody(s, n, t) PROVE s[n].id = t
    <2>1. PICK k \in 1 .. n :
               /\ s[k].pc = "body" /\ s[k].id = t
               /\ \A j \in k + 1 .. n : s[j].pc # "body"
      BY <1>1, <1>2 DEF InnermostBody
    <2>2. k = n \/ n \in k + 1 .. n
      OBVIOUS
    <2> QED
      BY <2>1, <2>2
  <1>3. ASSUME s[n].id = t PROVE InnermostBody(s, n, t)
    BY <1>1, <1>3 DEF InnermostBody
  <1> QED
    BY <1>2, <1>3

\* A frame that is not in its body comes or goes, or moves, outside its body.
LEMMA CurrPush ==
    ASSUME NEW s \in Seq(Frame), NEW f \in Frame, NEW c, CurrOf(s, c),
           f.pc # "body"
    PROVE  CurrOf(Push(s, f), c)
  <1>1. Len(s) \in Nat
    BY LenProperties
  <1> DEFINE r == Push(s, f)
  <1>2. /\ Len(r) = Len(s) + 1 /\ r[Len(s) + 1] = f
        /\ \A k \in 1 .. Len(s) : r[k] = s[k]
    BY PushLemma
  <1> HIDE DEF r
  <1>3. InnermostBody(r, Len(s), c)
    BY <1>1, <1>2, InnermostSame DEF CurrOf
  <1>4. InnermostBody(r, Len(s) + 1, c)
    <2>1. Len(s) + 1 \in Nat /\ Len(s) + 1 >= 1 /\ (Len(s) + 1) - 1 = Len(s)
      BY <1>1
    <2> QED
      BY <1>2, <1>3, <2>1, InnermostSkip
  <1>5. ASSUME NEW k \in 1 .. Len(s) + 1, r[k].pc = "body"
        PROVE  InnermostBody(r, k - 1, r[k].old)
    <2>1. k \in 1 .. Len(s)
      BY <1>1, <1>2, <1>5
    <2>2. InnermostBody(s, k - 1, s[k].old) /\ r[k] = s[k]
      BY <1>2, <1>5, <2>1 DEF CurrOf
    <2>3. k - 1 \in Int /\ \A j \in 1 .. k - 1 : r[j] = s[j]
      BY <1>1, <1>2, <2>1
    <2> QED
      BY <2>2, <2>3, InnermostSame
  <1>6. CurrOf(r, c)
    BY <1>2, <1>4, <1>5 DEF CurrOf
  <1> QED
    BY <1>6 DEF r

\* schedule_task returns: without a body to leave the current task stays, and
\* leaving a body restores what it saved.
LEMMA CurrPop ==
    ASSUME NEW s \in Seq(Frame), s # <<>>, NEW c, CurrOf(s, c)
    PROVE  CurrOf(Pop(s), IF s[Len(s)].pc = "body" THEN s[Len(s)].old ELSE c)
  <1>1. Len(s) \in Nat /\ Len(s) >= 1 /\ Len(s) \in 1 .. Len(s)
    BY TopLemma
  <1> DEFINE r == Pop(s)
             d == IF s[Len(s)].pc = "body" THEN s[Len(s)].old ELSE c
  <1>2. Len(r) = Len(s) - 1 /\ \A k \in 1 .. Len(s) - 1 : r[k] = s[k]
    BY PopLemma
  <1>3. InnermostBody(s, Len(s) - 1, d)
    <2>1. CASE s[Len(s)].pc = "body"
      BY <1>1, <2>1 DEF CurrOf
    <2>2. CASE s[Len(s)].pc # "body"
      BY <1>1, <2>2, InnermostSkip DEF CurrOf
    <2> QED
      BY <2>1, <2>2
  <1> HIDE DEF r, d
  <1>4. InnermostBody(r, Len(s) - 1, d)
    <2>1. Len(s) - 1 \in Int
      BY <1>1
    <2> QED
      BY <1>2, <1>3, <2>1, InnermostSame
  <1>5. ASSUME NEW k \in 1 .. Len(s) - 1, r[k].pc = "body"
        PROVE  InnermostBody(r, k - 1, r[k].old)
    <2>1. k \in 1 .. Len(s)
      BY <1>1
    <2>2. InnermostBody(s, k - 1, s[k].old) /\ r[k] = s[k]
      BY <1>2, <1>5, <2>1 DEF CurrOf
    <2>3. k - 1 \in Int /\ \A j \in 1 .. k - 1 : r[j] = s[j]
      BY <1>1, <1>2, <2>1
    <2> QED
      BY <2>2, <2>3, InnermostSame
  <1>6. CurrOf(r, d)
    BY <1>2, <1>4, <1>5 DEF CurrOf
  <1> QED
    BY <1>6 DEF r, d

\* A step of the top frame is a return and a call.
LEMMA SetTopIsPopPush ==
    ASSUME NEW s \in Seq(Frame), s # <<>>, NEW f \in Frame
    PROVE  SetTop(s, f) = Push(Pop(s), f)
  <1>1. Len(s) \in Nat /\ Len(s) >= 1
    BY TopLemma
  <1> DEFINE p == Pop(s)
             q == Push(p, f)
             r == SetTop(s, f)
  <1>2. /\ p \in Seq(Frame) /\ Len(p) = Len(s) - 1
        /\ \A k \in 1 .. Len(s) - 1 : p[k] = s[k]
    BY PopLemma
  <1>3. /\ r \in Seq(Frame) /\ Len(r) = Len(s) /\ r[Len(s)] = f
        /\ \A k \in 1 .. Len(s) - 1 : r[k] = s[k]
    BY SetTopLemma
  <1>p. p \in Seq(Frame)
    BY <1>2
  <1>4. /\ q \in Seq(Frame) /\ Len(q) = Len(p) + 1 /\ q[Len(p) + 1] = f
        /\ \A k \in 1 .. Len(p) : q[k] = p[k]
    BY <1>p, PushLemma
  <1> HIDE DEF p, q, r
  <1>5. Len(q) = Len(r) /\ Len(p) + 1 = Len(s)
    BY <1>1, <1>2, <1>3, <1>4
  <1>6. \A k \in 1 .. Len(r) : r[k] = q[k]
    <2>1. \A k \in 1 .. Len(r) : k = Len(s) \/ k \in 1 .. Len(s) - 1
      BY <1>1, <1>3
    <2>2. \A k \in 1 .. Len(s) - 1 : k \in 1 .. Len(p)
      BY <1>2
    <2> QED
      BY <1>2, <1>3, <1>4, <1>5, <2>1, <2>2
  <1>7. r = q
    BY <1>3, <1>4, <1>5, <1>6, SeqEqual
  <1> QED
    BY <1>7 DEF p, q, r

\* The top frame moves on without entering its body.
LEMMA CurrSetTop ==
    ASSUME NEW s \in Seq(Frame), s # <<>>, NEW f \in Frame, NEW c,
           CurrOf(s, c), f.pc # "body"
    PROVE  CurrOf(SetTop(s, f),
                  IF s[Len(s)].pc = "body" THEN s[Len(s)].old ELSE c)
  <1>1. Pop(s) \in Seq(Frame)
    BY PopLemma
  <1>2. CurrOf(Pop(s), IF s[Len(s)].pc = "body" THEN s[Len(s)].old ELSE c)
    BY CurrPop
  <1> QED
    BY <1>1, <1>2, CurrPush, SetTopIsPopPush

\* The top frame enters its body, and saves the current task.
LEMMA CurrEnter ==
    ASSUME NEW s \in Seq(Frame), s # <<>>, NEW f \in Frame, NEW c,
           CurrOf(s, c), s[Len(s)].pc # "body", f.pc = "body", f.old = c
    PROVE  CurrOf(SetTop(s, f), f.id)
  <1>1. Len(s) \in Nat /\ Len(s) >= 1 /\ Len(s) \in 1 .. Len(s)
    BY TopLemma
  <1> DEFINE r == SetTop(s, f)
  <1>2. /\ Len(r) = Len(s) /\ r[Len(s)] = f
        /\ \A k \in 1 .. Len(s) - 1 : r[k] = s[k]
    BY SetTopLemma
  <1> HIDE DEF r
  <1>3. InnermostBody(r, Len(s), f.id)
    BY <1>1, <1>2, InnermostTop
  <1>4. InnermostBody(s, Len(s) - 1, c)
    BY <1>1, InnermostSkip DEF CurrOf
  <1>5. ASSUME NEW k \in 1 .. Len(s), r[k].pc = "body"
        PROVE  InnermostBody(r, k - 1, r[k].old)
    <2>1. InnermostBody(s, k - 1, r[k].old)
      <3>1. CASE k = Len(s)
        BY <1>2, <1>4, <3>1
      <3>2. CASE k # Len(s)
        <4>1. k \in 1 .. Len(s) - 1
          BY <1>1, <3>2
        <4> QED
          BY <1>2, <1>5, <4>1 DEF CurrOf
      <3> QED
        BY <3>1, <3>2
    <2>2. k - 1 \in Int /\ \A j \in 1 .. k - 1 : r[j] = s[j]
      BY <1>1, <1>2
    <2> QED
      BY <2>1, <2>2, InnermostSame
  <1>6. CurrOf(r, f.id)
    BY <1>2, <1>3, <1>5 DEF CurrOf
  <1> QED
    BY <1>6 DEF r

\* Creating a coroutine leaves the current task alone.
LEMMA CurrStale ==
    ASSUME NEW s \in Seq(Frame), NEW t, NEW c, CurrOf(s, c)
    PROVE  CurrOf(Stale(s, t), c)
  <1>1. Len(s) \in Nat
    BY LenProperties
  <1> DEFINE r == Stale(s, t)
  <1>2. /\ Len(r) = Len(s)
        /\ \A k \in 1 .. Len(s) : /\ r[k].pc = s[k].pc /\ r[k].id = s[k].id
                                  /\ r[k].old = s[k].old
    BY StaleLemma
  <1> HIDE DEF r
  <1>3. InnermostBody(r, Len(s), c)
    BY <1>1, <1>2, InnermostSame DEF CurrOf
  <1>4. ASSUME NEW k \in 1 .. Len(s), r[k].pc = "body"
        PROVE  InnermostBody(r, k - 1, r[k].old)
    <2>1. InnermostBody(s, k - 1, s[k].old) /\ r[k].old = s[k].old
      BY <1>2, <1>4 DEF CurrOf
    <2>2. k - 1 \in Int /\ \A j \in 1 .. k - 1 : j \in 1 .. Len(s)
      BY <1>1
    <2> QED
      BY <1>2, <2>1, <2>2, InnermostSame
  <1>5. CurrOf(r, c)
    BY <1>2, <1>3, <1>4 DEF CurrOf
  <1> QED
    BY <1>5 DEF r

----------------------------------------------------------------------------
(* Wake loops and snapshots *)

\* A call of schedule_task hides no wake loop and no snapshot, and a new wake
\* loop or activation counts.
LEMMA WakePush ==
    ASSUME NEW s \in Seq(Frame), NEW f \in Frame
    PROVE  /\ HasLoop(s) \/ f.pc = "wake" => HasLoop(Push(s, f))
           /\ \A j \in Nat : f.pc # "wake" /\ WillTake(s, j)
                                => WillTake(Push(s, f), j)
           /\ \A j \in Nat : f.pc = "wake" /\ f.pos <= j
                                => WillTake(Push(s, f), j)
           /\ \A t : \/ Snapped(s, t)
                     \/ t \in Elems(f.snap)
                     \/ f.pc \in Entering /\ f.id = t
                     => Snapped(Push(s, f), t)
  <1>1. Len(s) \in Nat
    BY LenProperties
  <1> DEFINE r == Push(s, f)
  <1>2. /\ Len(r) = Len(s) + 1 /\ r[Len(s) + 1] = f
        /\ \A k \in 1 .. Len(s) : r[k] = s[k]
    BY PushLemma
  <1> HIDE DEF r
  <1> DEFINE n == Len(s) + 1
  <1>3. /\ n \in 1 .. n
        /\ \A k \in 1 .. Len(s) : k \in 1 .. n
        /\ \A i \in n + 1 .. n : FALSE
        /\ \A k \in 1 .. Len(s) : \A i \in k + 1 .. n :
              i = n \/ (i \in k + 1 .. Len(s) /\ i \in 1 .. Len(s))
    BY <1>1
  <1>n. Len(r) = n /\ r[n] = f
    BY <1>2
  <1> HIDE DEF n
  <1>4. HasLoop(s) \/ f.pc = "wake" => HasLoop(r)
    BY <1>2, <1>n, <1>3 DEF HasLoop
  <1>5. ASSUME NEW j \in Nat, f.pc # "wake", WillTake(s, j)
        PROVE  WillTake(r, j)
    <2>1. PICK k \in 1 .. Len(s) :
               /\ s[k].pc = "wake" /\ s[k].pos <= j
               /\ \A i \in k + 1 .. Len(s) : s[i].pc # "wake"
      BY <1>5 DEF WillTake
    <2>2. \A i \in k + 1 .. n : r[i].pc # "wake"
      BY <1>2, <1>n, <1>3, <1>5, <2>1
    <2> QED
      BY <1>2, <1>n, <1>3, <2>1, <2>2 DEF WillTake
  <1>6. ASSUME NEW j \in Nat, f.pc = "wake", f.pos <= j
        PROVE  WillTake(r, j)
    BY <1>2, <1>n, <1>3, <1>6 DEF WillTake
  <1>7. ASSUME NEW t, \/ Snapped(s, t)
                      \/ t \in Elems(f.snap)
                      \/ f.pc \in Entering /\ f.id = t
        PROVE  Snapped(r, t)
    BY <1>2, <1>n, <1>3, <1>7 DEF Snapped
  <1>8. /\ HasLoop(s) \/ f.pc = "wake" => HasLoop(r)
        /\ \A j \in Nat : f.pc # "wake" /\ WillTake(s, j) => WillTake(r, j)
        /\ \A j \in Nat : f.pc = "wake" /\ f.pos <= j => WillTake(r, j)
        /\ \A t : \/ Snapped(s, t)
                  \/ t \in Elems(f.snap)
                  \/ f.pc \in Entering /\ f.id = t
                  => Snapped(r, t)
    BY <1>4, <1>5, <1>6, <1>7
  <1> QED
    BY <1>8 DEF r

\* A return from schedule_task loses a wake loop only if it is the one that
\* returns, and a task only if the top frame held it.
LEMMA WakePop ==
    ASSUME NEW s \in Seq(Frame), s # <<>>
    PROVE  /\ HasLoop(s) /\ s[Len(s)].pc # "wake" => HasLoop(Pop(s))
           /\ \A j \in Nat : s[Len(s)].pc # "wake" /\ WillTake(s, j)
                                => WillTake(Pop(s), j)
           /\ \A t : /\ Snapped(s, t)
                     /\ t \notin Elems(s[Len(s)].snap)
                     /\ ~(s[Len(s)].pc \in Entering /\ s[Len(s)].id = t)
                     => Snapped(Pop(s), t)
  <1>1. Len(s) \in Nat /\ Len(s) >= 1 /\ Len(s) \in 1 .. Len(s)
    BY TopLemma
  <1> DEFINE r == Pop(s)
  <1>2. Len(r) = Len(s) - 1 /\ \A k \in 1 .. Len(s) - 1 : r[k] = s[k]
    BY PopLemma
  <1> HIDE DEF r
  <1>3. /\ \A k \in 1 .. Len(s) : k = Len(s) \/ k \in 1 .. Len(r)
        /\ \A k \in 1 .. Len(r) : k \in 1 .. Len(s) - 1
        /\ \A k \in 1 .. Len(r) : \A i \in k + 1 .. Len(r) :
              i \in k + 1 .. Len(s) /\ i \in 1 .. Len(s) - 1
    BY <1>1, <1>2
  <1>4. HasLoop(s) /\ s[Len(s)].pc # "wake" => HasLoop(r)
    BY <1>2, <1>3 DEF HasLoop
  <1>5. ASSUME NEW j \in Nat, s[Len(s)].pc # "wake", WillTake(s, j)
        PROVE  WillTake(r, j)
    <2>1. PICK k \in 1 .. Len(s) :
               /\ s[k].pc = "wake" /\ s[k].pos <= j
               /\ \A i \in k + 1 .. Len(s) : s[i].pc # "wake"
      BY <1>5 DEF WillTake
    <2>2. k \in 1 .. Len(r) /\ r[k] = s[k]
      BY <1>2, <1>3, <1>5, <2>1
    <2>3. \A i \in k + 1 .. Len(r) : r[i].pc # "wake"
      BY <1>2, <1>3, <2>1, <2>2
    <2> QED
      BY <2>1, <2>2, <2>3 DEF WillTake
  <1>6. ASSUME NEW t, Snapped(s, t), t \notin Elems(s[Len(s)].snap),
               ~(s[Len(s)].pc \in Entering /\ s[Len(s)].id = t)
        PROVE  Snapped(r, t)
    BY <1>2, <1>3, <1>6 DEF Snapped
  <1>7. /\ HasLoop(s) /\ s[Len(s)].pc # "wake" => HasLoop(r)
        /\ \A j \in Nat : s[Len(s)].pc # "wake" /\ WillTake(s, j)
                             => WillTake(r, j)
        /\ \A t : /\ Snapped(s, t)
                  /\ t \notin Elems(s[Len(s)].snap)
                  /\ ~(s[Len(s)].pc \in Entering /\ s[Len(s)].id = t)
                  => Snapped(r, t)
    BY <1>4, <1>5, <1>6
  <1> QED
    BY <1>7 DEF r

\* If the top frame is a wake loop, it is the innermost one.
LEMMA WillTakeTop ==
    ASSUME NEW s \in Seq(Frame), s # <<>>, NEW j \in Nat,
           s[Len(s)].pc = "wake", WillTake(s, j)
    PROVE  s[Len(s)].pos <= j
  <1>1. Len(s) \in Nat /\ Len(s) >= 1 /\ Len(s) \in 1 .. Len(s)
    BY TopLemma
  <1>2. PICK k \in 1 .. Len(s) :
             /\ s[k].pc = "wake" /\ s[k].pos <= j
             /\ \A i \in k + 1 .. Len(s) : s[i].pc # "wake"
    BY DEF WillTake
  <1>3. k = Len(s) \/ Len(s) \in k + 1 .. Len(s)
    BY <1>1
  <1> QED
    BY <1>2, <1>3

\* Creating a coroutine leaves wake loops and snapshots alone.
LEMMA WakeStale ==
    ASSUME NEW s \in Seq(Frame), NEW u
    PROVE  /\ HasLoop(s) => HasLoop(Stale(s, u))
           /\ \A j \in Nat : WillTake(s, j) => WillTake(Stale(s, u), j)
           /\ \A t : Snapped(s, t) => Snapped(Stale(s, u), t)
  <1>1. Len(s) \in Nat
    BY LenProperties
  <1>2. \A k \in 1 .. Len(s) : \A i \in k + 1 .. Len(s) : i \in 1 .. Len(s)
    BY <1>1
  <1>3. /\ HasLoop(s) => HasLoop(Stale(s, u))
        /\ \A t : Snapped(s, t) => Snapped(Stale(s, u), t)
    BY StaleLemma DEF HasLoop, Snapped
  <1>4. \A j \in Nat : WillTake(s, j) => WillTake(Stale(s, u), j)
    BY <1>2, StaleLemma DEF WillTake
  <1> QED
    BY <1>3, <1>4

----------------------------------------------------------------------------
(* Facts about the frames *)

\* A new frame is well formed and holds no snapshot.
LEMMA NewFrameLemma ==
    ASSUME NEW t \in 0 .. MaxTaskId, NEW at \in PCs
    PROVE  /\ NewFrame(t, at) \in Frame
           /\ NewFrame(t, at).id = t /\ NewFrame(t, at).pc = at
           /\ NewFrame(t, at).pos = 1 /\ NewFrame(t, at).snap = <<>>
  BY ConstantsAssumption DEF NewFrame, Frame, NULL_TASK_ID

\* Task ids are not NULL_TASK_ID.
LEMMA TaskIdLemma ==
    ASSUME NEW t \in TaskIds
    PROVE  t \in 0 .. MaxTaskId /\ t # NULL_TASK_ID
  BY ConstantsAssumption DEF TaskIds, NULL_TASK_ID

\* While a body runs, curr_task_id is its task and no frame is entering.
LEMMA BodyFacts ==
    ASSUME IInv, At("body")
    PROVE  /\ stack \in Seq(Frame) /\ stack # <<>> /\ status = "ok"
           /\ Len(stack) \in Nat /\ Len(stack) >= 1
           /\ Top \in Frame /\ Top.pc = "body" /\ Top.snap = <<>>
           /\ Top.id \in TaskIds /\ Top.old \in 0 .. MaxTaskId
           /\ curr_task = Top.id
           /\ \A k \in 1 .. Len(stack) : stack[k].pc \notin Entering
  <1>1. /\ stack \in Seq(Frame) /\ stack # <<>> /\ status = "ok"
        /\ Top.pc = "body"
    BY DEF IInv, TypeOK, At
  <1>2. /\ Len(stack) \in Nat /\ Len(stack) >= 1
        /\ Len(stack) \in 1 .. Len(stack) /\ Top \in Frame
    BY <1>1, TopLemma DEF Top
  <1>3. Top.snap = <<>> /\ Top.id \in TaskIds
    BY <1>1, <1>2 DEF IInv, ShapeOf, Top
  <1>4. curr_task = Top.id
    BY <1>1, <1>2, InnermostTop DEF IInv, CurrOf, Top
  <1>5. Top.old \in 0 .. MaxTaskId
    BY <1>2 DEF Frame
  <1>6. \A k \in 1 .. Len(stack) : stack[k].pc \notin Entering
    BY <1>1, <1>2 DEF IInv, ShapeOf, Top, Entering
  <1> QED
    BY <1>1, <1>2, <1>3, <1>4, <1>5, <1>6

\* An activation about to resume a task.
LEMMA EnterFacts ==
    ASSUME IInv, \E pc \in Entering : At(pc)
    PROVE  /\ stack \in Seq(Frame) /\ stack # <<>> /\ status = "ok"
           /\ Len(stack) \in Nat /\ Len(stack) >= 1
           /\ Top \in Frame /\ Top.pc \in Entering /\ Top.snap = <<>>
           /\ Top.pc # "body" /\ Top.pc # "wake" /\ Top.pc # "all"
           /\ Top.id \in TaskIds
  <1>1. /\ stack \in Seq(Frame) /\ stack # <<>> /\ status = "ok"
        /\ Top.pc \in Entering
    BY DEF IInv, TypeOK, At
  <1>2. /\ Len(stack) \in Nat /\ Len(stack) >= 1
        /\ Len(stack) \in 1 .. Len(stack) /\ Top \in Frame
    BY <1>1, TopLemma DEF Top
  <1>3. Top.pc # "body" /\ Top.pc # "wake" /\ Top.pc # "all"
    BY <1>1 DEF Entering
  <1>4. Top.snap = <<>> /\ Top.id \in TaskIds
    BY <1>2, <1>3 DEF IInv, ShapeOf, Top
  <1> QED
    BY <1>1, <1>2, <1>3, <1>4

\* A wake loop at the top: no event is flagged, no frame is entering.
LEMMA WakeFacts ==
    ASSUME IInv, At("wake")
    PROVE  /\ stack \in Seq(Frame) /\ stack # <<>> /\ status = "ok"
           /\ Len(stack) \in Nat /\ Len(stack) >= 1
           /\ Top \in Frame /\ Top.pc = "wake" /\ Top.id \in TaskIds
           /\ Top.pos \in Nat \ {0} /\ Top.snap \in Seq(TaskIds)
           /\ ~has_wakeup
           /\ \A k \in 1 .. Len(stack) : stack[k].pc \notin Entering
  <1>1. /\ stack \in Seq(Frame) /\ stack # <<>> /\ status = "ok"
        /\ Top.pc = "wake"
    BY DEF IInv, TypeOK, At
  <1>2. /\ Len(stack) \in Nat /\ Len(stack) >= 1
        /\ Len(stack) \in 1 .. Len(stack) /\ Top \in Frame
    BY <1>1, TopLemma DEF Top
  <1>3. Top.id \in TaskIds
    BY <1>1, <1>2 DEF IInv, ShapeOf, Top
  <1>4. Top.pos \in Nat \ {0} /\ Top.snap \in Seq(TaskIds)
    BY <1>2 DEF Frame
  <1>5. ~has_wakeup
    BY <1>1 DEF IInv, SendInv
  <1>6. \A k \in 1 .. Len(stack) : stack[k].pc \notin Entering
    BY <1>1, <1>2 DEF IInv, ShapeOf, Top, Entering
  <1> QED
    BY <1>1, <1>2, <1>3, <1>4, <1>5, <1>6

\* The walk at the top is the only frame.
LEMMA AllFacts ==
    ASSUME IInv, At("all")
    PROVE  /\ stack \in Seq(Frame) /\ stack # <<>> /\ status = "ok"
           /\ Len(stack) = 1
           /\ Top \in Frame /\ Top.pc = "all" /\ Top.snap = <<>>
           /\ Top.id \in 0 .. MaxTaskId
           /\ ~has_wakeup
           /\ \A k \in 1 .. Len(stack) : stack[k].pc \notin Entering
  <1>1. /\ stack \in Seq(Frame) /\ stack # <<>> /\ status = "ok"
        /\ Top.pc = "all"
    BY DEF IInv, TypeOK, At
  <1>2. /\ Len(stack) \in Nat /\ Len(stack) >= 1
        /\ Len(stack) \in 1 .. Len(stack) /\ Top \in Frame
    BY <1>1, TopLemma DEF Top
  <1>3. Top.snap = <<>> /\ Len(stack) = 1
    BY <1>1, <1>2 DEF IInv, ShapeOf, Top
  <1>4. Top.id \in 0 .. MaxTaskId
    BY <1>2 DEF Frame
  <1>5. ~has_wakeup
    BY <1>1 DEF IInv, SendInv
  <1>6. \A k \in 1 .. Len(stack) : stack[k].pc \notin Entering
    BY <1>1, <1>2 DEF IInv, ShapeOf, Top, Entering
  <1> QED
    BY <1>1, <1>2, <1>3, <1>4, <1>5, <1>6

----------------------------------------------------------------------------
(* The initial state *)

\* The scheduler starts with an empty stack and nothing registered.
LEMMA InitInv == Init => IInv
  <1> SUFFICES ASSUME Init PROVE IInv
    OBVIOUS
  <1>1. TypeOK
    <2>1. next_task_id \in 1 .. MaxTaskId + 1 /\ curr_task \in 0 .. MaxTaskId
      BY ConstantsAssumption DEF Init, NULL_TASK_ID
    <2>2. /\ pending \in Seq(TaskIds) /\ pending_wakeup \in Seq(Events)
          /\ stack \in Seq(Frame) /\ waiters \in [Events -> Seq(TaskIds)]
      BY EmptySeq DEF Init
    <2> QED
      BY <2>1, <2>2 DEF Init, TypeOK
  <1>2. ShapeOf(stack) /\ CurrOf(stack, curr_task)
    BY DEF Init, ShapeOf, CurrOf, InnermostBody
  <1>3. CountInv
    BY FS_EmptySet DEF Init, CountInv
  <1>4. SendInv /\ OwedInv
    BY DEF Init, SendInv, OwedInv
  <1> QED
    BY <1>1, <1>2, <1>3, <1>4 DEF IInv
----------------------------------------------------------------------------
(* Body operations that leave the stack alone *)

\* EventHandle:remove forgets only the name of the event.
LEMMA RemoveEventInv ==
    ASSUME IInv, NEW e \in Events, RemoveEvent(e)
    PROVE  IInv'
  <1>1. TypeOK'
    BY DEF IInv, TypeOK, RemoveEvent, taskVars, removalVars, wakeVars,
           outerVars, ghostVars
  <1>2. ShapeOf(stack') /\ CurrOf(stack', curr_task')
    BY DEF IInv, RemoveEvent
  <1>3. CountInv'
    BY DEF IInv, CountInv, RemoveEvent, removalVars
  <1>4. SendInv'
    BY DEF IInv, SendInv, RemoveEvent, wakeVars, outerVars, Top, HasLoop
  <1>5. OwedInv'
    BY DEF IInv, OwedInv, RemoveEvent, wakeVars, outerVars, ghostVars,
           OwedWait, Snapped, WillTake
  <1> QED
    BY <1>1, <1>2, <1>3, <1>4, <1>5 DEF IInv

\* A new event handle has no waiters; those it drops are owed nothing only where
\* there are none.
LEMMA NewEventHdlInv ==
    ASSUME IInv, NEW e \in Events, NewEventHdl(e)
    PROVE  IInv'
  <1>w. waiters \in [Events -> Seq(TaskIds)]
    BY DEF IInv, TypeOK
  <1>1. TypeOK'
    <2>1. waiters' \in [Events -> Seq(TaskIds)]
      BY <1>w, EmptySeq DEF NewEventHdl
    <2> QED
      BY <2>1 DEF IInv, TypeOK, NewEventHdl, taskVars, removalVars, wakeVars,
                  outerVars, ghostVars
  <1>2. ShapeOf(stack') /\ CurrOf(stack', curr_task')
    BY DEF IInv, NewEventHdl
  <1>3. CountInv'
    BY DEF IInv, CountInv, NewEventHdl, removalVars
  <1>4. SendInv'
    BY DEF IInv, SendInv, NewEventHdl, wakeVars, outerVars, Top, HasLoop
  <1>5. OwedInv'
    <2> SUFFICES ASSUME KeepsWaiters PROVE OwedInv'
      BY DEF OwedInv
    <2>1. waiters' = waiters
      BY <1>w DEF NewEventHdl, KeepsWaiters
    <2> QED
      BY <2>1 DEF IInv, OwedInv, NewEventHdl, wakeVars, outerVars, ghostVars,
                  OwedWait, Snapped, WillTake
  <1> QED
    BY <1>1, <1>2, <1>3, <1>4, <1>5 DEF IInv

\* A sent event is flagged, and its waiters are owed a wakeup by its entry.
LEMMA SendEventInv ==
    ASSUME IInv, NEW e \in Events, SendEvent(e)
    PROVE  IInv'
  <1>w. waiters \in [Events -> Seq(TaskIds)] /\ pending_wakeup \in Seq(Events)
    BY DEF IInv, TypeOK
  <1>p. /\ pending_wakeup' = Append(pending_wakeup, e)
        /\ Len(pending_wakeup') = Len(pending_wakeup) + 1
        /\ pending_wakeup'[Len(pending_wakeup) + 1] = e
        /\ \A k \in 1 .. Len(pending_wakeup) :
              pending_wakeup'[k] = pending_wakeup[k]
        /\ Len(pending_wakeup) \in Nat
    BY <1>w DEF SendEvent
  <1>b. stack # <<>> /\ Top.pc = "body" /\ status = "ok"
    BY DEF SendEvent, InBody, At
  <1>u. /\ has_wakeup' = TRUE /\ stack' = stack /\ curr_task' = curr_task
        /\ status' = status /\ waiters' = waiters
        /\ owed' = owed \cup Elems(waiters[e])
        /\ UNCHANGED removalVars
    BY DEF SendEvent, outerVars, eventVars
  <1>1. TypeOK'
    <2>1. pending_wakeup' \in Seq(Events)
      BY <1>w DEF SendEvent
    <2>2. owed' \subseteq TaskIds
      <3>1. Elems(waiters[e]) \subseteq TaskIds
        BY <1>w, ElementOfSeq DEF Elems
      <3> QED
        BY <3>1, <1>u DEF IInv, TypeOK
    <2> QED
      BY <2>1, <2>2 DEF IInv, TypeOK, SendEvent, taskVars, removalVars,
                        eventVars, outerVars
  <1>2. ShapeOf(stack') /\ CurrOf(stack', curr_task')
    BY <1>u DEF IInv
  <1>3. CountInv'
    BY <1>u DEF IInv, CountInv, removalVars
  <1>4. SendInv'
    BY <1>u, <1>b DEF SendInv, Top
  <1>5. OwedInv'
    <2> SUFFICES ASSUME KeepsWaiters, NEW t \in owed'
                 PROVE  Snapped(stack, t) \/ OwedWait(t)'
      BY <1>u DEF OwedInv, Snapped
    <2>1. CASE OwedWait(t)
      <3>1. PICK j \in 1 .. Len(pending_wakeup) :
                 t \in Elems(waiters[pending_wakeup[j]])
        BY <2>1 DEF OwedWait
      <3>2. j \in 1 .. Len(pending_wakeup') /\ pending_wakeup'[j] = pending_wakeup[j]
        BY <1>p, <3>1
      <3> QED
        BY <1>u, <3>1, <3>2 DEF OwedWait
    <2>2. CASE t \in Elems(waiters[e])
      <3>1. Len(pending_wakeup) + 1 \in 1 .. Len(pending_wakeup')
        BY <1>p
      <3> QED
        BY <1>p, <1>u, <2>2, <3>1 DEF OwedWait
    <2>3. CASE t \in owed
      BY <1>b, <2>1, <2>3 DEF IInv, OwedInv
    <2> QED
      BY <1>u, <2>2, <2>3
  <1> QED
    BY <1>1, <1>2, <1>3, <1>4, <1>5 DEF IInv

\* The removal flags are finitely many.
LEMMA RemovedFinite ==
    ASSUME IInv
    PROVE  IsFiniteSet(removed) /\ Cardinality(removed) \in Nat
  <1>1. IsFiniteSet(TaskIds)
    BY ConstantsAssumption, FS_Interval DEF TaskIds
  <1>2. removed \subseteq TaskIds
    BY DEF IInv, TypeOK
  <1> QED
    BY <1>1, <1>2, FS_Subset, FS_CardinalityType

\* remove_task counts every flag it sets, and a task it takes out of a waiter
\* list is owed nothing.
LEMMA RemoveTaskInv ==
    ASSUME IInv, NEW t \in TaskIds, RemoveTask(t)
    PROVE  IInv'
  <1>w. /\ waiters \in [Events -> Seq(TaskIds)] /\ pending_wakeup \in Seq(Events)
        /\ task_event \in [TaskIds -> Events \cup {NoEvent}]
        /\ removed \subseteq TaskIds /\ nr_removed \in Nat
        /\ owed \subseteq TaskIds
    BY DEF IInv, TypeOK
  <1>u. /\ UNCHANGED wakeVars /\ stack' = stack /\ curr_task' = curr_task
        /\ status' = status /\ pending' = pending /\ nr_pending' = nr_pending
    BY DEF RemoveTask, outerVars
  <1>e. \/ waiters' = waiters /\ owed' = owed
        \/ \E e \in Events : \E k \in 1 .. Len(waiters[e]) :
              /\ waiters[e][k] = t
              /\ waiters' = [waiters EXCEPT ![e] = RemoveAt(waiters[e], k)]
              /\ owed' = owed \ {t}
    <2>1. task_event[t] \in Events \cup {NoEvent}
      BY <1>w
    <2> QED
      BY <2>1 DEF RemoveTask, Positions
  <1>v. /\ waiters' \in [Events -> Seq(TaskIds)]
        /\ owed' \subseteq owed
        /\ \A f \in Events : \A x \in Elems(waiters[f]) :
              x \in owed' => x \in Elems(waiters'[f])
    <2>1. CASE waiters' = waiters /\ owed' = owed
      BY <1>w, <2>1
    <2>2. ASSUME NEW e \in Events, NEW k \in 1 .. Len(waiters[e]),
                 waiters[e][k] = t,
                 waiters' = [waiters EXCEPT ![e] = RemoveAt(waiters[e], k)],
                 owed' = owed \ {t}
          PROVE  /\ waiters' \in [Events -> Seq(TaskIds)]
                 /\ owed' \subseteq owed
                 /\ \A f \in Events : \A x \in Elems(waiters[f]) :
                       x \in owed' => x \in Elems(waiters'[f])
      <3>1. waiters[e] \in Seq(TaskIds)
        BY <1>w
      <3>2. /\ RemoveAt(waiters[e], k) \in Seq(TaskIds)
            /\ \A x \in Elems(waiters[e]) :
                  x # waiters[e][k] => x \in Elems(RemoveAt(waiters[e], k))
        BY <3>1, RemoveAtLemma
      <3> QED
        BY <1>w, <2>2, <3>2
    <2> QED
      BY <1>e, <2>1, <2>2
  <1>c. /\ removed' \subseteq TaskIds /\ nr_removed' \in Nat
        /\ nr_removed' >= Cardinality(removed')
    <2>1. /\ IsFiniteSet(removed) /\ Cardinality(removed) \in Nat
          /\ nr_removed >= Cardinality(removed)
      BY RemovedFinite DEF IInv, CountInv
    <2>2. CASE removed' = removed /\ nr_removed' = nr_removed
      BY <1>w, <2>1, <2>2
    <2>3. CASE removed' = removed \cup {t} /\ nr_removed' = nr_removed + 1
      <3>1. Cardinality(removed \cup {t}) \in {Cardinality(removed), Cardinality(removed) + 1}
        BY <2>1, FS_AddElement
      <3> QED
        BY <1>w, <2>1, <2>3, <3>1
    <2> QED
      BY <2>2, <2>3 DEF RemoveTask
  <1>1. TypeOK'
    BY <1>w, <1>v, <1>c DEF IInv, TypeOK, RemoveTask, taskVars, wakeVars, outerVars
  <1>2. ShapeOf(stack') /\ CurrOf(stack', curr_task')
    BY <1>u DEF IInv
  <1>3. CountInv'
    BY <1>u, <1>c DEF IInv, CountInv
  <1>4. SendInv'
    BY <1>u DEF IInv, SendInv, wakeVars, Top, HasLoop
  <1>5. OwedInv'
    <2> SUFFICES ASSUME status = "ok", KeepsWaiters, NEW x \in owed'
                 PROVE  Snapped(stack, x) \/ OwedWait(x)'
      BY <1>u DEF OwedInv, Snapped
    <2>1. CASE OwedWait(x)
      <3>1. PICK j \in 1 .. Len(pending_wakeup) :
                 /\ x \in Elems(waiters[pending_wakeup[j]])
                 /\ has_wakeup \/ WillTake(stack, j)
        BY <2>1 DEF OwedWait
      <3>2. x \in Elems(waiters'[pending_wakeup[j]])
        BY <1>w, <1>v, <3>1, ElementOfSeq
      <3> QED
        BY <1>u, <3>1, <3>2 DEF OwedWait, wakeVars, WillTake
    <2> QED
      BY <1>v, <2>1 DEF IInv, OwedInv
  <1> QED
    BY <1>1, <1>2, <1>3, <1>4, <1>5 DEF IInv
----------------------------------------------------------------------------
(* The body ends or yields *)

\* Leaving a body restores curr_task_id; if an event was sent, at the end of the
\* body too, its frame becomes the innermost wake loop, with every entry still
\* before it.
LEMMA LeaveBodyInv ==
    ASSUME IInv, At("body"), NEW st \in {"suspended", "exited", "dead"},
           NEW sent \in BOOLEAN, has_wakeup => sent,
           stack' = IF sent THEN SetTop(stack, NewFrame(Top.id, "wake")) ELSE Pop(stack),
           curr_task' = Top.old, ~ has_wakeup', status' = status,
           co' = co \/ co' = [co EXCEPT ![Top.id] = st],
           \A k \in 1 .. Len(pending_wakeup) :
             k \in 1 .. Len(pending_wakeup') /\ pending_wakeup'[k] = pending_wakeup[k],
           ~ sent => pending_wakeup' = pending_wakeup,
           \A t \in owed' : \/ t \in owed
                            \/ sent /\ \E k \in 1 .. Len(pending_wakeup') :
                                         t \in Elems(waiters'[pending_wakeup'[k]]),
           \A e \in Events : Elems(waiters[e]) \subseteq Elems(waiters'[e])
    PROVE  /\ stack' \in Seq(Frame) /\ curr_task' \in 0 .. MaxTaskId
           /\ co' \in [TaskIds -> {"none", "fresh", "suspended", "active",
                                   "exited", "dead"}]
           /\ ShapeOf(stack') /\ CurrOf(stack', curr_task')
           /\ SendInv' /\ OwedInv'
           /\ \A k \in Nat : k >= 1 /\ (sent \/ WillTake(stack, k)) => WillTake(stack', k)
  <1>b. /\ stack \in Seq(Frame) /\ stack # <<>> /\ status = "ok"
        /\ Len(stack) \in Nat /\ Len(stack) >= 1
        /\ Top \in Frame /\ Top.pc = "body" /\ Top.snap = <<>>
        /\ Top.id \in TaskIds /\ Top.old \in 0 .. MaxTaskId
    BY BodyFacts
  <1>i. /\ ShapeOf(stack) /\ CurrOf(stack, curr_task)
        /\ has_wakeup \in BOOLEAN /\ pending_wakeup \in Seq(Events)
        /\ pending_wakeup # <<>> => has_wakeup \/ HasLoop(stack)
        /\ KeepsWaiters => \A t \in owed : Snapped(stack, t) \/ OwedWait(t)
    BY <1>b DEF IInv, TypeOK, SendInv, OwedInv
  <1>c. co' \in [TaskIds -> {"none", "fresh", "suspended", "active",
                             "exited", "dead"}]
    BY <1>b DEF IInv, TypeOK
  <1> DEFINE p == Pop(stack)
             f == NewFrame(Top.id, "wake")
  <1>f. f \in Frame /\ f.pc = "wake" /\ f.pos = 1 /\ f.snap = <<>> /\ f.id \in TaskIds
    BY <1>b, NewFrameLemma, TaskIdLemma DEF PCs
  <1>p. /\ p \in Seq(Frame) /\ ShapeOf(p) /\ CurrOf(p, Top.old)
    BY <1>b, <1>i, PopLemma, ShapePop, CurrPop DEF Top
  <1>s. SetTop(stack, f) = Push(p, f)
    BY <1>b, <1>f, SetTopIsPopPush
  <1>w. /\ HasLoop(stack) => HasLoop(p)
        /\ \A k \in Nat : WillTake(stack, k) => WillTake(p, k)
        /\ \A t : Snapped(stack, t) => Snapped(p, t)
    BY <1>b, WakePop DEF Top, Entering, Elems
  <1>x. ShapeOf(SetTop(stack, f))
    BY <1>b, <1>i, <1>f, ShapeSetTop DEF Top
  <1>y. CurrOf(SetTop(stack, f), Top.old)
    BY <1>b, <1>i, <1>f, CurrSetTop DEF Top
  <1>h. Push(p, f) \in Seq(Frame)
    BY <1>p, <1>f, PushLemma
  <1>u. stack' = IF sent THEN Push(p, f) ELSE p
    BY <1>s
  <1> HIDE DEF p, f
  <1>1. stack' \in Seq(Frame) /\ ShapeOf(stack') /\ CurrOf(stack', curr_task')
    BY <1>u, <1>p, <1>s, <1>x, <1>y, <1>h
  <1>l. /\ HasLoop(Push(p, f))
        /\ \A k \in Nat : k >= 1 => WillTake(Push(p, f), k)
        /\ \A t : Snapped(p, t) => Snapped(Push(p, f), t)
    BY <1>p, <1>f, WakePush
  <1>2. \A k \in Nat : k >= 1 /\ (sent \/ WillTake(stack, k)) => WillTake(stack', k)
    BY <1>l, <1>u, <1>w
  <1>3. SendInv'
    <2>1. CASE sent
      BY <1>l, <1>u, <2>1 DEF SendInv
    <2>2. CASE ~ sent
      BY <1>i, <1>u, <1>w, <2>2 DEF SendInv
    <2> QED
      BY <2>1, <2>2
  <1>4. OwedInv'
    <2> SUFFICES ASSUME KeepsWaiters, NEW t \in owed'
                 PROVE  Snapped(stack', t) \/ OwedWait(t)'
      BY DEF OwedInv
    <2>1. CASE t \in owed /\ Snapped(stack, t)
      BY <1>l, <1>u, <1>w, <2>1
    <2>2. CASE t \in owed /\ OwedWait(t)
      <3>1. PICK k \in 1 .. Len(pending_wakeup) :
                 /\ t \in Elems(waiters[pending_wakeup[k]])
                 /\ has_wakeup \/ WillTake(stack, k)
        BY <2>2 DEF OwedWait
      <3>2. k \in Nat /\ k >= 1 /\ pending_wakeup[k] \in Events
        BY <1>i, <3>1, ElementOfSeq
      <3>3. t \in Elems(waiters'[pending_wakeup'[k]]) /\ k \in 1 .. Len(pending_wakeup')
        BY <3>1, <3>2
      <3>4. WillTake(stack', k)
        BY <1>2, <3>1, <3>2
      <3> QED
        BY <3>3, <3>4 DEF OwedWait
    <2>3. CASE t \notin owed
      <3>1. PICK k \in 1 .. Len(pending_wakeup') : t \in Elems(waiters'[pending_wakeup'[k]])
        BY <2>3
      <3>2. k \in Nat /\ k >= 1
        BY <3>1
      <3>3. WillTake(stack', k)
        BY <1>2, <2>3, <3>2
      <3> QED
        BY <3>1, <3>3 DEF OwedWait
    <2> QED
      BY <1>i, <2>1, <2>2, <2>3
  <1> QED
    BY <1>b, <1>c, <1>1, <1>2, <1>3, <1>4

\* The same, for what AfterBody does.
LEMMA AfterBodyInv ==
    ASSUME IInv, At("body"), NEW st \in {"suspended", "exited", "dead"},
           AfterBody(st),
           \A e \in Events : Elems(waiters[e]) \subseteq Elems(waiters'[e])
    PROVE  /\ stack' \in Seq(Frame) /\ curr_task' \in 0 .. MaxTaskId
           /\ co' \in [TaskIds -> {"none", "fresh", "suspended", "active",
                                   "exited", "dead"}]
           /\ ShapeOf(stack') /\ CurrOf(stack', curr_task')
           /\ SendInv' /\ OwedInv'
           /\ \A k \in Nat : /\ k >= 1 /\ (has_wakeup \/ WillTake(stack, k))
                              => WillTake(stack', k)
  <1>1. /\ curr_task' = Top.old /\ ~ has_wakeup'
        /\ pending_wakeup' = pending_wakeup /\ owed' = owed /\ status' = status
        /\ stack' = IF has_wakeup THEN SetTop(stack, NewFrame(Top.id, "wake"))
                    ELSE Pop(stack)
        /\ co' = co \/ co' = [co EXCEPT ![Top.id] = st]
    BY DEF AfterBody, outerVars, ghostVars
  <1>2. has_wakeup \in BOOLEAN
    BY DEF IInv, TypeOK
  <1> QED
    BY <1>1, <1>2, LeaveBodyInv

\* await_*: a callback is registered for the current task.
LEMMA AwaitCallbackInv ==
    ASSUME IInv, AwaitCallback
    PROVE  IInv'
  <1>0. At("body") /\ AfterBody("suspended") /\ waiters' = waiters
    BY DEF AwaitCallback, InBody, Yield
  <1>1. /\ stack' \in Seq(Frame) /\ curr_task' \in 0 .. MaxTaskId
        /\ co' \in [TaskIds -> {"none", "fresh", "suspended", "active",
                                "exited", "dead"}]
        /\ ShapeOf(stack') /\ CurrOf(stack', curr_task')
        /\ SendInv' /\ OwedInv'
    BY <1>0, AfterBodyInv
  <1>2. curr_task \in TaskIds
    BY <1>0, BodyFacts
  <1>3. TypeOK'
    <2>1. cbs' \in [TaskIds -> Nat]
      BY <1>2 DEF IInv, TypeOK, AwaitCallback
    <2> QED
      BY <1>1, <2>1 DEF IInv, TypeOK, AwaitCallback, Yield, AfterBody,
                        taskVars, outerVars, ghostVars
  <1>4. CountInv'
    BY DEF IInv, CountInv, AwaitCallback, Yield, AfterBody
  <1> QED
    BY <1>1, <1>3, <1>4 DEF IInv

\* EventHandle:wait appends the current task to the waiters of the event.
LEMMA WaitEventInv ==
    ASSUME IInv, NEW e \in Events, WaitEvent(e)
    PROVE  IInv'
  <1>0. At("body") /\ AfterBody("suspended")
    BY DEF WaitEvent, InBody, Yield
  <1>2. curr_task \in TaskIds
    BY <1>0, BodyFacts
  <1>w. /\ waiters \in [Events -> Seq(TaskIds)]
        /\ waiters' = [waiters EXCEPT ![e] = Append(waiters[e], curr_task)]
    BY DEF IInv, TypeOK, WaitEvent, RegisterEvent
  <1>v. /\ waiters' \in [Events -> Seq(TaskIds)]
        /\ \A x \in Events : Elems(waiters[x]) \subseteq Elems(waiters'[x])
    <2>1. Append(waiters[e], curr_task) \in Seq(TaskIds)
      BY <1>w, <1>2
    <2>2. Elems(Append(waiters[e], curr_task)) = Elems(waiters[e]) \cup {curr_task}
      BY <1>w, <1>2, ElemsLemma
    <2> QED
      BY <1>w, <2>1, <2>2
  <1>1. /\ stack' \in Seq(Frame) /\ curr_task' \in 0 .. MaxTaskId
        /\ co' \in [TaskIds -> {"none", "fresh", "suspended", "active",
                                "exited", "dead"}]
        /\ ShapeOf(stack') /\ CurrOf(stack', curr_task')
        /\ SendInv' /\ OwedInv'
    BY <1>0, <1>v, AfterBodyInv
  <1>3. TypeOK'
    <2>1. task_event' \in [TaskIds -> Events \cup {NoEvent}]
      BY <1>2 DEF IInv, TypeOK, WaitEvent, RegisterEvent
    <2> QED
      BY <1>1, <1>v, <2>1 DEF IInv, TypeOK, WaitEvent, Yield, AfterBody,
                              taskVars, outerVars, ghostVars
  <1>4. CountInv'
    BY DEF IInv, CountInv, WaitEvent, Yield, AfterBody
  <1> QED
    BY <1>1, <1>3, <1>4 DEF IInv

\* A task that ended is counted among those to be forgotten.
LEMMA EndInv ==
    ASSUME IInv, At("body"), NEW st \in {"exited", "dead"}, End(st)
    PROVE  IInv'
  <1>0. AfterBody(st) /\ waiters' = waiters
    BY DEF End
  <1>1. /\ stack' \in Seq(Frame) /\ curr_task' \in 0 .. MaxTaskId
        /\ co' \in [TaskIds -> {"none", "fresh", "suspended", "active",
                                "exited", "dead"}]
        /\ ShapeOf(stack') /\ CurrOf(stack', curr_task')
        /\ SendInv' /\ OwedInv'
    BY <1>0, AfterBodyInv
  <1>2. Top.id \in TaskIds
    BY BodyFacts
  <1>3. /\ pending' \in Seq(TaskIds) /\ nr_pending' \in Nat
        /\ nr_pending' = Len(pending')
    <2>1. pending \in Seq(TaskIds) /\ nr_pending = Len(pending)
      BY DEF IInv, TypeOK, CountInv
    <2>2. pending' = Append(pending, Top.id) /\ nr_pending' = nr_pending + 1
      BY DEF End
    <2> QED
      BY <1>2, <2>1, <2>2
  <1>4. TypeOK'
    BY <1>1, <1>3 DEF IInv, TypeOK, End, AfterBody, taskVars, outerVars,
                      ghostVars
  <1>5. CountInv'
    BY <1>3 DEF IInv, CountInv, End, AfterBody
  <1> QED
    BY <1>1, <1>4, <1>5 DEF IInv

\* An aborted simulation has no activations left.
LEMMA AbortInv ==
    ASSUME IInv, NEW why \in {"error", "resume"}, Abort(why)
    PROVE  IInv'
  <1>1. TypeOK'
    <2>1. stack' \in Seq(Frame) /\ curr_task' \in 0 .. MaxTaskId
      BY ConstantsAssumption, EmptySeq DEF Abort, NULL_TASK_ID
    <2> QED
      BY <2>1 DEF IInv, TypeOK, Abort, taskVars, removalVars, eventVars,
                  wakeVars, ghostVars
  <1>2. ShapeOf(stack') /\ CurrOf(stack', curr_task')
    BY DEF Abort, ShapeOf, CurrOf, InnermostBody
  <1>3. CountInv'
    BY DEF IInv, CountInv, Abort, removalVars
  <1>4. SendInv' /\ OwedInv'
    BY DEF SendInv, OwedInv, Abort
  <1> QED
    BY <1>1, <1>2, <1>3, <1>4 DEF IInv
----------------------------------------------------------------------------
(* The first statements of schedule_task *)

\* A removed task is dropped: its flag and one count go.
LEMMA SkipRemovedInv ==
    ASSUME IInv, SkipRemoved
    PROVE  IInv'
  <1>b. /\ stack \in Seq(Frame) /\ stack # <<>> /\ status = "ok"
        /\ Len(stack) \in Nat /\ Len(stack) >= 1
        /\ Top \in Frame /\ Top.pc \in Entering /\ Top.snap = <<>>
        /\ Top.pc # "body" /\ Top.pc # "wake" /\ Top.pc # "all"
        /\ Top.id \in TaskIds
    BY EnterFacts DEF SkipRemoved
  <1>u. /\ stack' = Pop(stack) /\ owed' = owed \ {Top.id}
        /\ UNCHANGED <<wakeVars, curr_task, status, waiters>>
        /\ pending' = <<>> /\ nr_pending' = 0
        /\ removed' = removed \ {Top.id} /\ nr_removed' = nr_removed - 1
        /\ Top.id \in removed
    BY DEF SkipRemoved, outerVars, eventVars, ForgetEnded
  <1>i. /\ ShapeOf(stack) /\ CurrOf(stack, curr_task)
        /\ pending_wakeup # <<>> => has_wakeup \/ HasLoop(stack)
        /\ has_wakeup => Top.pc = "start" /\ Len(stack) > 1
        /\ KeepsWaiters => \A t \in owed : Snapped(stack, t) \/ OwedWait(t)
    BY <1>b DEF IInv, SendInv, OwedInv
  <1>p. /\ Pop(stack) \in Seq(Frame) /\ ShapeOf(Pop(stack))
        /\ CurrOf(Pop(stack), curr_task) /\ Len(Pop(stack)) = Len(stack) - 1
        /\ \A k \in 1 .. Len(stack) - 1 : Pop(stack)[k] = stack[k]
    BY <1>b, <1>i, PopLemma, ShapePop, CurrPop DEF Top
  <1>w. /\ HasLoop(stack) => HasLoop(Pop(stack))
        /\ \A j \in Nat : WillTake(stack, j) => WillTake(Pop(stack), j)
        /\ \A t : Snapped(stack, t) /\ t # Top.id => Snapped(Pop(stack), t)
    BY <1>b, WakePop DEF Top, Elems
  <1>c. /\ nr_removed' \in Nat /\ nr_removed' >= Cardinality(removed')
    <2>1. /\ IsFiniteSet(removed) /\ Cardinality(removed) \in Nat
          /\ nr_removed >= Cardinality(removed) /\ nr_removed \in Nat
      BY RemovedFinite DEF IInv, CountInv, TypeOK
    <2>2. Cardinality(removed \ {Top.id}) = Cardinality(removed) - 1
      BY <1>u, <2>1, FS_RemoveElement
    <2>3. Cardinality(removed) > 0
      BY <1>u, <2>1, FS_EmptySet
    <2> QED
      BY <1>u, <2>1, <2>2, <2>3
  <1>1. TypeOK'
    <2>1. pending' \in Seq(TaskIds)
      BY <1>u, EmptySeq
    <2> QED
      BY <1>b, <1>u, <1>p, <1>c, <2>1
         DEF IInv, TypeOK, SkipRemoved, eventVars, wakeVars, outerVars
  <1>2. ShapeOf(stack') /\ CurrOf(stack', curr_task')
    BY <1>u, <1>p
  <1>3. CountInv'
    BY <1>u, <1>c DEF CountInv
  <1>4. SendInv'
    <2>1. ASSUME has_wakeup
          PROVE  /\ stack' # <<>> /\ stack'[Len(stack')].pc = "body"
      <3>1. Len(stack) \in 1 .. Len(stack) /\ Len(stack) - 1 \in 1 .. Len(stack) - 1
        BY <1>b, <1>i, <2>1
      <3>2. stack[Len(stack) - 1].pc = "body"
        BY <1>i, <2>1, <3>1 DEF ShapeOf, Top
      <3>3. Len(stack') = Len(stack) - 1 /\ stack'[Len(stack) - 1].pc = "body"
        BY <1>u, <1>p, <3>1, <3>2
      <3> QED
        BY <1>b, <1>i, <2>1, <3>3
    <2> QED
      BY <1>u, <1>i, <1>w, <2>1 DEF SendInv, Top, wakeVars
  <1>5. OwedInv'
    <2> SUFFICES ASSUME KeepsWaiters, NEW t \in owed, t # Top.id
                 PROVE  Snapped(stack', t) \/ OwedWait(t)'
      BY <1>u DEF OwedInv
    <2>1. CASE Snapped(stack, t)
      BY <1>u, <1>w, <2>1
    <2>2. CASE OwedWait(t)
      <3>1. PICK j \in 1 .. Len(pending_wakeup) :
                 /\ t \in Elems(waiters[pending_wakeup[j]])
                 /\ has_wakeup \/ WillTake(stack, j)
        BY <2>2 DEF OwedWait
      <3>2. has_wakeup \/ WillTake(stack', j)
        BY <1>u, <1>w, <3>1
      <3> QED
        BY <1>u, <3>1, <3>2 DEF OwedWait, wakeVars
    <2> QED
      BY <1>i, <2>1, <2>2
  <1> QED
    BY <1>1, <1>2, <1>3, <1>4, <1>5 DEF IInv

\* The coroutine is resumed: its task becomes the current one.
LEMMA ResumeInv ==
    ASSUME IInv, Resume
    PROVE  IInv'
  <1>b. /\ stack \in Seq(Frame) /\ stack # <<>> /\ status = "ok"
        /\ Len(stack) \in Nat /\ Len(stack) >= 1
        /\ Top \in Frame /\ Top.pc \in Entering /\ Top.snap = <<>>
        /\ Top.pc # "body" /\ Top.pc # "wake" /\ Top.pc # "all"
        /\ Top.id \in TaskIds
    BY EnterFacts DEF Resume
  <1> DEFINE p == Pop(stack)
             f == [Top EXCEPT !.pc = "body", !.old = curr_task]
  <1>u. /\ stack' = SetTop(stack, f) /\ owed' = owed \ {Top.id}
        /\ UNCHANGED <<wakeVars, status, waiters>> /\ curr_task' = Top.id
        /\ pending' = <<>> /\ nr_pending' = 0
        /\ removed' = removed /\ nr_removed' = nr_removed
    BY DEF Resume, outerVars, eventVars, ForgetEnded
  <1>i. /\ ShapeOf(stack) /\ CurrOf(stack, curr_task)
        /\ curr_task \in 0 .. MaxTaskId
        /\ pending_wakeup # <<>> => has_wakeup \/ HasLoop(stack)
        /\ KeepsWaiters => \A t \in owed : Snapped(stack, t) \/ OwedWait(t)
    BY <1>b DEF IInv, SendInv, OwedInv, TypeOK
  <1>f. /\ f \in Frame /\ f.pc = "body" /\ f.old = curr_task /\ f.id = Top.id
        /\ f.snap = <<>>
    BY <1>b, <1>i DEF Frame, PCs
  <1> HIDE DEF f
  <1>s. /\ SetTop(stack, f) \in Seq(Frame) /\ SetTop(stack, f) # <<>>
        /\ Len(SetTop(stack, f)) = Len(stack) /\ SetTop(stack, f)[Len(stack)] = f
    BY <1>b, <1>f, SetTopLemma
  <1>x. ShapeOf(SetTop(stack, f))
    BY <1>b, <1>i, <1>f, ShapeSetTop DEF Top
  <1>y. CurrOf(SetTop(stack, f), Top.id)
    BY <1>b, <1>i, <1>f, CurrEnter DEF Top
  <1>q. p \in Seq(Frame) /\ SetTop(stack, f) = Push(p, f)
    BY <1>b, <1>f, SetTopIsPopPush, PopLemma
  <1>w. /\ HasLoop(stack) => HasLoop(p)
        /\ \A j \in Nat : WillTake(stack, j) => WillTake(p, j)
        /\ \A t : Snapped(stack, t) /\ t # Top.id => Snapped(p, t)
    BY <1>b, WakePop DEF Top, Elems
  <1> HIDE DEF p
  <1>v. /\ HasLoop(p) => HasLoop(Push(p, f))
        /\ \A j \in Nat : WillTake(p, j) => WillTake(Push(p, f), j)
        /\ \A t : Snapped(p, t) => Snapped(Push(p, f), t)
    BY <1>q, <1>f, WakePush
  <1>1. TypeOK'
    <2>1. pending' \in Seq(TaskIds) /\ curr_task' \in 0 .. MaxTaskId
      BY <1>u, <1>b, EmptySeq, TaskIdLemma
    <2>2. co' \in [TaskIds -> {"none", "fresh", "suspended", "active",
                               "exited", "dead"}]
      BY <1>b DEF IInv, TypeOK, Resume
    <2> QED
      BY <1>u, <1>s, <2>1, <2>2
         DEF IInv, TypeOK, Resume, eventVars, wakeVars, outerVars
  <1>2. ShapeOf(stack') /\ CurrOf(stack', curr_task')
    BY <1>u, <1>x, <1>y
  <1>3. CountInv'
    BY <1>u DEF IInv, CountInv
  <1>4. SendInv'
    BY <1>u, <1>i, <1>s, <1>f, <1>q, <1>w, <1>v DEF SendInv, Top, wakeVars
  <1>5. OwedInv'
    <2> SUFFICES ASSUME KeepsWaiters, NEW t \in owed, t # Top.id
                 PROVE  Snapped(stack', t) \/ OwedWait(t)'
      BY <1>u DEF OwedInv
    <2>1. CASE Snapped(stack, t)
      BY <1>u, <1>q, <1>w, <1>v, <2>1
    <2>2. CASE OwedWait(t)
      <3>1. PICK j \in 1 .. Len(pending_wakeup) :
                 /\ t \in Elems(waiters[pending_wakeup[j]])
                 /\ has_wakeup \/ WillTake(stack, j)
        BY <2>2 DEF OwedWait
      <3>2. has_wakeup \/ WillTake(stack', j)
        BY <1>u, <1>q, <1>w, <1>v, <3>1
      <3> QED
        BY <1>u, <3>1, <3>2 DEF OwedWait, wakeVars
    <2> QED
      BY <1>i, <2>1, <2>2
  <1> QED
    BY <1>1, <1>2, <1>3, <1>4, <1>5 DEF IInv
----------------------------------------------------------------------------
(* The wake loop *)

\* The loop takes the next entry: its waiters move to the snapshot, and the
\* waiters of later entries are still before the loop.
LEMMA TakeEventInv ==
    ASSUME IInv, TakeEvent
    PROVE  IInv'
  <1>b. /\ stack \in Seq(Frame) /\ stack # <<>> /\ status = "ok"
        /\ Len(stack) \in Nat /\ Len(stack) >= 1
        /\ Top \in Frame /\ Top.pc = "wake" /\ Top.id \in TaskIds
        /\ Top.pos \in Nat \ {0} /\ Top.snap = <<>> /\ ~has_wakeup
    BY WakeFacts DEF TakeEvent
  <1>i. /\ ShapeOf(stack) /\ CurrOf(stack, curr_task)
        /\ pending_wakeup \in Seq(Events)
        /\ waiters \in [Events -> Seq(TaskIds)]
        /\ KeepsWaiters => \A t \in owed : Snapped(stack, t) \/ OwedWait(t)
    BY <1>b DEF IInv, OwedInv, TypeOK
  <1> DEFINE e == pending_wakeup[Top.pos]
             p == Pop(stack)
             f == [Top EXCEPT !.pos = Top.pos + 1, !.snap = waiters[e]]
  <1>u. /\ stack' = SetTop(stack, f) /\ UNCHANGED <<curr_task, status, owed>>
        /\ has_wakeup' = has_wakeup /\ pending_wakeup' = pending_wakeup
        /\ waiters' = [waiters EXCEPT ![e] = <<>>] /\ curr_wakeup' = e
        /\ Top.pos <= Len(pending_wakeup)
        /\ UNCHANGED removalVars
    BY DEF TakeEvent, outerVars
  <1>e. e \in Events
    BY <1>b, <1>i, <1>u, ElementOfSeq
  <1>f. /\ f \in Frame /\ f.pc = "wake" /\ f.id = Top.id
        /\ f.pos = Top.pos + 1 /\ f.snap = waiters[e]
    <2>1. waiters[e] \in Seq(TaskIds) /\ Top.pos + 1 \in Nat \ {0}
      BY <1>b, <1>i, <1>e
    <2> HIDE DEF e
    <2> QED
      BY <1>b, <2>1 DEF Frame
  <1>r. ASSUME NEW j \in Nat, WillTake(stack, j), j # Top.pos
        PROVE  Top.pos + 1 <= j
    <2>1. Top.pos <= j
      BY <1>b, <1>r, WillTakeTop DEF Top
    <2> QED
      BY <1>b, <1>r, <2>1
  <1> HIDE DEF f
  <1>x. ShapeOf(SetTop(stack, f)) /\ SetTop(stack, f) \in Seq(Frame)
    BY <1>b, <1>i, <1>f, ShapeSetTop, SetTopLemma DEF Top
  <1>y. CurrOf(SetTop(stack, f), curr_task)
    BY <1>b, <1>i, <1>f, CurrSetTop DEF Top
  <1>q. p \in Seq(Frame) /\ SetTop(stack, f) = Push(p, f)
    BY <1>b, <1>f, SetTopIsPopPush, PopLemma
  <1>w. \A t : Snapped(stack, t) => Snapped(p, t)
    BY <1>b, WakePop DEF Top, Elems, Entering
  <1> HIDE DEF p
  <1>v. /\ HasLoop(Push(p, f))
        /\ \A j \in Nat : f.pos <= j => WillTake(Push(p, f), j)
        /\ \A t : Snapped(p, t) \/ t \in Elems(f.snap)
                    => Snapped(Push(p, f), t)
    BY <1>q, <1>f, WakePush
  <1>1. TypeOK'
    <2>1. waiters' \in [Events -> Seq(TaskIds)]
      BY <1>i, <1>u, EmptySeq
    <2>2. taken' \in Nat
      BY <1>b DEF IInv, TypeOK, TakeEvent
    <2> QED
      BY <1>u, <1>e, <1>x, <2>1, <2>2
         DEF IInv, TypeOK, TakeEvent, taskVars, removalVars, outerVars
  <1>2. ShapeOf(stack') /\ CurrOf(stack', curr_task')
    BY <1>u, <1>x, <1>y
  <1>3. CountInv'
    BY <1>u DEF IInv, CountInv, removalVars
  <1>4. SendInv'
    BY <1>b, <1>u, <1>q, <1>v DEF SendInv
  <1>5. OwedInv'
    <2> SUFFICES ASSUME KeepsWaiters, NEW t \in owed
                 PROVE  Snapped(stack', t) \/ OwedWait(t)'
      BY <1>u DEF OwedInv
    <2>1. CASE Snapped(stack, t)
      BY <1>u, <1>q, <1>w, <1>v, <2>1
    <2>2. CASE OwedWait(t)
      <3>1. PICK j \in 1 .. Len(pending_wakeup) :
                 /\ t \in Elems(waiters[pending_wakeup[j]])
                 /\ WillTake(stack, j)
        BY <1>b, <2>2 DEF OwedWait
      <3>2. CASE pending_wakeup[j] = e
        BY <1>u, <1>q, <1>f, <1>v, <3>1, <3>2
      <3>3. CASE pending_wakeup[j] # e
        <4>1. pending_wakeup[j] \in Events
          BY <1>i, <3>1, ElementOfSeq
        <4>2. waiters'[pending_wakeup[j]] = waiters[pending_wakeup[j]]
          BY <1>i, <1>u, <3>3, <4>1
        <4>3. WillTake(stack', j)
          BY <1>u, <1>q, <1>f, <1>r, <1>v, <3>1, <3>3
        <4> QED
          BY <1>u, <3>1, <4>2, <4>3 DEF OwedWait
      <3> QED
        BY <3>2, <3>3
    <2> QED
      BY <1>i, <2>1, <2>2
  <1> QED
    BY <1>1, <1>2, <1>3, <1>4, <1>5 DEF IInv

\* The next waiter leaves the snapshot for an activation of its own.
LEMMA WakeWaiterInv ==
    ASSUME IInv, WakeWaiter
    PROVE  IInv'
  <1>b. /\ stack \in Seq(Frame) /\ stack # <<>> /\ status = "ok"
        /\ Len(stack) \in Nat /\ Len(stack) >= 1
        /\ Top \in Frame /\ Top.pc = "wake" /\ Top.id \in TaskIds
        /\ Top.pos \in Nat \ {0} /\ Top.snap \in Seq(TaskIds) /\ Top.snap # <<>>
        /\ ~has_wakeup
        /\ \A k \in 1 .. Len(stack) : stack[k].pc \notin Entering
    BY WakeFacts DEF WakeWaiter
  <1>i. /\ ShapeOf(stack) /\ CurrOf(stack, curr_task)
        /\ KeepsWaiters => \A t \in owed : Snapped(stack, t) \/ OwedWait(t)
    BY <1>b DEF IInv, OwedInv
  <1> DEFINE h == Head(Top.snap)
             p == Pop(stack)
             g == [Top EXCEPT !.snap = Tail(Top.snap)]
             f == NewFrame(h, "woken")
             r == SetTop(stack, g)
  <1>u. /\ stack' = Push(r, f) /\ UNCHANGED <<curr_task, status, owed>>
        /\ has_wakeup' = has_wakeup /\ pending_wakeup' = pending_wakeup
        /\ waiters' = waiters /\ UNCHANGED removalVars
    BY DEF WakeWaiter, outerVars, wakeVars, eventVars, ghostVars
  <1>h. /\ h \in TaskIds /\ Tail(Top.snap) \in Seq(TaskIds)
        /\ \A t \in Elems(Top.snap) : t = h \/ t \in Elems(Tail(Top.snap))
    <2>1. h \in TaskIds /\ Tail(Top.snap) \in Seq(TaskIds)
      BY <1>b
    <2>2. /\ Len(Top.snap) \in Nat /\ Len(Top.snap) >= 1
          /\ Len(Tail(Top.snap)) = Len(Top.snap) - 1
          /\ \A k \in 1 .. Len(Top.snap) - 1 : Tail(Top.snap)[k] = Top.snap[k + 1]
          /\ h = Top.snap[1]
      BY <1>b
    <2>3. ASSUME NEW k \in 1 .. Len(Top.snap), k # 1
          PROVE  Top.snap[k] \in Elems(Tail(Top.snap))
      <3>1. k - 1 \in 1 .. Len(Top.snap) - 1 /\ (k - 1) + 1 = k
        BY <2>2, <2>3
      <3>2. Tail(Top.snap)[k - 1] = Top.snap[k]
        BY <2>2, <3>1
      <3> QED
        BY <2>2, <3>1, <3>2 DEF Elems
    <2> QED
      BY <2>1, <2>2, <2>3 DEF Elems
  <1>g. /\ g \in Frame /\ g.pc = "wake" /\ g.id = Top.id
        /\ g.pos = Top.pos /\ g.snap = Tail(Top.snap)
    BY <1>b, <1>h DEF Frame
  <1>f. /\ f \in Frame /\ f.pc = "woken" /\ f.pc \in Entering /\ f.pc # "start"
        /\ f.pc # "body" /\ f.pc # "wake" /\ f.id = h /\ f.snap = <<>>
    BY <1>h, NewFrameLemma, TaskIdLemma DEF PCs, Entering
  <1> HIDE DEF h, f, g
  <1>x. /\ ShapeOf(r) /\ r \in Seq(Frame) /\ CurrOf(r, curr_task)
        /\ Len(r) = Len(stack) /\ r[Len(stack)] = g
        /\ \A k \in 1 .. Len(stack) - 1 : r[k] = stack[k]
    <2>1. ShapeOf(r)
      BY <1>b, <1>i, <1>g, ShapeSetTop DEF Top
    <2>2. CurrOf(r, curr_task)
      BY <1>b, <1>i, <1>g, CurrSetTop DEF Top
    <2> QED
      BY <1>b, <1>g, <2>1, <2>2, SetTopLemma
  <1>q. p \in Seq(Frame) /\ r = Push(p, g)
    BY <1>b, <1>g, SetTopIsPopPush, PopLemma
  <1>w. \A t : Snapped(stack, t) /\ t \notin Elems(Top.snap) => Snapped(p, t)
    BY <1>b, WakePop DEF Top, Entering
  <1> HIDE DEF p, r
  <1>v. /\ HasLoop(r)
        /\ \A j \in Nat : g.pos <= j => WillTake(r, j)
        /\ \A t : Snapped(p, t) \/ t \in Elems(g.snap) => Snapped(r, t)
    BY <1>q, <1>g, WakePush
  <1>z. /\ HasLoop(Push(r, f))
        /\ \A j \in Nat : WillTake(r, j) => WillTake(Push(r, f), j)
        /\ \A t : Snapped(r, t) \/ t = h => Snapped(Push(r, f), t)
    BY <1>v, <1>f, <1>x, WakePush
  <1>y. ShapeOf(Push(r, f)) /\ Push(r, f) \in Seq(Frame) /\ CurrOf(Push(r, f), curr_task)
    <2>1. \A k \in 1 .. Len(r) : r[k].pc \notin Entering
      <3>1. \A k \in 1 .. Len(r) : k = Len(stack) \/ k \in 1 .. Len(stack) - 1
        BY <1>b, <1>x
      <3>2. \A k \in 1 .. Len(stack) - 1 : stack[k].pc \notin Entering
        BY <1>b
      <3> QED
        BY <1>x, <1>g, <3>1, <3>2 DEF Entering
    <2> QED
      BY <1>x, <1>f, <1>h, <2>1, ShapePush, PushLemma, CurrPush
  <1>1. TypeOK'
    BY <1>u, <1>y DEF IInv, TypeOK, WakeWaiter, taskVars, removalVars,
                      eventVars, wakeVars, outerVars, ghostVars
  <1>2. ShapeOf(stack') /\ CurrOf(stack', curr_task')
    BY <1>u, <1>y
  <1>3. CountInv'
    BY <1>u DEF IInv, CountInv, removalVars
  <1>4. SendInv'
    BY <1>b, <1>u, <1>z DEF SendInv
  <1>5. OwedInv'
    <2> SUFFICES ASSUME KeepsWaiters, NEW t \in owed
                 PROVE  Snapped(stack', t) \/ OwedWait(t)'
      BY <1>u DEF OwedInv
    <2>1. CASE Snapped(stack, t)
      BY <1>u, <1>w, <1>h, <1>g, <1>v, <1>z, <2>1
    <2>2. CASE OwedWait(t)
      <3>1. PICK j \in 1 .. Len(pending_wakeup) :
                 /\ t \in Elems(waiters[pending_wakeup[j]])
                 /\ WillTake(stack, j)
        BY <1>b, <2>2 DEF OwedWait
      <3>2. j \in Nat
        BY <3>1
      <3>3. Top.pos <= j
        BY <1>b, <3>1, <3>2, WillTakeTop DEF Top
      <3>4. WillTake(stack', j)
        BY <1>u, <1>g, <1>v, <1>z, <3>2, <3>3
      <3> QED
        BY <1>u, <3>1, <3>4 DEF OwedWait
    <2> QED
      BY <1>i, <2>1, <2>2
  <1> QED
    BY <1>1, <1>2, <1>3, <1>4, <1>5 DEF IInv

\* The loop has passed the last entry: nobody waits for an entry any more.
LEMMA WakeDoneInv ==
    ASSUME IInv, WakeDone
    PROVE  IInv'
  <1>b. /\ stack \in Seq(Frame) /\ stack # <<>> /\ status = "ok"
        /\ Len(stack) \in Nat /\ Len(stack) >= 1
        /\ Top \in Frame /\ Top.pc = "wake" /\ Top.id \in TaskIds
        /\ Top.pos \in Nat \ {0} /\ Top.snap = <<>> /\ ~has_wakeup
    BY WakeFacts DEF WakeDone
  <1>i. /\ ShapeOf(stack) /\ CurrOf(stack, curr_task)
        /\ pending_wakeup \in Seq(Events)
        /\ KeepsWaiters => \A t \in owed : Snapped(stack, t) \/ OwedWait(t)
    BY <1>b DEF IInv, OwedInv, TypeOK
  <1>u. /\ stack' = Pop(stack) /\ UNCHANGED <<curr_task, status, owed, has_wakeup>>
        /\ pending_wakeup' = <<>> /\ Top.pos > Len(pending_wakeup)
        /\ UNCHANGED removalVars
    BY DEF WakeDone, outerVars
  <1>p. /\ Pop(stack) \in Seq(Frame) /\ ShapeOf(Pop(stack))
        /\ CurrOf(Pop(stack), curr_task)
    BY <1>b, <1>i, PopLemma, ShapePop, CurrPop DEF Top
  <1>w. \A t : Snapped(stack, t) => Snapped(Pop(stack), t)
    BY <1>b, WakePop DEF Top, Elems, Entering
  <1>1. TypeOK'
    <2>1. pending_wakeup' \in Seq(Events)
      BY <1>u, EmptySeq
    <2> QED
      BY <1>u, <1>p, <2>1 DEF IInv, TypeOK, WakeDone, taskVars, removalVars,
                              eventVars, outerVars
  <1>2. ShapeOf(stack') /\ CurrOf(stack', curr_task')
    BY <1>u, <1>p
  <1>3. CountInv'
    BY <1>u DEF IInv, CountInv, removalVars
  <1>4. SendInv'
    BY <1>b, <1>u DEF SendInv
  <1>5. OwedInv'
    <2> SUFFICES ASSUME KeepsWaiters, NEW t \in owed PROVE Snapped(stack, t)
      BY <1>u, <1>w DEF OwedInv
    <2>1. ASSUME OwedWait(t) PROVE FALSE
      <3>1. PICK j \in 1 .. Len(pending_wakeup) : WillTake(stack, j)
        BY <1>b, <2>1 DEF OwedWait
      <3>2. Top.pos <= j
        BY <1>b, <3>1, WillTakeTop DEF Top
      <3>3. Len(pending_wakeup) \in Nat
        BY <1>i, LenProperties
      <3> QED
        BY <1>b, <1>u, <3>1, <3>2, <3>3
    <2> QED
      BY <1>i, <2>1
  <1> QED
    BY <1>1, <1>2, <1>3, <1>4, <1>5 DEF IInv
----------------------------------------------------------------------------
(* schedule_all_tasks and sim_event *)

\* The walk starts on an empty stack.
LEMMA StartCallbackInv ==
    ASSUME IInv, StartCallback
    PROVE  IInv'
  <1> DEFINE f == NewFrame(NULL_TASK_ID, "all")
  <1>0. NULL_TASK_ID \in 0 .. MaxTaskId /\ "all" \in PCs
    BY ConstantsAssumption DEF NULL_TASK_ID, PCs
  <1>f. f \in Frame /\ f.pc = "all" /\ f.snap = <<>>
    BY <1>0, NewFrameLemma
  <1>u. /\ status = "ok" /\ stack = <<>> /\ stack' = <<f>>
        /\ UNCHANGED <<wakeVars, waiters, curr_task, status, owed, removalVars>>
    BY DEF StartCallback, eventVars, ghostVars
  <1> HIDE DEF f
  <1>s. <<f>> \in Seq(Frame) /\ Len(<<f>>) = 1 /\ <<f>>[1] = f
    BY <1>f
  <1>i. /\ ~has_wakeup /\ pending_wakeup = <<>> /\ curr_task = NULL_TASK_ID
        /\ KeepsWaiters => owed = {}
    <2>1. Len(stack) = 0
      BY <1>u
    <2>2. ~has_wakeup /\ pending_wakeup = <<>>
      BY <1>u, <2>1 DEF IInv, SendInv, HasLoop
    <2>3. KeepsWaiters => owed = {}
      BY <1>u, <2>1, <2>2 DEF IInv, OwedInv, Snapped, OwedWait
    <2>4. curr_task = NULL_TASK_ID
      BY <2>1 DEF IInv, CurrOf, InnermostBody
    <2> QED
      BY <2>2, <2>3, <2>4
  <1>1. TypeOK'
    BY <1>u, <1>s DEF IInv, TypeOK, StartCallback, taskVars, removalVars,
                      eventVars, wakeVars, ghostVars
  <1>2. ShapeOf(stack') /\ CurrOf(stack', curr_task')
    BY <1>u, <1>s, <1>f, <1>i DEF ShapeOf, CurrOf, InnermostBody, Entering
  <1>3. CountInv'
    BY <1>u DEF IInv, CountInv, removalVars
  <1>4. SendInv' /\ OwedInv'
    BY <1>u, <1>i DEF SendInv, OwedInv, wakeVars
  <1> QED
    BY <1>1, <1>2, <1>3, <1>4 DEF IInv

\* A VPI callback starts an activation on an empty stack.
LEMMA SimEventInv ==
    ASSUME IInv, NEW t \in TaskIds, SimEvent(t)
    PROVE  IInv'
  <1> DEFINE f == NewFrame(t, "resume")
  <1>0. t \in 0 .. MaxTaskId /\ "resume" \in PCs
    BY TaskIdLemma DEF PCs, Entering
  <1>f. f \in Frame /\ f.pc = "resume" /\ f.snap = <<>> /\ f.id = t
    BY <1>0, NewFrameLemma
  <1>u. /\ status = "ok" /\ stack = <<>> /\ stack' = <<f>>
        /\ UNCHANGED <<wakeVars, waiters, curr_task, status, owed, removalVars>>
    BY DEF SimEvent, eventVars, ghostVars, outerVars
  <1> HIDE DEF f
  <1>s. <<f>> \in Seq(Frame) /\ Len(<<f>>) = 1 /\ <<f>>[1] = f
    BY <1>f
  <1>i. /\ ~has_wakeup /\ pending_wakeup = <<>> /\ curr_task = NULL_TASK_ID
        /\ KeepsWaiters => owed = {}
    <2>1. Len(stack) = 0
      BY <1>u
    <2>2. ~has_wakeup /\ pending_wakeup = <<>>
      BY <1>u, <2>1 DEF IInv, SendInv, HasLoop
    <2>3. KeepsWaiters => owed = {}
      BY <1>u, <2>1, <2>2 DEF IInv, OwedInv, Snapped, OwedWait
    <2>4. curr_task = NULL_TASK_ID
      BY <2>1 DEF IInv, CurrOf, InnermostBody
    <2> QED
      BY <2>2, <2>3, <2>4
  <1>1. TypeOK'
    <2>1. cbs' \in [TaskIds -> Nat]
      BY DEF IInv, TypeOK, SimEvent
    <2> QED
      BY <1>u, <1>s, <2>1 DEF IInv, TypeOK, SimEvent, taskVars, removalVars,
                              eventVars, wakeVars, ghostVars, outerVars
  <1>2. ShapeOf(stack') /\ CurrOf(stack', curr_task')
    BY <1>u, <1>s, <1>f, <1>i DEF ShapeOf, CurrOf, InnermostBody, Entering
  <1>3. CountInv'
    BY <1>u DEF IInv, CountInv, removalVars
  <1>4. SendInv' /\ OwedInv'
    BY <1>u, <1>i DEF SendInv, OwedInv, wakeVars
  <1> QED
    BY <1>1, <1>2, <1>3, <1>4 DEF IInv

\* While the walk is at the top no event is pending and nothing is owed.
LEMMA AllQuiet ==
    ASSUME IInv, At("all")
    PROVE  pending_wakeup = <<>> /\ (KeepsWaiters => owed = {})
  <1>b. /\ stack # <<>> /\ status = "ok" /\ Len(stack) = 1
        /\ Top.pc = "all" /\ Top.snap = <<>> /\ ~has_wakeup
    BY AllFacts
  <1>1. pending_wakeup = <<>>
    BY <1>b DEF IInv, SendInv, HasLoop, Top
  <1>2. KeepsWaiters => \A t \in owed : Snapped(stack, t)
    BY <1>b, <1>1 DEF IInv, OwedInv, OwedWait
  <1>3. \A t : ~Snapped(stack, t)
    BY <1>b DEF Snapped, Top, Entering, Elems
  <1> QED
    BY <1>1, <1>2, <1>3

\* The tasks that schedule_all_tasks has marked are tasks.
LEMMA WalkFiredLemma ==
    ASSUME fired \subseteq TaskIds, Top.id \in 0 .. MaxTaskId
    PROVE  WalkFired \subseteq TaskIds
  <1>1. Top.id # NULL_TASK_ID => Top.id \in TaskIds
    BY ConstantsAssumption DEF TaskIds, NULL_TASK_ID
  <1> QED
    BY <1>1 DEF WalkFired

\* The walk schedules the next task.
LEMMA WalkNextInv ==
    ASSUME IInv, NEW t \in TaskIds, WalkNext(t)
    PROVE  IInv'
  <1>b. /\ stack \in Seq(Frame) /\ stack # <<>> /\ status = "ok"
        /\ Len(stack) = 1
        /\ Top \in Frame /\ Top.pc = "all" /\ Top.snap = <<>>
        /\ Top.id \in 0 .. MaxTaskId /\ ~has_wakeup
        /\ pending_wakeup = <<>> /\ (KeepsWaiters => owed = {})
    BY AllFacts, AllQuiet DEF WalkNext
  <1>i. ShapeOf(stack) /\ CurrOf(stack, curr_task)
    BY DEF IInv
  <1> DEFINE g == [Top EXCEPT !.id = t]
             f == NewFrame(t, "resume")
             r == SetTop(stack, g)
  <1>u. /\ stack' = Push(r, f) /\ UNCHANGED <<wakeVars, status, owed, curr_task>>
        /\ UNCHANGED removalVars
    BY DEF WalkNext, ghostVars
  <1>g. g \in Frame /\ g.pc = "all" /\ g.snap = <<>> /\ g.id = t
    BY <1>b, TaskIdLemma DEF Frame
  <1>f. /\ f \in Frame /\ f.pc = "resume" /\ f.pc \in Entering /\ f.pc # "start"
        /\ f.pc # "body" /\ f.id = t /\ f.snap = <<>>
    BY NewFrameLemma, TaskIdLemma DEF PCs, Entering
  <1> HIDE DEF f, g
  <1>x. /\ ShapeOf(r) /\ r \in Seq(Frame) /\ CurrOf(r, curr_task)
        /\ Len(r) = 1 /\ r[1] = g
    <2>1. ShapeOf(r)
      BY <1>b, <1>i, <1>g, ShapeSetTop DEF Top
    <2>2. CurrOf(r, curr_task)
      BY <1>b, <1>i, <1>g, CurrSetTop DEF Top
    <2>3. r \in Seq(Frame) /\ Len(r) = Len(stack) /\ r[Len(stack)] = g
      BY <1>b, <1>g, SetTopLemma
    <2> QED
      BY <1>b, <2>1, <2>2, <2>3
  <1> HIDE DEF r
  <1>y. ShapeOf(Push(r, f)) /\ Push(r, f) \in Seq(Frame) /\ CurrOf(Push(r, f), curr_task)
    <2>1. \A k \in 1 .. Len(r) : r[k].pc \notin Entering
      BY <1>x, <1>g DEF Entering
    <2> QED
      BY <1>x, <1>f, <2>1, ShapePush, PushLemma, CurrPush
  <1>1. TypeOK'
    <2>1. fired' \subseteq TaskIds
      BY <1>b, WalkFiredLemma DEF IInv, TypeOK, WalkNext
    <2> QED
      BY <1>u, <1>y, <2>1 DEF IInv, TypeOK, WalkNext, removalVars, eventVars,
                              wakeVars, ghostVars
  <1>2. ShapeOf(stack') /\ CurrOf(stack', curr_task')
    BY <1>u, <1>y
  <1>3. CountInv'
    BY <1>u DEF IInv, CountInv, removalVars
  <1>4. SendInv' /\ OwedInv'
    BY <1>u, <1>b DEF SendInv, OwedInv, wakeVars
  <1> QED
    BY <1>1, <1>2, <1>3, <1>4 DEF IInv

\* The walk is over.
LEMMA WalkDoneInv ==
    ASSUME IInv, WalkDone
    PROVE  IInv'
  <1>b. /\ stack \in Seq(Frame) /\ stack # <<>> /\ status = "ok"
        /\ Top \in Frame /\ Top.pc = "all"
        /\ Top.id \in 0 .. MaxTaskId /\ ~has_wakeup
        /\ pending_wakeup = <<>> /\ (KeepsWaiters => owed = {})
    BY AllFacts, AllQuiet DEF WalkDone
  <1>i. ShapeOf(stack) /\ CurrOf(stack, curr_task)
    BY DEF IInv
  <1>u. /\ stack' = Pop(stack) /\ UNCHANGED <<wakeVars, status, owed, curr_task>>
        /\ UNCHANGED removalVars
    BY DEF WalkDone, ghostVars
  <1>p. /\ Pop(stack) \in Seq(Frame) /\ ShapeOf(Pop(stack))
        /\ CurrOf(Pop(stack), curr_task)
    BY <1>b, <1>i, PopLemma, ShapePop, CurrPop DEF Top
  <1>1. TypeOK'
    <2>1. fired' \subseteq TaskIds
      BY <1>b, WalkFiredLemma DEF IInv, TypeOK, WalkDone
    <2> QED
      BY <1>u, <1>p, <2>1 DEF IInv, TypeOK, WalkDone, removalVars, eventVars,
                              wakeVars, ghostVars
  <1>2. ShapeOf(stack') /\ CurrOf(stack', curr_task')
    BY <1>u, <1>p
  <1>3. CountInv'
    BY <1>u DEF IInv, CountInv, removalVars
  <1>4. SendInv' /\ OwedInv'
    BY <1>u, <1>b DEF SendInv, OwedInv, wakeVars
  <1> QED
    BY <1>1, <1>2, <1>3, <1>4 DEF IInv
----------------------------------------------------------------------------
(* A task gets a new coroutine *)

\* A body, or the main script, calls the API: no frame is entering.
LEMMA UserCodeFacts ==
    ASSUME IInv, NEW op, UserCode(op)
    PROVE  /\ stack \in Seq(Frame) /\ status = "ok" /\ Len(stack) \in Nat
           /\ \A k \in 1 .. Len(stack) : stack[k].pc \notin Entering
           /\ stack = <<>> \/ stack[Len(stack)].pc = "body"
           /\ has_wakeup => stack # <<>>
  <1>1. CASE InBody(op)
    <2>1. At("body")
      BY <1>1 DEF InBody
    <2>2. Top.pc = "body" /\ stack # <<>>
      BY <2>1 DEF At
    <2> QED
      BY <2>1, <2>2, BodyFacts DEF Top
  <1>2. CASE status = "ok" /\ stack = <<>>
    BY <1>2 DEF IInv, TypeOK, SendInv
  <1> QED
    BY <1>1, <1>2 DEF UserCode

\* A new coroutine marks the frames of its task as stale, and, if it starts at
\* once, adds an activation on top of the body that called the API.
LEMMA NewCoroutineInv ==
    ASSUME IInv, NEW op, UserCode(op), NEW t \in TaskIds,
           \/ stack' = Push(Stale(stack, t), NewFrame(t, "start"))
           \/ stack' = Stale(stack, t),
           UNCHANGED <<wakeVars, waiters, curr_task, status, owed>>
    PROVE  /\ stack' \in Seq(Frame)
           /\ ShapeOf(stack') /\ CurrOf(stack', curr_task')
           /\ SendInv' /\ OwedInv'
  <1>b. /\ stack \in Seq(Frame) /\ status = "ok" /\ Len(stack) \in Nat
        /\ \A k \in 1 .. Len(stack) : stack[k].pc \notin Entering
        /\ stack = <<>> \/ stack[Len(stack)].pc = "body"
        /\ has_wakeup => stack # <<>>
    BY UserCodeFacts
  <1>i. /\ ShapeOf(stack) /\ CurrOf(stack, curr_task)
        /\ pending_wakeup # <<>> => has_wakeup \/ HasLoop(stack)
        /\ KeepsWaiters => \A x \in owed : Snapped(stack, x) \/ OwedWait(x)
    BY <1>b DEF IInv, SendInv, OwedInv
  <1>u. /\ has_wakeup' = has_wakeup /\ pending_wakeup' = pending_wakeup
        /\ waiters' = waiters /\ curr_task' = curr_task /\ status' = status
        /\ owed' = owed
    BY DEF wakeVars
  <1> DEFINE r == Stale(stack, t)
             f == NewFrame(t, "start")
  <1>f. /\ f \in Frame /\ f.pc = "start" /\ f.pc \in Entering
        /\ f.pc # "body" /\ f.pc # "wake" /\ f.id = t /\ f.snap = <<>>
    BY NewFrameLemma, TaskIdLemma DEF PCs, Entering
  <1>r. /\ r \in Seq(Frame) /\ Len(r) = Len(stack)
        /\ \A k \in 1 .. Len(stack) : r[k].pc = stack[k].pc
    BY <1>b, StaleLemma
  <1>s. ShapeOf(r) /\ CurrOf(r, curr_task)
    BY <1>b, <1>i, ShapeStale, CurrStale
  <1>w. /\ HasLoop(stack) => HasLoop(r)
        /\ \A j \in Nat : WillTake(stack, j) => WillTake(r, j)
        /\ \A x : Snapped(stack, x) => Snapped(r, x)
    BY <1>b, WakeStale
  <1>c. stack' = Push(r, f) \/ stack' = r
    OBVIOUS
  <1> HIDE DEF r, f
  <1>v. /\ HasLoop(r) => HasLoop(Push(r, f))
        /\ \A j \in Nat : WillTake(r, j) => WillTake(Push(r, f), j)
        /\ \A x : Snapped(r, x) => Snapped(Push(r, f), x)
    BY <1>r, <1>f, WakePush
  <1>e. stack # <<>> => Len(stack) >= 1 /\ Len(stack) \in 1 .. Len(stack)
    BY <1>b, EmptySeq
  <1>t. r = <<>> \/ r[Len(r)].pc = "body"
    <2>1. CASE stack = <<>>
      BY <1>r, <2>1, EmptySeq
    <2>2. CASE stack # <<>>
      BY <1>b, <1>r, <1>e, <2>2
    <2> QED
      BY <2>1, <2>2
  <1>y. ShapeOf(Push(r, f)) /\ Push(r, f) \in Seq(Frame) /\ CurrOf(Push(r, f), curr_task)
    <2>1. \A k \in 1 .. Len(r) : r[k].pc \notin Entering
      BY <1>b, <1>r
    <2>2. ShapeOf(Push(r, f))
      BY <1>r, <1>s, <1>f, <1>t, <2>1, ShapePush
    <2> QED
      BY <1>r, <1>s, <1>f, <2>2, PushLemma, CurrPush
  <1>1. stack' \in Seq(Frame) /\ ShapeOf(stack') /\ CurrOf(stack', curr_task')
    BY <1>c, <1>u, <1>r, <1>s, <1>y
  <1>2. SendInv'
    <2>1. ASSUME has_wakeup
          PROVE  /\ stack' # <<>>
                 /\ \/ stack'[Len(stack')].pc = "body"
                    \/ stack'[Len(stack')].pc = "start" /\ Len(stack') > 1
      <3>1. stack # <<>> /\ Len(stack) >= 1 /\ stack[Len(stack)].pc = "body"
        BY <1>b, <1>e, <2>1
      <3>2. CASE stack' = r
        <4>1. Len(stack') = Len(stack) /\ stack'[Len(stack)].pc = "body"
          BY <1>r, <1>e, <3>1, <3>2
        <4> QED
          BY <3>1, <4>1
      <3>3. CASE stack' = Push(r, f)
        <4>1. /\ Len(Push(r, f)) = Len(r) + 1
              /\ Push(r, f)[Len(r) + 1] = f
          BY <1>r, <1>f, PushLemma
        <4>2. Len(stack') = Len(stack) + 1 /\ stack'[Len(stack')].pc = "start"
          BY <1>r, <1>f, <3>3, <4>1
        <4>3. Len(stack') > 1
          BY <1>b, <3>1, <4>2
        <4>4. stack' # <<>>
          BY <4>3
        <4> QED
          BY <4>2, <4>3, <4>4
      <3> QED
        BY <1>c, <3>2, <3>3
    <2>2. pending_wakeup # <<>> => has_wakeup \/ HasLoop(stack')
      BY <1>c, <1>i, <1>w, <1>v
    <2> QED
      BY <1>u, <2>1, <2>2 DEF SendInv, Top
  <1>3. OwedInv'
    <2> SUFFICES ASSUME KeepsWaiters, NEW x \in owed
                 PROVE  Snapped(stack', x) \/ OwedWait(x)'
      BY <1>u DEF OwedInv
    <2>1. CASE Snapped(stack, x)
      BY <1>c, <1>w, <1>v, <2>1
    <2>2. CASE OwedWait(x)
      <3>1. PICK j \in 1 .. Len(pending_wakeup) :
                 /\ x \in Elems(waiters[pending_wakeup[j]])
                 /\ has_wakeup \/ WillTake(stack, j)
        BY <2>2 DEF OwedWait
      <3>2. has_wakeup \/ WillTake(stack', j)
        BY <1>c, <1>w, <1>v, <3>1
      <3> QED
        BY <1>u, <3>1, <3>2 DEF OwedWait
    <2> QED
      BY <1>i, <2>1, <2>2
  <1> QED
    BY <1>1, <1>2, <1>3

\* Clearing a removal flag keeps flags and count in step.
LEMMA ClearRemovedInv ==
    ASSUME IInv, NEW t \in TaskIds, ClearRemoved(t)
    PROVE  /\ removed' \subseteq TaskIds /\ nr_removed' \in Nat
           /\ nr_removed' >= Cardinality(removed')
  <1>1. /\ IsFiniteSet(removed) /\ Cardinality(removed) \in Nat
        /\ nr_removed >= Cardinality(removed) /\ nr_removed \in Nat
        /\ removed \subseteq TaskIds
    BY RemovedFinite DEF IInv, CountInv, TypeOK
  <1>2. CASE t \in removed
    <2>1. Cardinality(removed \ {t}) = Cardinality(removed) - 1
      BY <1>1, <1>2, FS_RemoveElement
    <2>2. Cardinality(removed) > 0
      BY <1>1, <1>2, FS_EmptySet
    <2> QED
      BY <1>1, <1>2, <2>1, <2>2 DEF ClearRemoved
  <1>3. CASE t \notin removed
    <2>1. removed \ {t} = removed
      BY <1>3
    <2> QED
      BY <1>1, <1>3, <2>1 DEF ClearRemoved
  <1> QED
    BY <1>2, <1>3
\* The walk may come to see the task that was added, and no other.
LEMMA WalkedType ==
    ASSUME IInv, NEW t \in TaskIds, Walked(t)
    PROVE  unvisited' \subseteq TaskIds
  BY DEF IInv, TypeOK, Walked

\* append_task once the id is chosen.
LEMMA RegisterInv ==
    ASSUME IInv, NEW op, UserCode(op), NEW t \in TaskIds, NEW start_now,
           Register(t, start_now), next_task_id' \in 1 .. MaxTaskId + 1
    PROVE  IInv'
  <1>u. /\ UNCHANGED <<wakeVars, waiters, curr_task, status, owed>>
        /\ UNCHANGED <<pending, nr_pending>>
        /\ ClearRemoved(t) /\ Walked(t)
        /\ \/ stack' = Push(Stale(stack, t), NewFrame(t, "start"))
           \/ stack' = Stale(stack, t)
    BY DEF Register, StartCoroutine, eventVars, ghostVars
  <1>1. /\ stack' \in Seq(Frame)
        /\ ShapeOf(stack') /\ CurrOf(stack', curr_task')
        /\ SendInv' /\ OwedInv'
    BY <1>u, NewCoroutineInv
  <1>2. /\ removed' \subseteq TaskIds /\ nr_removed' \in Nat
        /\ nr_removed' >= Cardinality(removed')
    BY <1>u, ClearRemovedInv
  <1>3. unvisited' \subseteq TaskIds
    BY <1>u, WalkedType
  <1>4. /\ co' \in [TaskIds -> {"none", "fresh", "suspended", "active",
                                "exited", "dead"}]
        /\ running' \subseteq TaskIds /\ fired' \subseteq TaskIds
        /\ archived' \subseteq TaskIds
    BY DEF IInv, TypeOK, Register, StartCoroutine
  <1>5. TypeOK'
    BY <1>1, <1>2, <1>3, <1>4 DEF IInv, TypeOK, Register, eventVars, wakeVars,
                                  ghostVars
  <1>6. CountInv'
    BY <1>u, <1>2 DEF IInv, CountInv
  <1> QED
    BY <1>1, <1>5, <1>6 DEF IInv

\* append_task with an id.
LEMMA AppendTaskIdInv ==
    ASSUME IInv, NEW t \in TaskIds, NEW start_now, AppendTaskId(t, start_now)
    PROVE  IInv'
  <1>1. /\ UserCode("append_id") /\ Register(t, start_now)
        /\ next_task_id' \in 1 .. MaxTaskId + 1
    BY DEF AppendTaskId, IInv, TypeOK
  <1> QED
    BY <1>1, RegisterInv

\* append_task without an id.
LEMMA AppendTaskInv ==
    ASSUME IInv, NEW t \in TaskIds, NEW start_now, AppendTask(t, start_now)
    PROVE  IInv'
  <1>1. UserCode("append") /\ Register(t, start_now)
    BY DEF AppendTask
  <1>2. next_task_id' \in 1 .. MaxTaskId + 1
    BY ConstantsAssumption DEF AppendTask, TaskIds
  <1> QED
    BY <1>1, <1>2, RegisterInv

\* wakeup_task takes an ended task back from those to be forgotten.
LEMMA WakeupTaskInv ==
    ASSUME IInv, NEW t \in TaskIds, WakeupTask(t)
    PROVE  IInv'
  <1>u. /\ UNCHANGED <<wakeVars, waiters, curr_task, status, owed>>
        /\ Walked(t) /\ UserCode("wakeup")
        /\ stack' = Push(Stale(stack, t), NewFrame(t, "start"))
    BY DEF WakeupTask, StartCoroutine, eventVars, ghostVars, UserCode
  <1>1. /\ stack' \in Seq(Frame)
        /\ ShapeOf(stack') /\ CurrOf(stack', curr_task')
        /\ SendInv' /\ OwedInv'
    BY <1>u, NewCoroutineInv
  <1>i. /\ removed \subseteq TaskIds /\ nr_removed \in Nat
        /\ nr_removed >= Cardinality(removed)
        /\ pending \in Seq(TaskIds) /\ nr_pending \in Nat
        /\ nr_pending = Len(pending)
    BY DEF IInv, TypeOK, CountInv
  <1>2. /\ removed' \subseteq TaskIds /\ nr_removed' \in Nat
        /\ nr_removed' >= Cardinality(removed')
        /\ pending' \in Seq(TaskIds) /\ nr_pending' \in Nat
        /\ nr_pending' = Len(pending')
    <2>1. CASE UNCHANGED removalVars
      BY <1>i, <2>1 DEF removalVars
    <2>2. CASE ClearRemoved(t) /\ UNCHANGED <<pending, nr_pending>>
      BY <1>i, <2>2, ClearRemovedInv
    <2>3. ASSUME NEW k \in Positions(pending, t),
                 pending' = RemoveAt(pending, k),
                 nr_pending' = nr_pending - 1,
                 UNCHANGED <<removed, nr_removed>>
          PROVE  /\ removed' \subseteq TaskIds /\ nr_removed' \in Nat
                 /\ nr_removed' >= Cardinality(removed')
                 /\ pending' \in Seq(TaskIds) /\ nr_pending' \in Nat
                 /\ nr_pending' = Len(pending')
      <3>1. k \in 1 .. Len(pending)
        BY DEF Positions
      <3>2. /\ RemoveAt(pending, k) \in Seq(TaskIds)
            /\ Len(RemoveAt(pending, k)) = Len(pending) - 1
        BY <1>i, <3>1, RemoveAtLemma
      <3>3. Len(pending) \in Nat /\ Len(pending) >= 1
        BY <1>i, <3>1
      <3> QED
        BY <1>i, <2>3, <3>2, <3>3
    <2> QED
      BY <2>1, <2>2, <2>3 DEF WakeupTask
  <1>3. unvisited' \subseteq TaskIds
    BY <1>u, WalkedType
  <1>4. /\ co' \in [TaskIds -> {"none", "fresh", "suspended", "active",
                                "exited", "dead"}]
        /\ running' \subseteq TaskIds /\ fired' \subseteq TaskIds
    BY DEF IInv, TypeOK, WakeupTask, StartCoroutine
  <1>5. TypeOK'
    BY <1>1, <1>2, <1>3, <1>4 DEF IInv, TypeOK, WakeupTask, eventVars,
                                  wakeVars, ghostVars
  <1>6. CountInv'
    BY <1>2 DEF CountInv
  <1> QED
    BY <1>1, <1>5, <1>6 DEF IInv

\* try_wakeup_task clears the removal flag of a task it restarts.
LEMMA TryWakeupTaskInv ==
    ASSUME IInv, NEW t \in TaskIds, TryWakeupTask(t)
    PROVE  IInv'
  <1>u. /\ UNCHANGED <<wakeVars, waiters, curr_task, status, owed>>
        /\ UNCHANGED <<pending, nr_pending>>
        /\ ClearRemoved(t) /\ Walked(t) /\ UserCode("try_wakeup")
        /\ stack' = Push(Stale(stack, t), NewFrame(t, "start"))
    BY DEF TryWakeupTask, StartCoroutine, eventVars, ghostVars, UserCode
  <1>1. /\ stack' \in Seq(Frame)
        /\ ShapeOf(stack') /\ CurrOf(stack', curr_task')
        /\ SendInv' /\ OwedInv'
    BY <1>u, NewCoroutineInv
  <1>2. /\ removed' \subseteq TaskIds /\ nr_removed' \in Nat
        /\ nr_removed' >= Cardinality(removed')
    BY <1>u, ClearRemovedInv
  <1>3. unvisited' \subseteq TaskIds
    BY <1>u, WalkedType
  <1>4. /\ co' \in [TaskIds -> {"none", "fresh", "suspended", "active",
                                "exited", "dead"}]
        /\ running' \subseteq TaskIds /\ fired' \subseteq TaskIds
    BY DEF IInv, TypeOK, TryWakeupTask, StartCoroutine
  <1>5. TypeOK'
    BY <1>1, <1>2, <1>3, <1>4 DEF IInv, TypeOK, TryWakeupTask, eventVars,
                                  wakeVars, ghostVars
  <1>6. CountInv'
    BY <1>u, <1>2 DEF IInv, CountInv
  <1> QED
    BY <1>1, <1>5, <1>6 DEF IInv

----------------------------------------------------------------------------
(* The theorems *)

\* Every step of the scheduler, of user code and of the simulator preserves
\* the inductive invariant.
LEMMA StepInv == IInv /\ [Next]_vars => IInv'
  <1> SUFFICES ASSUME IInv, [Next]_vars PROVE IInv'
    OBVIOUS
  <1>1. CASE SkipRemoved
    BY <1>1, SkipRemovedInv
  <1>2. CASE Resume
    BY <1>2, ResumeInv
  <1>3. CASE ResumeFails
    BY <1>3, AbortInv DEF ResumeFails
  <1>4. CASE TakeEvent
    BY <1>4, TakeEventInv
  <1>5. CASE WakeWaiter
    BY <1>5, WakeWaiterInv
  <1>6. CASE WakeDone
    BY <1>6, WakeDoneInv
  <1>7. CASE WalkDone
    BY <1>7, WalkDoneInv
  <1>8. CASE \E t \in TaskIds : WalkNext(t)
    BY <1>8, WalkNextInv
  <1>9. CASE AwaitCallback
    BY <1>9, AwaitCallbackInv
  <1>10. CASE Finish
    BY <1>10, EndInv DEF Finish
  <1>11. CASE ExitTask
    BY <1>11, EndInv DEF ExitTask, InBody
  <1>12. CASE TaskError
    BY <1>12, AbortInv DEF TaskError
  <1>13. CASE \E e \in Events : WaitEvent(e)
    BY <1>13, WaitEventInv
  <1>14. CASE \E e \in Events : SendEvent(e)
    BY <1>14, SendEventInv
  <1>15. CASE \E e \in Events : NewEventHdl(e)
    BY <1>15, NewEventHdlInv
  <1>16. CASE \E e \in Events : RemoveEvent(e)
    BY <1>16, RemoveEventInv
  <1>17. CASE \E t \in TaskIds : WakeupTask(t)
    BY <1>17, WakeupTaskInv
  <1>18. CASE \E t \in TaskIds : TryWakeupTask(t)
    BY <1>18, TryWakeupTaskInv
  <1>19. CASE \E t \in TaskIds : RemoveTask(t)
    BY <1>19, RemoveTaskInv
  <1>20. CASE \E t \in TaskIds, start_now \in BOOLEAN : AppendTaskId(t, start_now)
    BY <1>20, AppendTaskIdInv
  <1>21. CASE \E t \in TaskIds, start_now \in BOOLEAN : AppendTask(t, start_now)
    BY <1>21, AppendTaskInv
  <1>22. CASE StartCallback
    BY <1>22, StartCallbackInv
  <1>23. CASE \E t \in TaskIds : SimEvent(t)
    BY <1>23, SimEventInv
  <1>24. CASE UNCHANGED vars
    <2>1. TypeOK'
      BY <1>24 DEF IInv, TypeOK, vars, taskVars, removalVars, eventVars,
                   wakeVars, outerVars, ghostVars
    <2>2. ShapeOf(stack') /\ CurrOf(stack', curr_task')
      BY <1>24 DEF IInv, vars
    <2>3. CountInv'
      BY <1>24 DEF IInv, CountInv, vars, removalVars
    <2>4. SendInv'
      BY <1>24 DEF IInv, SendInv, vars, wakeVars, outerVars, Top, HasLoop
    <2>5. OwedInv'
      BY <1>24 DEF IInv, OwedInv, vars, wakeVars, eventVars, outerVars,
                   ghostVars, OwedWait, Snapped, WillTake
    <2> QED
      BY <2>1, <2>2, <2>3, <2>4, <2>5 DEF IInv
  <1>25. CASE Engine
    BY <1>25, <1>1, <1>2, <1>3, <1>4, <1>5, <1>6, <1>7, <1>8 DEF Engine
  <1>26. CASE Body
    BY <1>26, <1>9, <1>10, <1>11, <1>12, <1>13, <1>14, <1>15, <1>16, <1>17,
       <1>18, <1>19, <1>20, <1>21 DEF Body
  <1> QED
    BY <1>22, <1>23, <1>24, <1>25, <1>26 DEF Next

\* The inductive invariant holds in every reachable state.
THEOREM InvariantHolds == Spec => []IInv
  <1>1. Init => IInv
    BY InitInv
  <1>2. IInv /\ [Next]_vars => IInv'
    BY StepInv
  <1> QED
    BY <1>1, <1>2, PTL DEF Spec

\* The fields of the scheduler keep their types, and neither count goes below
\* zero, for any number of tasks and events.
THEOREM TypeCorrect == Spec => []TypeOK
  <1>1. IInv => TypeOK
    BY DEF IInv
  <1> QED
    BY <1>1, InvariantHolds, PTL

\* curr_task_id always names the task whose body runs.
THEOREM CurrentTask == Spec => []CurrTaskIsInnermost
  <1>1. IInv => CurrTaskIsInnermost
    BY DEF IInv, CurrOf, CurrTaskIsInnermost
  <1> QED
    BY <1>1, InvariantHolds, PTL

\* No send is lost, as long as no event is re-created while tasks wait for it
\* (new_event_hdl then drops them): when schedule_task has returned to the
\* simulator, every task that waited for a sent event has been rescheduled or
\* removed.
THEOREM WakeupsDelivered ==
    ASSUME KeepsWaiters
    PROVE  Spec => []NoLostWakeup
  <1>1. IInv => NoLostWakeup
    <2> SUFFICES ASSUME IInv, stack = <<>>, status = "ok"
                 PROVE  ~has_wakeup /\ pending_wakeup = <<>> /\ owed = {}
      BY DEF NoLostWakeup
    <2>1. Len(stack) = 0
      OBVIOUS
    <2>2. ~has_wakeup /\ pending_wakeup = <<>>
      BY <2>1 DEF IInv, SendInv, HasLoop
    <2>3. owed = {}
      BY <2>1, <2>2 DEF IInv, OwedInv, Snapped, OwedWait
    <2> QED
      BY <2>2, <2>3
  <1> QED
    BY <1>1, InvariantHolds, PTL

\* A removal flag never hides behind a zero count, and the tasks that ended
\* are counted exactly.
THEOREM RemovalsCounted == Spec => []RemovalCounted
  <1>1. IInv => RemovalCounted
    <2> SUFFICES ASSUME IInv PROVE RemovalCounted
      OBVIOUS
    <2>1. /\ IsFiniteSet(removed) /\ Cardinality(removed) \in Nat
          /\ nr_removed \in Nat /\ nr_removed >= Cardinality(removed)
      BY RemovedFinite DEF IInv, CountInv, TypeOK
    <2>2. removed # {} => Cardinality(removed) > 0
      BY <2>1, FS_EmptySet
    <2>3. removed # {} => nr_removed > 0
      BY <2>1, <2>2
    <2> QED
      BY <2>3 DEF IInv, CountInv, RemovalCounted
  <1> QED
    BY <1>1, InvariantHolds, PTL
=============================================================================
