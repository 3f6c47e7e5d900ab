--------------------------- MODULE PutValueProofs ---------------------------
(* Proofs about PutValue, for every set of handles, tasks and values and any
   number of writes: the queue and the flush, then the callbacks of a time
   slot, await_rw, and the refinement of PostedWrites.                     *)
EXTENDS PutValue, TLAPS

----------------------------------------------------------------------------
(* Sequences of handles *)

\* s holds no handle twice.
Distinct(s) == \A i, j \in DOMAIN s : s[i] = s[j] => i = j

\* Removing h from a queue keeps the others in their order.
LEMMA WithoutLemma ==
    ASSUME NEW S, NEW s \in Seq(S), NEW h, InSeq(s, h), Distinct(s)
    PROVE  /\ IndexOf(s, h) \in 1 .. Len(s) /\ s[IndexOf(s, h)] = h
           /\ Without(s, h) \in Seq(S)
           /\ Len(Without(s, h)) = Len(s) - 1
           /\ \A k \in 1 .. Len(s) - 1 :
                Without(s, h)[k] = IF k < IndexOf(s, h) THEN s[k] ELSE s[k + 1]
  <1> DEFINE P(i) == s[i] = h /\ \A j \in DOMAIN s : s[j] = h => i <= j
             i == IndexOf(s, h)
             left == SubSeq(s, 1, i - 1)
             right == SubSeq(s, i + 1, Len(s))
  <1>1. \E k \in DOMAIN s : P(k)
    BY DEF InSeq, Distinct
  <1>2. i \in DOMAIN s /\ P(i)
    BY <1>1 DEF IndexOf
  <1>3. i \in 1 .. Len(s) /\ s[i] = h
    BY <1>2
  <1> HIDE DEF i, P
  <1>4. /\ left \in Seq(S) /\ Len(left) = i - 1
        /\ \A k \in 1 .. i - 1 : left[k] = s[k]
    BY <1>3
  <1>5. /\ right \in Seq(S) /\ Len(right) = Len(s) - i
        /\ \A k \in 1 .. Len(s) - i : right[k] = s[k + i]
    BY <1>3
  <1>6. Without(s, h) = left \o right
    BY DEF Without, i
  <1> HIDE DEF left, right
  <1> QED
    BY <1>3, <1>4, <1>5, <1>6 DEF i

\* Appending a handle that is not in a queue
LEMMA AppendLemma ==
    ASSUME NEW S, NEW s \in Seq(S), NEW h \in S
    PROVE  /\ Append(s, h) \in Seq(S)
           /\ Len(Append(s, h)) = Len(s) + 1
           /\ \A k \in 1 .. Len(s) + 1 :
                Append(s, h)[k] = IF k = Len(s) + 1 THEN h ELSE s[k]
  OBVIOUS

\* One queue behind another
LEMMA ConcatLemma ==
    ASSUME NEW S, NEW s \in Seq(S), NEW t \in Seq(S)
    PROVE  /\ s \o t \in Seq(S) /\ Len(s \o t) = Len(s) + Len(t)
           /\ \A i \in 1 .. Len(s) + Len(t) :
                (s \o t)[i] = IF i <= Len(s) THEN s[i] ELSE t[i - Len(s)]
  OBVIOUS

\* Who is in a queue after a removal
LEMMA WithoutMembers ==
    ASSUME NEW S, NEW s \in Seq(S), NEW h, InSeq(s, h), Distinct(s)
    PROVE  /\ Without(s, h) \in Seq(S) /\ Distinct(Without(s, h))
           /\ \A x : InSeq(Without(s, h), x) <=> InSeq(s, x) /\ x # h
  <1> DEFINE w == Without(s, h)
             i == IndexOf(s, h)
  <1>1. /\ i \in 1 .. Len(s) /\ s[i] = h
        /\ w \in Seq(S) /\ Len(w) = Len(s) - 1
        /\ \A k \in 1 .. Len(s) - 1 : w[k] = IF k < i THEN s[k] ELSE s[k + 1]
    BY WithoutLemma
  <1> HIDE DEF w, i
  <1>2. Distinct(w)
    <2> SUFFICES ASSUME NEW a \in 1 .. Len(s) - 1, NEW b \in 1 .. Len(s) - 1,
                        w[a] = w[b]
                 PROVE  a = b
      BY <1>1 DEF Distinct
    <2> DEFINE src(k) == IF k < i THEN k ELSE k + 1
    <2>1. src(a) \in DOMAIN s /\ src(b) \in DOMAIN s /\ s[src(a)] = s[src(b)]
      BY <1>1
    <2>2. src(a) = src(b)
      BY <2>1 DEF Distinct
    <2> QED
      BY <1>1, <2>2
  <1>3. ASSUME NEW x, InSeq(w, x)
        PROVE  InSeq(s, x) /\ x # h
    BY SMTT(30), <1>1, <1>3 DEF InSeq, Distinct
  <1>4. ASSUME NEW x, InSeq(s, x), x # h
        PROVE  InSeq(w, x)
    <2>1. PICK j \in 1 .. Len(s) : s[j] = x
      BY <1>4 DEF InSeq
    <2>2. j # i
      BY <1>1, <1>4, <2>1
    <2>3. w[IF j < i THEN j ELSE j - 1] = x
      BY <1>1, <2>1, <2>2
    <2> QED
      BY <1>1, <2>1, <2>2, <2>3 DEF InSeq
  <1> QED
    BY <1>1, <1>2, <1>3, <1>4 DEF w

\* Who is in a queue after a handle was appended
LEMMA AppendMembers ==
    ASSUME NEW S, NEW s \in Seq(S), NEW h \in S, ~ InSeq(s, h), Distinct(s)
    PROVE  /\ Append(s, h) \in Seq(S) /\ Distinct(Append(s, h))
           /\ \A x : InSeq(Append(s, h), x) <=> InSeq(s, x) \/ x = h
  <1> DEFINE a == Append(s, h)
  <1>1. /\ a \in Seq(S) /\ Len(a) = Len(s) + 1
        /\ \A k \in 1 .. Len(s) + 1 : a[k] = IF k = Len(s) + 1 THEN h ELSE s[k]
    BY AppendLemma
  <1> HIDE DEF a
  <1>2. Distinct(a)
    BY <1>1 DEF Distinct, InSeq
  <1>3. \A x : InSeq(a, x) <=> InSeq(s, x) \/ x = h
    BY <1>1 DEF InSeq
  <1> QED
    BY <1>1, <1>2, <1>3 DEF a

----------------------------------------------------------------------------
(* The inductive invariant *)

\* The position of the first entry that is still to be written
First == IF pos = 0 THEN 1 ELSE pos

\* h is among the entries of hdl_put_value that are still to be written.
Ahead(h) == \E i \in First .. Len(queue.main) : queue.main[i] = h

\* A flush runs inside a callback of the rw phase; only on bak builds do tasks
\* run meanwhile; the backup queue is in use only during a flush.
FlushInv ==
    /\ pos > 0 => /\ phase = "rw" /\ running # "none"
                  /\ awake => build = "bak"
    /\ pos = 0 => queue.bak = <<>>
    /\ pos <= Len(queue.main) + 1

\* QueueExact, without the concatenation
LineInv ==
    /\ \A h \in Handles : put[h].flag # "None" <=> Ahead(h) \/ InSeq(queue.bak, h)
    /\ \A i, j \in First .. Len(queue.main) :
         queue.main[i] = queue.main[j] => i = j
    /\ Distinct(queue.bak)
    /\ \A h \in Handles : ~ (Ahead(h) /\ InSeq(queue.bak, h))
    /\ queue.freed = <<>>

IInv == TypeOK /\ FlushInv /\ LineInv

\* Outside of a flush all of hdl_put_value is still to be written.
LEMMA Quiet ==
    ASSUME IInv, pos = 0
    PROVE  /\ Distinct(queue.main) /\ queue.bak = <<>> /\ queue.freed = <<>>
           /\ queue.main \in Seq(Handles)
           /\ \A h \in Handles : put[h].flag # "None" <=> InSeq(queue.main, h)
  <1>1. /\ queue.main \in Seq(Handles) /\ queue.bak = <<>>
        /\ queue.freed = <<>> /\ First = 1
    BY DEF IInv, TypeOK, FlushInv, LineInv, First
  <1>2. DOMAIN queue.main = 1 .. Len(queue.main)
    BY <1>1
  <1>3. Distinct(queue.main)
    BY <1>1, <1>2 DEF IInv, LineInv, Distinct
  <1>4. \A h \in Handles : InSeq(queue.main, h) <=> Ahead(h)
    BY <1>1, <1>2 DEF InSeq, Ahead
  <1>5. \A h : ~ InSeq(queue.bak, h)
    BY <1>1 DEF InSeq
  <1> QED
    BY <1>1, <1>3, <1>4, <1>5 DEF IInv, LineInv

\* The other direction: what is to be shown after a step that ends outside of
\* a flush
LEMMA QuietLine ==
    ASSUME NEW m \in Seq(Handles), Distinct(m), queue'.main = m,
           queue'.bak = <<>>, queue'.freed = <<>>, pos' = 0,
           \A h \in Handles : put'[h].flag # "None" <=> InSeq(m, h)
    PROVE  LineInv'
  <1>1. First' = 1 /\ DOMAIN m = 1 .. Len(m)
    BY DEF First
  <1>2. \A h \in Handles : InSeq(m, h) <=> Ahead(h)'
    BY <1>1 DEF InSeq, Ahead
  <1>3. \A h : ~ InSeq(queue.bak, h)'
    BY DEF InSeq
  <1>4. Distinct(queue.bak)'
    BY DEF Distinct
  <1> QED
    BY <1>1, <1>2, <1>3, <1>4 DEF LineInv, Distinct

----------------------------------------------------------------------------
(* Writes *)

\* A write during a flush is to a handle that is not in line.
LEMMA WriteCases ==
    ASSUME ~ ReentrantRewrites, IInv, NEW h \in Handles, MayWrite(h)
    PROVE  \/ pos = 0
           \/ /\ pos > 0 /\ phase = "rw" /\ build = "bak"
              /\ put[h].flag = "None" /\ ~ InSeq(queue.main, h)
              /\ ~ InSeq(queue.bak, h)
  BY DEF IInv, TypeOK, FlushInv, LineInv, MayWrite, LuaRuns

\* Steps that leave the queues, the flags and the flush alone
LEMMA LineUnchanged ==
    ASSUME LineInv, UNCHANGED <<queue, pos>>,
           \A h \in Handles : put'[h].flag = put[h].flag
    PROVE  LineInv'
  <1>1. \A h : Ahead(h)' = Ahead(h)
    BY DEF Ahead, First
  <1> QED
    BY <1>1 DEF LineInv, First

\* What Unqueue leaves outside of a flush
LEMMA UnqueueQuiet ==
    ASSUME IInv, pos = 0, NEW h \in Handles
    PROVE  /\ Unqueue(h) = [queue EXCEPT !.main = Unqueue(h).main]
           /\ Unqueue(h).main \in Seq(Handles) /\ Distinct(Unqueue(h).main)
           /\ \A x \in Handles : InSeq(Unqueue(h).main, x) <=>
                                 put[x].flag # "None" /\ x # h
  <1>1. /\ Distinct(queue.main) /\ queue.bak = <<>>
        /\ queue.main \in Seq(Handles)
        /\ \A x \in Handles : put[x].flag # "None" <=> InSeq(queue.main, x)
    BY Quiet
  <1>2. queue \in [main : Seq(Handles), bak : Seq(Handles), freed : Seq(Handles)]
    BY DEF IInv, TypeOK
  <1>3. CASE InSeq(queue.main, h)
    <2>1. Unqueue(h) = [queue EXCEPT !.main = Without(queue.main, h)]
      BY <1>2, <1>3 DEF Unqueue
    <2>2. Unqueue(h).main = Without(queue.main, h)
      BY <1>2, <2>1
    <2> QED
      BY <1>1, <1>3, <2>1, <2>2, WithoutMembers
  <1>4. CASE ~ InSeq(queue.main, h)
    <2>1. Unqueue(h) = queue
      BY <1>1, <1>4 DEF Unqueue, InSeq
    <2> QED
      BY <1>1, <1>2, <1>4, <2>1
  <1> QED
    BY <1>3, <1>4

\* A deferred setter keeps the invariant; its assertion holds.
LEMMA PostWriteInv ==
    ASSUME ~ ReentrantRewrites, IInv, NEW h \in Handles, NEW flag \in Flags,
           NEW format, NEW v \in Values, PostWrite(h, flag, format, v)
    PROVE  IInv'
  <1>1. put \in [Handles -> [flag : Flags \cup {"None"}, format : Formats,
                              value : Values]]
    BY DEF IInv, TypeOK
  <1>2. queue \in [main : Seq(Handles), bak : Seq(Handles), freed : Seq(Handles)]
    BY DEF IInv, TypeOK
  <1>3. CASE Overridden(h, flag)
    <2>1. UNCHANGED <<build, phase, hdl, put, queue, pos, running, awake,
                      rw_phase_passed, rw_cb_re_registered, flushes, await,
                      stale, nst, unsettled>> /\ writes' = writes + 1
      BY <1>3 DEF PostWrite
    <2>2. writes' \in 0 .. MaxWrites
      BY <2>1, PutAssumption DEF PostWrite, MayWrite, IInv, TypeOK
    <2>3. LineInv'
      BY <2>1, LineUnchanged DEF IInv
    <2> QED
      BY <2>1, <2>2, <2>3 DEF IInv, TypeOK, FlushInv
  <1>4. CASE ~ Overridden(h, flag)
    <2>1. put[h].flag # "None" => Queued(h)
      BY WriteCases, Quiet DEF PostWrite, Queued
    <2> DEFINE q == IF put[h].flag = "None" THEN queue ELSE Unqueue(h)
    <2>2. /\ format \in Formats /\ MayWrite(h) /\ writes' = writes + 1
          /\ put' = [put EXCEPT ![h] = [flag |-> flag, format |-> format,
                                        value |-> v]]
          /\ queue' = Enqueue(q, h)
          /\ ReRegister
          /\ UNCHANGED <<build, phase, hdl, pos, running, awake,
                         rw_phase_passed, await, stale, nst, unsettled>>
      BY <1>4, <2>1 DEF PostWrite
    <2>3. \A x \in Handles : put'[x].flag =
                                IF x = h THEN flag ELSE put[x].flag
      BY <1>1, <2>2
    <2>4. flag # "None"
      BY DEF Flags
    <2>5. /\ queue' \in [main : Seq(Handles), bak : Seq(Handles),
                          freed : Seq(Handles)]
          /\ FlushInv' /\ LineInv'
      <3>1. CASE pos = 0
        <4> DEFINE m == Unqueue(h).main
        <4>1. /\ q = [queue EXCEPT !.main = m] /\ m \in Seq(Handles)
              /\ Distinct(m)
              /\ \A x \in Handles : InSeq(m, x) <=> put[x].flag # "None" /\ x # h
          <5>1. /\ Unqueue(h) = [queue EXCEPT !.main = m] /\ m \in Seq(Handles)
                /\ Distinct(m)
                /\ \A x \in Handles : InSeq(m, x) <=>
                                       put[x].flag # "None" /\ x # h
            BY <3>1, UnqueueQuiet
          <5>2. put[h].flag = "None" => Unqueue(h) = queue
            BY <3>1, Quiet DEF Unqueue, InSeq
          <5>3. q = Unqueue(h)
            BY <5>2
          <5> HIDE DEF q, m
          <5> QED
            BY <1>2, <5>1, <5>3
        <4>2. /\ queue' = [queue EXCEPT !.main = Append(m, h)]
              /\ queue.bak = <<>> /\ queue.freed = <<>>
          <5> HIDE DEF q, m
          <5>1. queue' = [q EXCEPT !.main = Append(@, h)]
            BY <2>2, <3>1 DEF Enqueue
          <5>2. q = [queue EXCEPT !.main = m]
            BY <4>1
          <5>3. queue' = [queue EXCEPT !.main = Append(m, h)]
            BY <1>2, <5>1, <5>2
          <5> QED
            BY <3>1, <5>3, Quiet
        <4>3. /\ Append(m, h) \in Seq(Handles) /\ Distinct(Append(m, h))
              /\ \A x : InSeq(Append(m, h), x) <=> InSeq(m, x) \/ x = h
          BY <4>1, AppendMembers
        <4>4. /\ queue'.main = Append(m, h) /\ queue'.bak = <<>>
              /\ queue'.freed = <<>>
              /\ queue' \in [main : Seq(Handles), bak : Seq(Handles),
                              freed : Seq(Handles)]
          BY <1>2, <4>2, <4>3
        <4>5. LineInv'
          <5> HIDE DEF m
          <5>1. \A x \in Handles : put'[x].flag # "None" <=>
                                    InSeq(Append(m, h), x)
            BY <2>3, <2>4, <4>1, <4>3
          <5>2. pos' = 0
            BY <2>2, <3>1
          <5> QED
            BY <4>3, <4>4, <5>1, <5>2, QuietLine
        <4>6. FlushInv'
          BY <2>2, <3>1, <4>4 DEF FlushInv
        <4> QED
          BY <4>4, <4>5, <4>6
      <3>2. CASE pos # 0
        <4>1. /\ pos > 0 /\ phase = "rw" /\ build = "bak"
              /\ put[h].flag = "None" /\ ~ InSeq(queue.main, h)
              /\ ~ InSeq(queue.bak, h)
          BY <2>2, <3>2, WriteCases
        <4>2. queue' = [queue EXCEPT !.bak = Append(queue.bak, h)]
          BY <2>2, <4>1 DEF Enqueue
        <4>3. /\ queue'.main = queue.main /\ queue'.freed = queue.freed
              /\ queue'.bak = Append(queue.bak, h)
          BY <1>2, <4>2
        <4>4. /\ Append(queue.bak, h) \in Seq(Handles)
              /\ Distinct(Append(queue.bak, h))
              /\ \A x : InSeq(Append(queue.bak, h), x) <=>
                          InSeq(queue.bak, x) \/ x = h
          BY <1>2, <4>1, AppendMembers DEF IInv, LineInv
        <4>5. \A x : Ahead(x)' = Ahead(x)
          BY <2>2, <4>3 DEF Ahead, First
        <4>6. ~ Ahead(h)
          BY <4>1 DEF IInv, LineInv
        <4>7. \A x : InSeq(queue.bak, x)' <=> InSeq(queue.bak, x) \/ x = h
          BY <4>3, <4>4 DEF InSeq
        <4>8. LineInv'
          <5>1. First' = First
            BY <2>2 DEF First
          <5>2. \A x \in Handles : (put'[x].flag # "None")
                                    <=> Ahead(x)' \/ InSeq(queue.bak, x)'
            BY <2>3, <2>4, <4>5, <4>7 DEF IInv, LineInv
          <5>3. \A x \in Handles : ~ (Ahead(x)' /\ InSeq(queue.bak, x)')
            BY <4>5, <4>6, <4>7 DEF IInv, LineInv
          <5>4. Distinct(queue.bak)'
            BY <4>3, <4>4 DEF Distinct
          <5> QED
            BY <4>3, <5>1, <5>2, <5>3, <5>4 DEF IInv, LineInv
        <4>9. FlushInv'
          BY <2>2, <4>1, <4>3 DEF IInv, FlushInv
        <4>10. queue' \in [main : Seq(Handles), bak : Seq(Handles),
                           freed : Seq(Handles)]
          <5> DEFINE b == Append(queue.bak, h)
          <5>1. b \in Seq(Handles) /\ queue' = [queue EXCEPT !.bak = b]
            BY <4>2, <4>4
          <5> HIDE DEF b
          <5> QED
            BY <1>2, <5>1
        <4> QED
          BY <4>8, <4>9, <4>10
      <3> QED
        BY <3>1, <3>2
    <2>6. put' \in [Handles -> [flag : Flags \cup {"None"}, format : Formats,
                                value : Values]]
      BY <1>1, <2>2
    <2>7. /\ rw_cb_re_registered' \in BOOLEAN
          /\ flushes' \in [now : Nat, later : Nat]
      <3> HIDE DEF q
      <3>1. /\ flushes \in [now : Nat, later : Nat]
            /\ rw_cb_re_registered \in BOOLEAN /\ rw_phase_passed \in BOOLEAN
        BY DEF IInv, TypeOK
      <3>2. ReRegister
        BY <2>2
      <3> QED
        BY <3>1, <3>2 DEF ReRegister
    <2>8. writes' \in 0 .. MaxWrites
      BY <2>2, PutAssumption DEF MayWrite, IInv, TypeOK
    <2>9. UNCHANGED <<build, phase, hdl, pos, running, awake,
                      rw_phase_passed, await, stale, nst, unsettled>>
      BY <2>2
    <2>10. TypeOK'
      BY <2>5, <2>6, <2>7, <2>8, <2>9 DEF IInv, TypeOK
    <2> QED
      BY <2>5, <2>10 DEF IInv
  <1> QED
    BY <1>3, <1>4

\* The state of a handle without a pending write
LEMMA NoPutType ==
    /\ NoPut \in [flag : Flags \cup {"None"}, format : Formats, value : Values]
    /\ NoPut.flag = "None"
  <1>1. /\ (CHOOSE f \in Formats : TRUE) \in Formats
        /\ (CHOOSE v \in Values : TRUE) \in Values
    BY PutAssumption
  <1> QED
    BY <1>1 DEF NoPut

\* An immediate setter keeps the invariant: it changes no flag.
LEMMA ImmWriteInv ==
    ASSUME IInv, NEW h \in Handles, NEW flag, NEW buffered, NEW v \in Values,
           ImmWrite(h, flag, buffered, v)
    PROVE  IInv'
  <1>1. /\ put \in [Handles -> [flag : Flags \cup {"None"}, format : Formats,
                                 value : Values]]
        /\ hdl \in [Handles -> Values]
    BY DEF IInv, TypeOK
  <1>2. UNCHANGED <<build, phase, queue, pos, running, awake, rw_phase_passed,
                    rw_cb_re_registered, flushes, nst, await, stale>>
    BY DEF ImmWrite, slotVars
  <1>3. /\ put' \in [Handles -> [flag : Flags \cup {"None"}, format : Formats,
                                  value : Values]]
        /\ \A x \in Handles : put'[x].flag = put[x].flag
    BY <1>1 DEF ImmWrite
  <1>4. hdl' \in [Handles -> Values]
    BY <1>1 DEF ImmWrite, Abs!Drive
  <1>5. writes' \in 0 .. MaxWrites
    BY PutAssumption DEF ImmWrite, MayWrite, IInv, TypeOK
  <1>6. unsettled' \subseteq {"imm", "flush"}
    BY DEF ImmWrite, IInv, TypeOK
  <1>7. LineInv'
    BY <1>2, <1>3, LineUnchanged DEF IInv
  <1>8. TypeOK'
    BY <1>2, <1>3, <1>4, <1>5, <1>6 DEF IInv, TypeOK
  <1> QED
    BY <1>2, <1>7, <1>8 DEF IInv, FlushInv

\* An immediate release keeps the invariant: it takes the entry and the flag.
LEMMA ReleaseImmInv ==
    ASSUME ~ ReentrantRewrites, IInv, NEW h \in Handles, ReleaseImmValue(h)
    PROVE  IInv'
  <1>1. /\ put \in [Handles -> [flag : Flags \cup {"None"}, format : Formats,
                                 value : Values]]
        /\ queue \in [main : Seq(Handles), bak : Seq(Handles),
                      freed : Seq(Handles)]
    BY DEF IInv, TypeOK
  <1>2. UNCHANGED <<build, phase, hdl, pos, running, awake, rw_phase_passed,
                    rw_cb_re_registered, flushes, nst, await, stale>>
    BY DEF ReleaseImmValue, slotVars
  <1>3. /\ writes' \in 0 .. MaxWrites /\ unsettled' \subseteq {"imm", "flush"}
    BY PutAssumption DEF ReleaseImmValue, MayWrite, IInv, TypeOK
  <1>4. put' \in [Handles -> [flag : Flags \cup {"None"}, format : Formats,
                               value : Values]]
    BY <1>1, NoPutType DEF ReleaseImmValue
  <1>5. /\ queue' \in [main : Seq(Handles), bak : Seq(Handles),
                        freed : Seq(Handles)]
        /\ FlushInv' /\ LineInv'
    <2>1. CASE pos = 0
      <3> DEFINE m == Unqueue(h).main
      <3>1. /\ Unqueue(h) = [queue EXCEPT !.main = m] /\ m \in Seq(Handles)
            /\ Distinct(m)
            /\ \A x \in Handles : InSeq(m, x) <=> put[x].flag # "None" /\ x # h
        BY <2>1, UnqueueQuiet
      <3> HIDE DEF m
      <3>2. queue' = [queue EXCEPT !.main = m]
        BY <3>1 DEF ReleaseImmValue
      <3>3. queue.bak = <<>> /\ queue.freed = <<>>
        BY <2>1, Quiet
      <3>4. /\ queue'.main = m /\ queue'.bak = <<>> /\ queue'.freed = <<>>
            /\ queue' \in [main : Seq(Handles), bak : Seq(Handles),
                            freed : Seq(Handles)]
        BY <1>1, <3>1, <3>2, <3>3
      <3>5. put[h].flag # "None" => Queued(h)
        BY <2>1, Quiet DEF Queued
      <3>6. \A x \in Handles : put'[x].flag # "None" <=>
                                put[x].flag # "None" /\ x # h
        BY <1>1, <3>5, NoPutType DEF ReleaseImmValue
      <3>7. LineInv'
        BY <1>2, <2>1, <3>1, <3>4, <3>6, QuietLine
      <3>8. FlushInv'
        BY <1>2, <2>1, <3>4 DEF FlushInv
      <3> QED
        BY <3>4, <3>7, <3>8
    <2>2. CASE pos # 0
      <3>1. ~ InSeq(queue.main, h) /\ ~ InSeq(queue.bak, h)
        BY <2>2, WriteCases DEF ReleaseImmValue
      <3>2. queue' = queue /\ put' = put
        BY <3>1 DEF ReleaseImmValue, Unqueue, Queued
      <3>3. LineInv'
        BY <1>2, <3>2, LineUnchanged DEF IInv
      <3> QED
        BY <1>1, <1>2, <3>2, <3>3 DEF IInv, FlushInv
    <2> QED
      BY <2>1, <2>2
  <1>6. TypeOK'
    BY <1>2, <1>3, <1>4, <1>5 DEF IInv, TypeOK
  <1> QED
    BY <1>5, <1>6 DEF IInv

\* Every write of a task keeps the invariant.
LEMMA WriteInv ==
    ASSUME ~ ReentrantRewrites, IInv, NEW h \in Handles,
           Write(h) \/ SetFreeze(h) \/ ReleaseValue(h) \/ ReleaseImmValue(h)
    PROVE  IInv'
  <1>1. hdl[h] \in Values
    BY DEF IInv, TypeOK
  <1>2. \A s \in Setters : s.flag \in Flags
    BY DEF Setters, SetValue, SetValue64, SetValueMulti, SetValueMultiBeat,
           SetValueBaseStr, SetValueStr, SetShuffled, Setter, Plain, Flags
  <1>3. CASE Write(h)
    <2>1. PICK s \in Setters, v \in Values :
             PostWrite(h, s.flag, s.format, v) \/ ImmWrite(h, s.flag, s.buffered, v)
      BY <1>3 DEF Write
    <2> QED
      BY <1>2, <2>1, PostWriteInv, ImmWriteInv
  <1>4. CASE SetFreeze(h)
    <2>1. "Force" \in Flags
      BY DEF Flags
    <2> QED
      BY <1>1, <1>4, <2>1, PostWriteInv, ImmWriteInv DEF SetFreeze
  <1>5. CASE ReleaseValue(h)
    <2>1. "Release" \in Flags
      BY DEF Flags
    <2> QED
      BY <1>1, <1>5, <2>1, PostWriteInv DEF ReleaseValue
  <1>6. CASE ReleaseImmValue(h)
    BY <1>6, ReleaseImmInv
  <1> QED
    BY <1>3, <1>4, <1>5, <1>6

----------------------------------------------------------------------------
(* The flush *)

\* The callback that starts a flush keeps the invariant.
LEMMA FireInv ==
    ASSUME IInv, FireFlush \/ \E t \in Tasks : FireAwait(t)
    PROVE  IInv'
  <1>1. PICK c \in Tasks \cup {"flush"} : Fire(c)
    BY DEF FireFlush, FireAwait
  <1>2. /\ flushes' \in [now : Nat, later : Nat]
        /\ await' \in [Tasks -> {"none", "now", "later"}]
    BY DEF FireFlush, FireAwait, IInv, TypeOK
  <1>3. c # "none"
    BY PutAssumption
  <1>4. /\ UNCHANGED <<build, phase, hdl, put, queue, rw_phase_passed,
                       rw_cb_re_registered, nst, unsettled, writes>>
        /\ phase = "rw" /\ running = "none" /\ running' = c /\ awake' = FALSE
    BY <1>1 DEF Fire
  <1>5. pos = 0
    BY <1>4 DEF IInv, TypeOK, FlushInv
  <1>6. pos' \in {0, 1} /\ stale' \in [Tasks -> BOOLEAN]
    BY <1>1 DEF Fire, BeginApply, IInv, TypeOK
  <1>7. First' = First
    BY <1>5, <1>6 DEF First
  <1>8. \A h : Ahead(h)' = Ahead(h)
    BY <1>4, <1>7 DEF Ahead
  <1>9. LineInv'
    BY <1>4, <1>7, <1>8 DEF IInv, LineInv
  <1>10. queue.main \in Seq(Handles) /\ queue.bak = <<>>
    BY <1>5 DEF IInv, TypeOK, FlushInv
  <1>11. FlushInv'
    BY <1>3, <1>4, <1>6, <1>10 DEF FlushInv
  <1>12. pos' \in Nat /\ awake' \in BOOLEAN
         /\ running' \in Tasks \cup {"none", "flush"}
    <2>1. c \in Tasks \cup {"none", "flush"}
      BY <1>1
    <2>2. pos' \in Nat
      BY <1>6
    <2>3. awake' = FALSE /\ running' = c
      BY <1>4
    <2>4. awake' \in BOOLEAN
      BY <2>3
    <2> QED
      BY <2>1, <2>2, <2>3, <2>4
  <1>13. TypeOK'
    BY <1>2, <1>4, <1>6, <1>12 DEF IInv, TypeOK
  <1> QED
    BY <1>9, <1>11, <1>13 DEF IInv

\* While no entry is removed during a flush, the iterator walks over main.
LEMMA MemoryIsMain ==
    ASSUME IInv
    PROVE  Memory = queue.main /\ queue.main \in Seq(Handles)
  <1>1. queue.freed = <<>> /\ queue.main \in Seq(Handles)
    BY DEF IInv, TypeOK, LineInv
  <1> QED
    BY <1>1 DEF Memory

\* One round of the loop keeps the invariant: the entry leaves the line as its
\* flag is taken.
LEMMA ApplyOneInv ==
    ASSUME IInv, ApplyOne
    PROVE  IInv'
  <1> DEFINE m == queue.main
             h == m[pos]
  <1>1. /\ phase = "rw" /\ pos \in 1 .. Len(m) /\ pos' = pos + 1
        /\ m \in Seq(Handles) /\ h \in Handles
        /\ put' = [put EXCEPT ![h] = NoPut]
        /\ awake' = (build = "bak" /\ hdl' # hdl)
        /\ unsettled' = unsettled \cup {"flush"}
        /\ UNCHANGED <<build, phase, queue, running, rw_phase_passed,
                       rw_cb_re_registered, flushes, nst, await, stale, writes>>
    <2>1. Memory = m /\ m \in Seq(Handles)
      BY MemoryIsMain
    <2>2. phase = "rw" /\ pos \in 1 .. Len(m) /\ h \in Handles
      BY <2>1 DEF ApplyOne
    <2>3. Memory[pos] = h
      BY <2>1
    <2> HIDE DEF h
    <2>4. /\ put' = [put EXCEPT ![h] = NoPut]
          /\ awake' = (build = "bak" /\ hdl' # hdl)
      BY <2>3 DEF ApplyOne
    <2> QED
      BY <2>1, <2>2, <2>4 DEF ApplyOne, slotVars
  <1>2. /\ put \in [Handles -> [flag : Flags \cup {"None"}, format : Formats,
                                 value : Values]]
        /\ hdl \in [Handles -> Values]
    BY DEF IInv, TypeOK
  <1>3. hdl' \in [Handles -> Values]
    <2>1. Memory[pos] = h
      BY MemoryIsMain
    <2> HIDE DEF h
    <2>2. PICK flag \in Flags \cup {"None"}, v \in Values :
             hdl' = [hdl EXCEPT ![h] = Abs!Drive(@, flag, v)]
      <3>1. put[h].flag \in Flags \cup {"None"} /\ put[h].value \in Values
        BY <1>1, <1>2
      <3> QED
        BY ZenonT(30), <2>1, <3>1 DEF ApplyOne
    <2> QED
      BY <1>1, <1>2, <2>2 DEF Abs!Drive
  <1>4. /\ put' \in [Handles -> [flag : Flags \cup {"None"}, format : Formats,
                                  value : Values]]
        /\ \A x \in Handles : put'[x].flag =
                                IF x = h THEN "None" ELSE put[x].flag
    BY <1>1, <1>2, NoPutType
  <1>5. First = pos /\ First' = pos + 1
    BY <1>1 DEF First
  <1>6. ~ InSeq(queue.bak, h)
    BY <1>1, <1>5 DEF IInv, LineInv, Ahead
  <1>7. \A x : Ahead(x)' <=> Ahead(x) /\ x # h
    BY <1>1, <1>5 DEF IInv, LineInv, Ahead
  <1>8. LineInv'
    <2>1. \A x \in Handles : (put'[x].flag # "None")
                              <=> Ahead(x)' \/ InSeq(queue.bak, x)'
      BY <1>1, <1>4, <1>6, <1>7 DEF IInv, LineInv
    <2>2. \A x \in Handles : ~ (Ahead(x)' /\ InSeq(queue.bak, x)')
      BY <1>1, <1>7 DEF IInv, LineInv
    <2>3. \A i, j \in First' .. Len(queue'.main) :
            queue'.main[i] = queue'.main[j] => i = j
      BY <1>1, <1>5 DEF IInv, LineInv
    <2> QED
      BY <1>1, <2>1, <2>2, <2>3 DEF IInv, LineInv
  <1>9. FlushInv'
    <2>1. pos > 0 /\ pos + 1 > 0 /\ pos + 1 <= Len(m) + 1 /\ pos + 1 # 0
      BY <1>1
    <2>2. running # "none"
      BY <2>1 DEF IInv, FlushInv
    <2>3. awake' => build' = "bak"
      BY <1>1
    <2>4. pos' = pos + 1 /\ queue'.main = m /\ phase' = "rw" /\ running' # "none"
      BY <1>1, <2>2
    <2> HIDE DEF m
    <2> QED
      BY <2>1, <2>3, <2>4 DEF FlushInv
  <1>10. TypeOK'
    BY <1>1, <1>3, <1>4 DEF IInv, TypeOK
  <1> QED
    BY <1>8, <1>9, <1>10 DEF IInv

\* The swap with the backup queue keeps the invariant: nothing is left in main.
LEMMA NextRoundInv ==
    ASSUME IInv, NextRound
    PROVE  IInv'
  <1> DEFINE b == queue.bak
  <1>1. /\ phase = "rw" /\ pos = Len(queue.main) + 1
        /\ queue' = [main |-> b, bak |-> <<>>, freed |-> <<>>]
        /\ pos' = IF b = <<>> THEN 0 ELSE 1
        /\ awake' = FALSE
        /\ UNCHANGED <<build, phase, hdl, put, running, rw_phase_passed,
                       rw_cb_re_registered, flushes, nst, await, stale,
                       unsettled, writes>>
    BY MemoryIsMain DEF NextRound, slotVars
  <1>2. queue.main \in Seq(Handles) /\ b \in Seq(Handles)
    BY DEF IInv, TypeOK
  <1>3. \A x : ~ Ahead(x)
    BY <1>1, <1>2 DEF Ahead, First
  <1>4. First' = 1 /\ pos > 0
    BY <1>1, <1>2 DEF First
  <1>5. \A x : Ahead(x)' <=> InSeq(b, x)
    BY <1>1, <1>2, <1>4 DEF Ahead, InSeq
  <1>6. \A x : ~ InSeq(queue.bak, x)'
    BY <1>1 DEF InSeq
  <1>7. LineInv'
    <2>1. \A x \in Handles : (put'[x].flag # "None")
                              <=> Ahead(x)' \/ InSeq(queue.bak, x)'
      BY <1>1, <1>3, <1>5, <1>6 DEF IInv, LineInv
    <2>2. \A i, j \in First' .. Len(queue'.main) :
            queue'.main[i] = queue'.main[j] => i = j
      BY <1>1, <1>2, <1>4 DEF IInv, LineInv, Distinct
    <2>3. Distinct(queue.bak)' /\ queue'.freed = <<>>
      BY <1>1 DEF Distinct
    <2> QED
      BY <1>6, <2>1, <2>2, <2>3 DEF LineInv
  <1>8. FlushInv'
    BY <1>1, <1>2, <1>4 DEF IInv, FlushInv
  <1>9. queue' \in [main : Seq(Handles), bak : Seq(Handles),
                     freed : Seq(Handles)]
    BY <1>1, <1>2
  <1>10. pos' \in Nat
    BY <1>1
  <1>11. TypeOK'
    BY <1>1, <1>9, <1>10 DEF IInv, TypeOK
  <1> QED
    BY <1>7, <1>8, <1>11 DEF IInv

----------------------------------------------------------------------------
(* The other steps *)

\* Steps that leave the queues, the flags and the flush alone, taken outside
\* of a flush or in place
LEMMA ElsewhereInv ==
    ASSUME IInv, UNCHANGED <<put, queue, pos>>, TypeOK',
           pos = 0 \/ UNCHANGED <<build, phase, running, awake>>
    PROVE  IInv'
  <1>1. LineInv'
    BY LineUnchanged DEF IInv
  <1>2. FlushInv'
    BY DEF IInv, FlushInv
  <1> QED
    BY <1>1, <1>2 DEF IInv

\* The types of what the other steps change
LEMMA OtherTypes ==
    ASSUME IInv,
           \/ FlushDone \/ \E t \in Tasks : AwaitDone(t) \/ AwaitRw(t)
           \/ NextSimTime \/ Evaluate \/ StartPass \/ EndPass \/ Settled
           \/ NextSlot \/ WriteInReadOnly
    PROVE  TypeOK' /\ UNCHANGED <<put, queue, pos>>
  <1> USE DEF slotVars
  <1>1. CASE FlushDone
    <2>1. nst \in [due : Nat, registered : Nat]
      BY DEF IInv, TypeOK
    <2>2. nst' = nst \/ nst' = [nst EXCEPT !.registered = @ + 1]
      BY <1>1 DEF FlushDone
    <2>3. nst' \in [due : Nat, registered : Nat]
      BY <2>1, <2>2
    <2> QED
      BY <1>1, <2>3 DEF FlushDone, IInv, TypeOK
  <1>2. ASSUME NEW t \in Tasks, AwaitDone(t)
        PROVE  TypeOK' /\ UNCHANGED <<put, queue, pos>>
    BY <1>2 DEF AwaitDone, IInv, TypeOK
  <1>3. ASSUME NEW t \in Tasks, AwaitRw(t)
        PROVE  TypeOK' /\ UNCHANGED <<put, queue, pos>>
    BY <1>3 DEF AwaitRw, IInv, TypeOK
  <1>4. CASE NextSimTime
    <2>1. nst \in [due : Nat, registered : Nat]
          /\ flushes \in [now : Nat, later : Nat]
      BY DEF IInv, TypeOK
    <2>2. nst' \in [due : Nat, registered : Nat]
      BY <1>4, <2>1 DEF NextSimTime
    <2>3. flushes' \in [now : Nat, later : Nat]
      BY <1>4, <2>1 DEF NextSimTime
    <2> QED
      BY <1>4, <2>2, <2>3 DEF NextSimTime, IInv, TypeOK
  <1>5. CASE Evaluate
    BY <1>5 DEF Evaluate, IInv, TypeOK
  <1>6. CASE StartPass
    BY <1>6 DEF StartPass, IInv, TypeOK
  <1>7. CASE EndPass
    BY <1>7 DEF EndPass, IInv, TypeOK
  <1>8. CASE Settled
    BY <1>8 DEF Settled, IInv, TypeOK
  <1>9. CASE NextSlot
    BY <1>9, PutAssumption DEF NextSlot, IInv, TypeOK
  <1>10. CASE WriteInReadOnly
    BY <1>10 DEF WriteInReadOnly, IInv, TypeOK
  <1> QED
    BY <1>1, <1>2, <1>3, <1>4, <1>5, <1>6, <1>7, <1>8, <1>9, <1>10

\* They happen outside of a flush, except for await_rw().
LEMMA OtherPlaces ==
    ASSUME IInv,
           \/ FlushDone \/ \E t \in Tasks : AwaitDone(t) \/ AwaitRw(t)
           \/ NextSimTime \/ Evaluate \/ StartPass \/ EndPass \/ Settled
           \/ NextSlot \/ WriteInReadOnly
    PROVE  pos = 0 \/ UNCHANGED <<build, phase, running, awake>>
  BY DEF IInv, TypeOK, FlushInv, FlushDone, AwaitDone, AwaitRw, NextSimTime,
         Evaluate, StartPass, EndPass, Settled, NextSlot, WriteInReadOnly,
         RdPhaseActive

\* Every step keeps the invariant, as long as a task that runs during a flush
\* writes only to handles that are not queued.
LEMMA StepInv ==
    ASSUME ~ ReentrantRewrites, IInv, [Next]_vars
    PROVE  IInv'
  <1>1. CASE FireFlush \/ \E t \in Tasks : FireAwait(t)
    BY <1>1, FireInv
  <1>2. CASE ApplyOne
    BY <1>2, ApplyOneInv
  <1>3. CASE NextRound
    BY <1>3, NextRoundInv
  <1>4. CASE \E h \in Handles : Write(h) \/ SetFreeze(h) \/ ReleaseValue(h)
                                     \/ ReleaseImmValue(h)
    BY <1>4, WriteInv
  <1>5. CASE \/ FlushDone \/ \E t \in Tasks : AwaitDone(t) \/ AwaitRw(t)
             \/ NextSimTime \/ Evaluate \/ StartPass \/ EndPass \/ Settled
             \/ NextSlot \/ WriteInReadOnly
    BY <1>5, OtherTypes, OtherPlaces, ElsewhereInv
  <1>6. CASE UNCHANGED vars
    <2>1. UNCHANGED <<build, phase, hdl, put, queue, pos, running, awake,
                      rw_phase_passed, rw_cb_re_registered, flushes, await,
                      stale, nst, unsettled, writes>>
      BY <1>6 DEF vars
    <2>2. TypeOK'
      BY <2>1 DEF IInv, TypeOK
    <2> QED
      BY <2>1, <2>2, ElsewhereInv
  <1> QED
    BY <1>1, <1>2, <1>3, <1>4, <1>5, <1>6 DEF Next, Machine, Lua

\* The invariant holds at first.
LEMMA InitInv ==
    ASSUME Init PROVE IInv
  <1>1. TypeOK
    <2>1. put \in [Handles -> [flag : Flags \cup {"None"}, format : Formats,
                                value : Values]]
      BY NoPutType DEF Init
    <2>2. queue \in [main : Seq(Handles), bak : Seq(Handles),
                     freed : Seq(Handles)]
      BY DEF Init
    <2>3. nst \in [due : Nat, registered : Nat]
      BY DEF Init
    <2>4. await \in [Tasks -> {"none", "now", "later"}] /\ stale \in [Tasks -> BOOLEAN]
      BY DEF Init
    <2>5. build \in {"verilator", "bak"} /\ writes \in 0 .. MaxWrites
      BY PutAssumption DEF Init
    <2>6. flushes \in [now : Nat, later : Nat]
      BY DEF Init
    <2> QED
      BY <2>1, <2>2, <2>3, <2>4, <2>5, <2>6 DEF Init, TypeOK
  <1>2. FlushInv
    BY DEF Init, FlushInv
  <1>3. LineInv
    <2>1. \A h \in Handles : put[h].flag = "None"
      BY NoPutType DEF Init
    <2>2. \A h : ~ Ahead(h) /\ ~ InSeq(queue.bak, h)
      <3>1. queue.main = <<>> /\ queue.bak = <<>> /\ First = 1
        BY DEF Init, First
      <3> QED
        BY <3>1 DEF Ahead, InSeq
    <2>3. /\ \A i, j \in First .. Len(queue.main) :
               queue.main[i] = queue.main[j] => i = j
          /\ Distinct(queue.bak) /\ queue.freed = <<>>
      BY DEF Init, First, Distinct
    <2> QED
      BY <2>1, <2>2, <2>3 DEF LineInv
  <1> QED
    BY <1>1, <1>2, <1>3 DEF IInv

----------------------------------------------------------------------------
(* What follows *)

\* The line of QueueExact: what is left of hdl_put_value, then the backup
LEMMA LineIsExact ==
    ASSUME IInv PROVE QueueExact
  <1> DEFINE m == queue.main
             b == queue.bak
             n == Len(m) + 1 - First
             u == Unapplied
             line == u \o b
  <1>1. /\ m \in Seq(Handles) /\ b \in Seq(Handles)
        /\ First \in 1 .. Len(m) + 1 /\ First \in Nat /\ n \in Nat
    <2>1. m \in Seq(Handles) /\ b \in Seq(Handles) /\ pos \in Nat
      BY DEF IInv, TypeOK
    <2>2. pos <= Len(m) + 1
      BY DEF IInv, FlushInv
    <2> QED
      BY <2>1, <2>2 DEF First
  <1>2. u = SubSeq(m, First, Len(m))
    BY DEF Unapplied, First
  <1>3. /\ u \in Seq(Handles) /\ Len(u) = n
        /\ \A i \in 1 .. n : u[i] = m[First + i - 1]
    <2> HIDE DEF m, u
    <2>1. First \in Nat /\ First >= 1 /\ First <= Len(m) + 1
      BY <1>1
    <2> HIDE DEF First
    <2> QED
      BY <1>1, <1>2, <2>1
  <1>4. /\ Len(line) = n + Len(b) /\ line \in Seq(Handles)
        /\ \A i \in 1 .. n + Len(b) : line[i] = IF i <= n THEN u[i] ELSE b[i - n]
    <2> HIDE DEF u, b, n
    <2> QED
      BY <1>1, <1>3, ConcatLemma
  <1>5. DOMAIN line = 1 .. n + Len(b)
    BY <1>4
  <1>6. \A h : Ahead(h) <=> \E i \in 1 .. n : u[i] = h
    <2>1. ASSUME NEW h, Ahead(h)
          PROVE  \E i \in 1 .. n : u[i] = h
      <3>1. PICK k \in First .. Len(m) : m[k] = h
        BY <2>1 DEF Ahead
      <3>2. k - First + 1 \in 1 .. n
        BY <1>1, <3>1
      <3>3. u[k - First + 1] = m[First + (k - First + 1) - 1]
        BY <1>3, <3>2
      <3> QED
        BY <1>1, <3>1, <3>2, <3>3
    <2>2. ASSUME NEW h, NEW i \in 1 .. n, u[i] = h
          PROVE  Ahead(h)
      <3>1. First + i - 1 \in First .. Len(m) /\ m[First + i - 1] = h
        BY <1>1, <1>3, <2>2
      <3> QED
        BY <3>1 DEF Ahead
    <2> QED
      BY <2>1, <2>2
  <1>7. DOMAIN b = 1 .. Len(b)
    BY <1>1
  <1> HIDE DEF u, n, line, b
  <1>8. \A h : InSeq(line, h) <=> Ahead(h) \/ InSeq(b, h)
    <2>1. ASSUME NEW h, InSeq(line, h)
          PROVE  Ahead(h) \/ InSeq(b, h)
      BY SMTT(30), <1>1, <1>4, <1>5, <1>6, <1>7, <2>1 DEF InSeq
    <2>2. ASSUME NEW h, Ahead(h)
          PROVE  InSeq(line, h)
      <3>1. PICK i \in 1 .. n : u[i] = h
        BY <1>6, <2>2
      <3>2. i \in DOMAIN line /\ line[i] = h
        BY <1>1, <1>4, <1>5, <3>1
      <3> QED
        BY <3>2 DEF InSeq
    <2>3. ASSUME NEW h, InSeq(b, h)
          PROVE  InSeq(line, h)
      <3>1. PICK k \in 1 .. Len(b) : b[k] = h
        BY <1>7, <2>3 DEF InSeq
      <3>2. n + k \in DOMAIN line /\ line[n + k] = h
        BY <1>1, <1>4, <1>5, <3>1
      <3> QED
        BY <3>2 DEF InSeq
    <2> QED
      BY <2>1, <2>2, <2>3
  <1>9. ASSUME NEW i \in DOMAIN line, NEW j \in DOMAIN line, line[i] = line[j]
        PROVE  i = j
    <2>1. /\ \A k \in 1 .. n : Ahead(line[k]) /\ line[k] \in Handles
          /\ \A k \in n + 1 .. n + Len(b) : InSeq(b, line[k])
      <3>1. ASSUME NEW k \in 1 .. n
            PROVE  Ahead(line[k]) /\ line[k] \in Handles
        <4>1. line[k] = u[k] /\ u[k] \in Handles
          BY <1>1, <1>3, <1>4
        <4> QED
          BY <1>6, <4>1
      <3>2. ASSUME NEW k \in n + 1 .. n + Len(b)
            PROVE  InSeq(b, line[k])
        <4>1. line[k] = b[k - n] /\ k - n \in DOMAIN b
          BY <1>1, <1>4, <1>7
        <4> QED
          BY <4>1 DEF InSeq
      <3> QED
        BY <3>1, <3>2
    <2>2. \A h \in Handles : ~ (Ahead(h) /\ InSeq(b, h))
      BY DEF IInv, LineInv, b
    <2>3. i <= n <=> j <= n
      BY <1>1, <1>5, <1>9, <2>1, <2>2
    <2>4. CASE i <= n
      <3>0. i \in 1 .. n /\ j \in 1 .. n
        BY <1>1, <1>5, <2>3, <2>4
      <3>1. m[First + i - 1] = m[First + j - 1]
        BY SMTT(30), <1>1, <1>3, <1>4, <1>5, <1>9, <3>0
      <3>2. First + i - 1 \in First .. Len(m) /\ First + j - 1 \in First .. Len(m)
        <4>1. \A k \in 1 .. n : First + k - 1 \in First .. Len(m)
          BY <1>1 DEF n
        <4> QED
          BY <3>0, <4>1
      <3>3. First + i - 1 = First + j - 1
        BY <3>1, <3>2 DEF IInv, LineInv
      <3> QED
        BY <1>1, <1>5, <3>3
    <2>5. CASE ~ (i <= n)
      <3>1. b[i - n] = b[j - n] /\ i - n \in DOMAIN b /\ j - n \in DOMAIN b
        BY <1>1, <1>4, <1>5, <1>7, <1>9, <2>3, <2>5
      <3>2. i - n = j - n
        BY <3>1 DEF IInv, LineInv, Distinct, b
      <3> QED
        BY <1>1, <1>5, <3>2
    <2> QED
      BY <2>4, <2>5
  <1>10. \A h \in Handles : put[h].flag # "None" <=> InSeq(line, h)
    BY <1>8 DEF IInv, LineInv, b
  <1>11. queue.freed = <<>>
    BY DEF IInv, LineInv
  <1> QED
    BY <1>9, <1>10, <1>11 DEF QueueExact, line, u, b

\* What is in line is in a queue.
LEMMA LineIsQueued ==
    ASSUME IInv PROVE FlagIsQueued
  <1>1. queue.main \in Seq(Handles) /\ First \in Nat /\ First >= 1
    BY DEF IInv, TypeOK, First
  <1>2. \A h : Ahead(h) => InSeq(queue.main, h)
    BY <1>1 DEF Ahead, InSeq
  <1> QED
    BY <1>2 DEF IInv, LineInv, FlagIsQueued, Queued

\* The invariant of the writes and of the flush
LEMMA Invariance ==
    ASSUME ~ ReentrantRewrites PROVE Spec => []IInv
  <1>1. Init => IInv
    BY InitInv
  <1>2. IInv /\ [Next]_vars => IInv'
    BY StepInv
  <1> QED
    BY <1>1, <1>2, PTL DEF Spec

\* Values, queues, callbacks and counters of the posted writes have their types
\* in every reachable state.
THEOREM PutTypeCorrect ==
    ASSUME ~ ReentrantRewrites PROVE Spec => []TypeOK
  <1>1. IInv => TypeOK
    BY DEF IInv
  <1> QED
    BY <1>1, Invariance, PTL

\* A handle is in line exactly when its put_value_flag is set, and once: a
\* flush loses no write, applies none twice and finds a flag at every entry,
\* if the tasks it runs leave alone the handles that are queued.
THEOREM PutQueueExact ==
    ASSUME ~ ReentrantRewrites PROVE Spec => []QueueExact
  <1>1. IInv => QueueExact
    BY LineIsExact
  <1> QED
    BY <1>1, Invariance, PTL

\* The assertion of try_put_value (complex_handle.rs:283) never fails then.
THEOREM PutFlagIsQueued ==
    ASSUME ~ ReentrantRewrites PROVE Spec => []FlagIsQueued
  <1>1. IInv => FlagIsQueued
    BY LineIsQueued
  <1> QED
    BY <1>1, Invariance, PTL

----------------------------------------------------------------------------
(* The chain of flushes *)

\* The types of the counters of callbacks
CounterTypes ==
    /\ flushes \in [now : Nat, later : Nat]
    /\ nst \in [due : Nat, registered : Nat]
    /\ rw_phase_passed \in BOOLEAN

\* A next sim time callback runs in the timed phase, before anything else.
DueFirst ==
    build = "bak" /\ phase \notin {"timed", "halted"} => nst.due = 0

ChainInv == CounterTypes /\ DueFirst /\ OneChain

----------------------------------------------------------------------------
(* What the steps of tasks do to the callbacks *)

\* A write changes the callbacks by a re-registration at most.
LEMMA WriteFrame ==
    ASSUME NEW h \in Handles,
           Write(h) \/ SetFreeze(h) \/ ReleaseValue(h) \/ ReleaseImmValue(h)
    PROVE  /\ LuaRuns
           /\ UNCHANGED <<build, pos, running, awake, rw_phase_passed, await,
                          stale, nst>>
           /\ phase' = phase \/ phase' = "halted"
           /\ ReRegister \/ UNCHANGED <<rw_cb_re_registered, flushes>>
  <1>1. ASSUME NEW flag, NEW format, NEW v, PostWrite(h, flag, format, v)
        PROVE  /\ LuaRuns
               /\ UNCHANGED <<build, pos, running, awake, rw_phase_passed,
                              await, stale, nst>>
               /\ phase' = phase \/ phase' = "halted"
               /\ ReRegister \/ UNCHANGED <<rw_cb_re_registered, flushes>>
    BY <1>1 DEF PostWrite, MayWrite
  <1>2. ASSUME NEW flag, NEW buffered, NEW v, ImmWrite(h, flag, buffered, v)
        PROVE  /\ LuaRuns
               /\ UNCHANGED <<build, phase, pos, running, awake, await, stale,
                              rw_phase_passed, rw_cb_re_registered, flushes,
                              nst>>
    BY <1>2 DEF ImmWrite, MayWrite, slotVars
  <1>3. CASE Write(h)
    BY <1>1, <1>2, <1>3 DEF Write
  <1>4. CASE SetFreeze(h)
    BY <1>1, <1>2, <1>4 DEF SetFreeze
  <1>5. CASE ReleaseValue(h)
    BY <1>1, <1>5 DEF ReleaseValue
  <1>6. CASE ReleaseImmValue(h)
    BY <1>6 DEF ReleaseImmValue, MayWrite, slotVars
  <1> QED
    BY <1>3, <1>4, <1>5, <1>6

\* A re-registration registers one flush, when one has been done in the slot.
LEMMA ReRegisterLemma ==
    ASSUME CounterTypes, ReRegister
    PROVE  /\ flushes' \in [now : Nat, later : Nat]
           /\ flushes'.now = flushes.now
           /\ \/ /\ flushes'.later = flushes.later
                 /\ ~ rw_phase_passed \/ rw_cb_re_registered
                 /\ rw_cb_re_registered' => rw_cb_re_registered
              \/ flushes'.later = flushes.later + 1 /\ rw_phase_passed
  BY DEF CounterTypes, ReRegister

----------------------------------------------------------------------------
(* The chain of flushes: every step keeps ChainInv *)

\* No chain of flushes is registered at the start.
LEMMA ChainInit ==
    ASSUME Init PROVE ChainInv
  <1>1. /\ flushes.now = 0 /\ flushes.later = 0 /\ nst.due = 0
        /\ nst.registered = IF build = "bak" THEN 1 ELSE 0
        /\ phase = "timed" /\ rw_phase_passed = FALSE /\ running = "none"
    BY DEF Init
  <1>2. CounterTypes
    BY DEF Init, CounterTypes
  <1> QED
    BY <1>1, <1>2 DEF ChainInv, DueFirst, OneChain

\* Steps that leave the counters and the callback in progress alone
LEMMA ChainUnchanged ==
    ASSUME ChainInv, UNCHANGED <<build, nst, flushes, rw_phase_passed>>,
           running' = "flush" <=> running = "flush",
           phase # "halted" \/ phase' = "halted",
           phase = "timed" => phase' = "timed" \/ phase' = "halted" \/ nst.due = 0
    PROVE  ChainInv'
  BY DEF ChainInv, CounterTypes, DueFirst, OneChain

\* Every step of the flushes and of the time slots keeps the chain.
LEMMA ChainStep ==
    ASSUME ChainInv, [Next]_vars
    PROVE  ChainInv'
  <1>0. /\ flushes \in [now : Nat, later : Nat]
        /\ nst \in [due : Nat, registered : Nat]
        /\ flushes.now \in Nat /\ flushes.later \in Nat
        /\ nst.due \in Nat /\ nst.registered \in Nat
        /\ rw_phase_passed \in BOOLEAN
    BY DEF ChainInv, CounterTypes
  <1>1. CASE FireFlush
    <2>1. /\ flushes.now > 0 /\ flushes' = [flushes EXCEPT !.now = @ - 1]
          /\ phase = "rw" /\ running' = "flush"
          /\ UNCHANGED <<build, phase, rw_phase_passed, nst>>
      BY <1>1 DEF FireFlush, Fire
    <2>2. /\ flushes' \in [now : Nat, later : Nat]
      BY <1>0, <2>1
    <2> QED
      BY <1>0, <2>1, <2>2 DEF ChainInv, CounterTypes, DueFirst, OneChain
  <1>2. ASSUME NEW t \in Tasks, FireAwait(t)
        PROVE  ChainInv'
    <2>1. t # "flush"
      BY PutAssumption
    <2>2. /\ running = "none" /\ running' = t /\ phase = "rw"
          /\ UNCHANGED <<build, phase, nst, flushes, rw_phase_passed>>
      BY <1>2 DEF FireAwait, Fire
    <2> QED
      BY <2>1, <2>2, ChainUnchanged
  <1>3. CASE ApplyOne \/ NextRound \/ Evaluate \/ EndPass \/ Settled
               \/ WriteInReadOnly
    <2>1. /\ UNCHANGED <<build, nst, flushes, rw_phase_passed, running>>
          /\ phase # "halted"
          /\ phase = "timed" => nst.due = 0
      BY <1>3, <1>0 DEF ApplyOne, NextRound, Evaluate, EndPass, Settled,
                        WriteInReadOnly, RdPhaseActive, slotVars
    <2> QED
      BY <2>1, ChainUnchanged
  <1>4. CASE FlushDone
    <2>1. /\ running = "flush" /\ phase = "rw" /\ running' = "none"
          /\ nst' = IF build = "bak" /\ ~ rw_phase_passed
                    THEN [nst EXCEPT !.registered = @ + 1] ELSE nst
          /\ rw_phase_passed' = TRUE
          /\ UNCHANGED <<build, phase, flushes>>
      BY <1>4 DEF FlushDone
    <2>2. /\ nst' \in [due : Nat, registered : Nat] /\ nst'.due = nst.due
          /\ nst'.registered = IF build = "bak" /\ ~ rw_phase_passed
                               THEN nst.registered + 1 ELSE nst.registered
      BY <1>0, <2>1
    <2>3. build = "bak" => nst.due = 0
      BY <2>1 DEF ChainInv, DueFirst
    <2>4. build = "bak" => nst'.registered = 1
      BY <1>0, <2>1, <2>2, <2>3 DEF ChainInv, OneChain
    <2> QED
      BY <1>0, <2>1, <2>2, <2>3, <2>4 DEF ChainInv, CounterTypes, DueFirst, OneChain
  <1>5. ASSUME NEW t \in Tasks, AwaitDone(t) \/ AwaitRw(t)
        PROVE  ChainInv'
    <2>1. t # "flush"
      BY PutAssumption
    <2>2. /\ running' = "flush" <=> running = "flush"
          /\ phase # "halted"
          /\ UNCHANGED <<build, phase, nst, flushes, rw_phase_passed>>
      BY <1>5, <2>1 DEF AwaitDone, AwaitRw, LuaRuns, slotVars
    <2> QED
      BY <2>2, ChainUnchanged
  <1>6. CASE NextSimTime
    <2>1. /\ phase = "timed" /\ nst.due > 0 /\ nst' = [nst EXCEPT !.due = @ - 1]
          /\ rw_phase_passed' = FALSE
          /\ flushes' = [flushes EXCEPT !.later = @ + 1]
          /\ UNCHANGED <<build, phase, running>>
      BY <1>6 DEF NextSimTime
    <2>2. /\ nst' \in [due : Nat, registered : Nat] /\ nst'.due = nst.due - 1
          /\ nst'.registered = nst.registered
      BY <1>0, <2>1
    <2>3. /\ flushes' \in [now : Nat, later : Nat]
          /\ flushes'.now + flushes'.later > 0
      BY <1>0, <2>1
    <2>4. build = "bak" => nst'.due = 0 /\ nst'.registered = 0
      BY <1>0, <2>1, <2>2 DEF ChainInv, OneChain
    <2>5. CounterTypes' /\ DueFirst'
      BY <2>1, <2>2, <2>3 DEF CounterTypes, DueFirst
    <2>6. OneChain'
      BY <2>1, <2>3, <2>4 DEF OneChain
    <2> QED
      BY <2>5, <2>6 DEF ChainInv
  <1>7. CASE StartPass
    <2>1. /\ phase = "eval" /\ phase' = "rw"
          /\ flushes' = [now |-> flushes.now + flushes.later, later |-> 0]
          /\ UNCHANGED <<build, running, rw_phase_passed, nst>>
      BY <1>7 DEF StartPass
    <2>2. /\ flushes' \in [now : Nat, later : Nat]
          /\ flushes'.now + flushes'.later = flushes.now + flushes.later
      BY <1>0, <2>1
    <2> QED
      BY <1>0, <2>1, <2>2 DEF ChainInv, CounterTypes, DueFirst, OneChain
  <1>8. CASE NextSlot
    <2>1. /\ phase = "ro" /\ phase' = "timed"
          /\ nst' = [due |-> IF build = "verilator" THEN 1 ELSE nst.registered,
                     registered |-> 0]
          /\ UNCHANGED <<build, running, rw_phase_passed, flushes>>
      BY <1>8 DEF NextSlot
    <2>2. /\ nst' \in [due : Nat, registered : Nat] /\ nst'.registered = 0
          /\ build = "bak" => nst'.due = nst.registered
      BY <1>0, <2>1
    <2>3. build = "bak" => nst.due = 0
      BY <2>1 DEF ChainInv, DueFirst
    <2> QED
      BY <1>0, <2>1, <2>2, <2>3 DEF ChainInv, CounterTypes, DueFirst, OneChain
  <1>9. ASSUME NEW h \in Handles,
               Write(h) \/ SetFreeze(h) \/ ReleaseValue(h) \/ ReleaseImmValue(h)
        PROVE  ChainInv'
    <2>1. /\ LuaRuns
          /\ UNCHANGED <<build, running, rw_phase_passed, nst>>
          /\ phase' = phase \/ phase' = "halted"
          /\ ReRegister \/ UNCHANGED <<rw_cb_re_registered, flushes>>
      BY <1>9, WriteFrame
    <2>2. phase # "halted"
      BY <2>1 DEF LuaRuns
    <2>3. CASE UNCHANGED flushes
      BY <2>1, <2>2, <2>3, ChainUnchanged
    <2>4. CASE ReRegister
      <3>1. /\ flushes' \in [now : Nat, later : Nat] /\ flushes'.now = flushes.now
            /\ \/ flushes'.later = flushes.later
               \/ flushes'.later = flushes.later + 1 /\ rw_phase_passed
        BY <2>4, ReRegisterLemma DEF ChainInv
      <3> QED
        BY <1>0, <2>1, <2>2, <3>1 DEF ChainInv, CounterTypes, DueFirst, OneChain
    <2> QED
      BY <2>1, <2>3, <2>4
  <1>10. CASE UNCHANGED vars
    BY <1>10, ChainUnchanged DEF vars
  <1> QED
    BY <1>1, <1>2, <1>3, <1>4, <1>5, <1>6, <1>7, <1>8, <1>9, <1>10
       DEF Next, Machine, Lua

\* The flushes go on in one chain: outside of Verilator there is always one
\* next sim time callback, or the flush that registers it is still to come,
\* however tasks write, also while a flush runs them.
THEOREM PutOneChain == Spec => []OneChain
  <1>1. Init => ChainInv
    BY ChainInit
  <1>2. ChainInv /\ [Next]_vars => ChainInv'
    BY ChainStep
  <1>3. ChainInv => OneChain
    BY DEF ChainInv
  <1> QED
    BY <1>1, <1>2, <1>3, PTL DEF Spec

----------------------------------------------------------------------------
(* The values posted after the flush *)

\* A callback that does not flush at the moment has nothing to flush, and has
\* not resumed a task yet.
CallbackIdle == running # "none" /\ pos = 0 => queue.main = <<>> /\ ~ awake

\* rw_cb_re_registered says that a flush is registered, or has begun.
ReRegistered ==
    rw_cb_re_registered =>
      flushes.now + flushes.later > 0 \/ running = "flush"

\* A value that is posted when the flush is over has a flush registered for it,
\* or a callback is at work on the queue.
FlushFollows ==
    rw_phase_passed /\ queue.main # <<>> /\ phase # "halted" =>
      flushes.now + flushes.later > 0 \/ running # "none"

\* A pass ends when all its callbacks have been called.
PassOver ==
    /\ phase \in {"settle", "ro"} => flushes.now = 0
    /\ running # "none" => phase \in {"rw", "halted"}

LateInv == CallbackIdle /\ ReRegistered /\ FlushFollows /\ PassOver
             /\ FlushedBeforeReadOnly

\* The counters have their types, and no flush runs outside of the rw phase.
LEMMA LateTypes ==
    ASSUME IInv
    PROVE  /\ CounterTypes
           /\ flushes.now \in Nat /\ flushes.later \in Nat
           /\ pos \in Nat
           /\ phase # "rw" => pos = 0
           /\ running = "none" => pos = 0
           /\ pos = 0 => queue.bak = <<>>
  BY DEF IInv, TypeOK, FlushInv, CounterTypes

\* No write is late at the start.
LEMMA LateInit ==
    ASSUME Init PROVE LateInv
  BY DEF Init, LateInv, CallbackIdle, ReRegistered, FlushFollows, PassOver,
         FlushedBeforeReadOnly

\* Steps that touch neither queues nor callbacks and do not go to a later phase
LEMMA LateUnchanged ==
    ASSUME LateInv,
           UNCHANGED <<queue, pos, running, awake, rw_phase_passed,
                       rw_cb_re_registered, flushes>>,
           \/ phase' = phase \/ phase' = "halted"
           \/ phase' \in {"timed", "eval"} /\ phase \notin {"rw", "halted"}
    PROVE  LateInv'
  BY DEF LateInv, CallbackIdle, ReRegistered, FlushFollows, PassOver,
         FlushedBeforeReadOnly

\* Only a write that goes through the re-registration makes the queue grow.
LEMMA WriteQueues ==
    ASSUME IInv, NEW h \in Handles, queue.main = <<>>,
           Write(h) \/ SetFreeze(h) \/ ReleaseValue(h) \/ ReleaseImmValue(h)
    PROVE  ReRegister \/ queue'.main = <<>>
  <1>1. \A flag, format, v : PostWrite(h, flag, format, v) =>
                              ReRegister \/ queue' = queue
    BY DEF PostWrite
  <1>2. \A flag, buffered, v : ImmWrite(h, flag, buffered, v) => queue' = queue
    BY DEF ImmWrite
  <1>3. ReleaseImmValue(h) => queue'.main = <<>>
    <2>1. queue \in [main : Seq(Handles), bak : Seq(Handles),
                      freed : Seq(Handles)]
      BY DEF IInv, TypeOK
    <2>2. ~ InSeq(queue.main, h)
      BY DEF InSeq
    <2>3. Unqueue(h).main = <<>>
      BY <2>1, <2>2 DEF Unqueue
    <2> QED
      BY <2>3 DEF ReleaseImmValue
  <1> QED
    BY <1>1, <1>2, <1>3 DEF Write, SetFreeze, ReleaseValue

\* A value posted when the flush of the slot is over has a flush to follow.
LEMMA LateWrite ==
    ASSUME IInv, LateInv, NEW h \in Handles,
           Write(h) \/ SetFreeze(h) \/ ReleaseValue(h) \/ ReleaseImmValue(h)
    PROVE  LateInv'
  <1>1. /\ LuaRuns
        /\ UNCHANGED <<build, pos, running, awake, rw_phase_passed>>
        /\ phase' = phase \/ phase' = "halted"
        /\ ReRegister \/ UNCHANGED <<rw_cb_re_registered, flushes>>
    BY WriteFrame
  <1>2. phase \notin {"halted", "ro"}
    BY <1>1 DEF LuaRuns
  <1>3. /\ flushes.now \in Nat /\ flushes.later \in Nat /\ CounterTypes
        /\ pos \in Nat
    BY LateTypes
  <1>4. running # "none" => pos # 0
    BY <1>1, <1>2 DEF LuaRuns, LateInv, CallbackIdle, PassOver
  <1>5. /\ flushes'.now \in Nat /\ flushes'.later \in Nat
        /\ flushes'.now = flushes.now /\ flushes'.later >= flushes.later
        /\ rw_cb_re_registered' => rw_cb_re_registered
                                     \/ flushes'.later = flushes.later + 1
    BY <1>1, <1>3, ReRegisterLemma
  <1>6. CallbackIdle'
    BY <1>1, <1>4 DEF CallbackIdle
  <1>7. ReRegistered'
    BY <1>1, <1>3, <1>5 DEF LateInv, ReRegistered
  <1>8. FlushFollows'
    <2> SUFFICES ASSUME rw_phase_passed, queue'.main # <<>>, running = "none"
                 PROVE  flushes'.now + flushes'.later > 0
      BY <1>1 DEF FlushFollows
    <2>1. CASE queue.main # <<>>
      <3>1. flushes.now + flushes.later > 0
        BY <1>2, <2>1 DEF LateInv, FlushFollows
      <3> QED
        BY <1>3, <1>5, <3>1
    <2>2. CASE queue.main = <<>>
      <3>1. ReRegister
        BY <2>2, WriteQueues
      <3>2. rw_cb_re_registered \/ flushes'.later = flushes.later + 1
        BY <1>3, <3>1, ReRegisterLemma
      <3>3. rw_cb_re_registered => flushes.now + flushes.later > 0
        BY DEF LateInv, ReRegistered
      <3> QED
        BY <1>3, <1>5, <3>2, <3>3
    <2> QED
      BY <2>1, <2>2
  <1>9. PassOver'
    BY <1>1, <1>5 DEF LateInv, PassOver
  <1>10. FlushedBeforeReadOnly'
    BY <1>1, <1>2 DEF FlushedBeforeReadOnly
  <1> QED
    BY <1>6, <1>7, <1>8, <1>9, <1>10 DEF LateInv

\* Every step keeps LateInv.
LEMMA LateStep ==
    ASSUME IInv, LateInv, [Next]_vars
    PROVE  LateInv'
  <1>0. /\ flushes \in [now : Nat, later : Nat]
        /\ flushes.now \in Nat /\ flushes.later \in Nat
        /\ pos \in Nat
        /\ phase # "rw" => pos = 0
        /\ running = "none" => pos = 0
        /\ pos = 0 => queue.bak = <<>>
    BY LateTypes DEF CounterTypes
  <1> USE DEF slotVars
  <1>1. CASE FireFlush
    <2>1. /\ phase = "rw" /\ running' = "flush" /\ awake' = FALSE
          /\ pos' = IF queue.main = <<>> THEN 0 ELSE 1
          /\ UNCHANGED <<phase, queue>>
      BY <1>1 DEF FireFlush, Fire, BeginApply
    <2> QED
      BY <2>1 DEF LateInv, CallbackIdle, ReRegistered, FlushFollows, PassOver,
                  FlushedBeforeReadOnly
  <1>2. ASSUME NEW t \in Tasks, FireAwait(t)
        PROVE  LateInv'
    <2>1. /\ phase = "rw" /\ running = "none" /\ running' = t /\ awake' = FALSE
          /\ pos' = IF queue.main = <<>> THEN 0 ELSE 1
          /\ UNCHANGED <<phase, queue, flushes, rw_cb_re_registered>>
      BY <1>2 DEF FireAwait, Fire, BeginApply
    <2>2. t # "none"
      BY PutAssumption
    <2> QED
      BY <2>1, <2>2 DEF LateInv, CallbackIdle, ReRegistered, FlushFollows,
                        PassOver, FlushedBeforeReadOnly
  <1>3. CASE ApplyOne
    <2>1. /\ phase = "rw" /\ pos > 0 /\ pos' > 0
          /\ UNCHANGED <<phase, queue, running, flushes, rw_cb_re_registered>>
      BY <1>0, <1>3 DEF ApplyOne
    <2> QED
      BY <1>0, <2>1 DEF LateInv, CallbackIdle, ReRegistered, FlushFollows,
                        PassOver, FlushedBeforeReadOnly
  <1>4. CASE NextRound
    <2>1. /\ phase = "rw" /\ pos > 0 /\ awake' = FALSE
          /\ queue' = [main |-> queue.bak, bak |-> <<>>, freed |-> <<>>]
          /\ pos' = IF queue.bak = <<>> THEN 0 ELSE 1
          /\ UNCHANGED <<phase, running, flushes, rw_cb_re_registered>>
      BY <1>0, <1>4, MemoryIsMain DEF NextRound
    <2>2. queue'.main = queue.bak /\ running # "none"
      BY <1>0, <2>1
    <2> QED
      BY <2>1, <2>2 DEF LateInv, CallbackIdle, ReRegistered, FlushFollows,
                        PassOver, FlushedBeforeReadOnly
  <1>5. CASE FlushDone
    <2>1. /\ phase = "rw" /\ running = "flush" /\ pos = 0
          /\ rw_cb_re_registered' = FALSE /\ running' = "none"
          /\ UNCHANGED <<phase, queue>>
      BY <1>5 DEF FlushDone
    <2>2. queue.main = <<>>
      BY <2>1 DEF LateInv, CallbackIdle
    <2> QED
      BY <2>1, <2>2 DEF LateInv, CallbackIdle, ReRegistered, FlushFollows,
                        PassOver, FlushedBeforeReadOnly
  <1>6. ASSUME NEW t \in Tasks, AwaitDone(t)
        PROVE  LateInv'
    <2>1. /\ phase = "rw" /\ running = t /\ pos = 0 /\ running' = "none"
          /\ UNCHANGED <<phase, queue, rw_cb_re_registered, flushes>>
      BY <1>6 DEF AwaitDone
    <2>2. t # "none" /\ t # "flush"
      BY PutAssumption
    <2>3. queue.main = <<>>
      BY <2>1, <2>2 DEF LateInv, CallbackIdle
    <2> QED
      BY <2>1, <2>2, <2>3 DEF LateInv, CallbackIdle, ReRegistered, FlushFollows,
                              PassOver, FlushedBeforeReadOnly
  <1>7. ASSUME NEW t \in Tasks, AwaitRw(t)
        PROVE  LateInv'
    BY <1>7, LateUnchanged DEF AwaitRw
  <1>8. CASE NextSimTime
    <2>1. /\ phase = "timed" /\ rw_phase_passed' = FALSE
          /\ rw_cb_re_registered' = FALSE
          /\ UNCHANGED <<phase, queue, pos, running, awake>>
      BY <1>8 DEF NextSimTime
    <2> QED
      BY <2>1 DEF LateInv, CallbackIdle, ReRegistered, FlushFollows, PassOver,
                  FlushedBeforeReadOnly
  <1>9. CASE Evaluate \/ NextSlot \/ WriteInReadOnly
    BY <1>9, LateUnchanged DEF Evaluate, NextSlot, WriteInReadOnly, RdPhaseActive
  <1>10. CASE StartPass
    <2>1. /\ phase = "eval" /\ phase' = "rw"
          /\ flushes' = [now |-> flushes.now + flushes.later, later |-> 0]
          /\ UNCHANGED <<queue, pos, running, awake, rw_phase_passed,
                         rw_cb_re_registered>>
      BY <1>10 DEF StartPass
    <2>2. flushes'.now + flushes'.later = flushes.now + flushes.later
      BY <1>0, <2>1
    <2> QED
      BY <2>1, <2>2 DEF LateInv, CallbackIdle, ReRegistered, FlushFollows,
                        PassOver, FlushedBeforeReadOnly
  <1>11. CASE EndPass
    <2>1. /\ phase = "rw" /\ phase' = "settle" /\ running = "none"
          /\ flushes.now = 0
          /\ UNCHANGED <<queue, pos, running, rw_phase_passed,
                         rw_cb_re_registered, flushes>>
      BY <1>11 DEF EndPass
    <2> QED
      BY <2>1 DEF LateInv, CallbackIdle, ReRegistered, FlushFollows, PassOver,
                  FlushedBeforeReadOnly
  <1>12. CASE Settled
    <2>1. /\ phase = "settle" /\ phase' = IF OnceMore THEN "eval" ELSE "ro"
          /\ UNCHANGED <<queue, pos, running, awake, rw_phase_passed,
                         rw_cb_re_registered, flushes>>
      BY <1>12 DEF Settled
    <2>2. flushes.now = 0 /\ running = "none" /\ pos = 0 /\ queue.bak = <<>>
      BY <1>0, <2>1 DEF LateInv, PassOver
    <2>3. ~ OnceMore /\ rw_phase_passed => queue.main = <<>>
      <3>1. build \in {"verilator", "bak"}
        BY DEF IInv, TypeOK
      <3>2. CASE build = "verilator"
        BY <3>2 DEF OnceMore, HasPendingPutValues
      <3>3. CASE build = "bak"
        BY <1>0, <2>1, <2>2, <3>3 DEF OnceMore, LateInv, FlushFollows
      <3> QED
        BY <3>1, <3>2, <3>3
    <2> QED
      BY <2>1, <2>2, <2>3 DEF LateInv, CallbackIdle, ReRegistered, FlushFollows,
                              PassOver, FlushedBeforeReadOnly
  <1>13. CASE \E h \in Handles : Write(h) \/ SetFreeze(h) \/ ReleaseValue(h)
                                      \/ ReleaseImmValue(h)
    BY <1>13, LateWrite
  <1>14. CASE UNCHANGED vars
    BY <1>14, LateUnchanged DEF vars
  <1> QED
    BY <1>1, <1>2, <1>3, <1>4, <1>5, <1>6, <1>7, <1>8, <1>9, <1>10, <1>11,
       <1>12, <1>13, <1>14 DEF Next, Machine, Lua

\* What a task posts before the read-only phase of a slot that has had its
\* flush has reached the design in that phase.
THEOREM PutFlushedBeforeReadOnly ==
    ASSUME ~ ReentrantRewrites PROVE Spec => []FlushedBeforeReadOnly
  <1>1. Init => LateInv
    BY LateInit
  <1>2. IInv /\ LateInv /\ [Next]_vars => LateInv'
    BY LateStep
  <1>3. LateInv => FlushedBeforeReadOnly
    BY DEF LateInv
  <1> QED
    BY <1>1, <1>2, <1>3, Invariance, PTL DEF Spec

----------------------------------------------------------------------------
(* await_rw *)

\* The callback in progress is one of this pass.
RunningNow == \A t \in Tasks : running = t => await[t] = "now"

\* What a flush of this pass has put keeps the tasks that wait since an earlier
\* pass from being resumed.
FlushMakesStale ==
    pos > 0 \/ "flush" \in unsettled =>
      \A t \in Tasks : await[t] = "now" => stale[t]

AwaitInv == RunningNow /\ FlushMakesStale

\* No task awaits the read-write phase at the start.
LEMMA AwaitInit ==
    ASSUME Init PROVE AwaitInv
  <1>1. running = "none" /\ pos = 0 /\ unsettled = {}
    BY DEF Init
  <1> QED
    BY <1>1, PutAssumption DEF AwaitInv, RunningNow, FlushMakesStale

\* A flush that has something to write makes every waiting task stale.
LEMMA BeginStale ==
    ASSUME NEW c, BeginApply(c)
    PROVE  \/ pos' = 0 /\ stale' = stale
           \/ \A t \in Tasks : await[t] = "now" => stale'[t]
  <1>1. CASE queue.main = <<>>
    BY <1>1 DEF BeginApply
  <1>2. CASE queue.main # <<>>
    <2>1. stale' = [t \in Tasks |-> await[t] # "none"]
      BY <1>2 DEF BeginApply
    <2>2. \A t \in Tasks : stale'[t] = (await[t] # "none")
      BY <2>1, Zenon
    <2> QED
      BY <2>2
  <1> QED
    BY <1>1, <1>2

\* Every step keeps AwaitInv.
LEMMA AwaitStep ==
    ASSUME IInv, AwaitInv, [Next]_vars
    PROVE  AwaitInv'
  <1>0. /\ pos \in Nat
        /\ phase # "rw" => pos = 0
        /\ running = "none" => pos = 0
        /\ await \in [Tasks -> {"none", "now", "later"}]
        /\ stale \in [Tasks -> BOOLEAN]
    BY LateTypes DEF IInv, TypeOK
  <1>00. \A t \in Tasks : t # "none" /\ t # "flush"
    BY PutAssumption
  <1> USE DEF slotVars, AwaitInv, RunningNow, FlushMakesStale
  <1>1. CASE FireFlush
    <2>1. /\ running' = "flush" /\ BeginApply("flush")
          /\ UNCHANGED <<await, unsettled>>
      BY <1>1 DEF FireFlush, Fire
    <2>2. \/ pos' = 0 /\ stale' = stale
          \/ \A u \in Tasks : await[u] = "now" => stale'[u]
      BY <2>1, BeginStale
    <2> QED
      BY <1>0, <1>00, <2>1, <2>2
  <1>2. ASSUME NEW t \in Tasks, FireAwait(t)
        PROVE  AwaitInv'
    <2>1. /\ running' = t /\ BeginApply(t) /\ await[t] = "now"
          /\ UNCHANGED <<await, unsettled>>
      BY <1>2 DEF FireAwait, Fire
    <2>2. \/ pos' = 0 /\ stale' = stale
          \/ \A u \in Tasks : await[u] = "now" => stale'[u]
      BY <2>1, BeginStale
    <2> QED
      BY <1>0, <1>00, <2>1, <2>2
  <1>3. CASE ApplyOne
    <2>1. pos > 0 /\ UNCHANGED <<running, await, stale>>
      BY <1>0, <1>3 DEF ApplyOne
    <2> QED
      BY <2>1
  <1>4. CASE NextRound
    <2>1. pos > 0 /\ UNCHANGED <<running, await, stale>>
      BY <1>0, <1>4, MemoryIsMain DEF NextRound
    <2> QED
      BY <2>1
  <1>5. CASE FlushDone
    BY <1>00, <1>5 DEF FlushDone
  <1>6. ASSUME NEW t \in Tasks, AwaitDone(t)
        PROVE  AwaitInv'
    <2>1. /\ await' = [await EXCEPT ![t] = IF stale[t] THEN "later" ELSE "none"]
          /\ stale' = [stale EXCEPT ![t] = FALSE]
          /\ running' = "none" /\ UNCHANGED <<pos, unsettled>>
      BY <1>6 DEF AwaitDone
    <2> QED
      BY <1>0, <1>00, <2>1
  <1>7. ASSUME NEW t \in Tasks, AwaitRw(t)
        PROVE  AwaitInv'
    <2>1. /\ await[t] = "none" /\ await' = [await EXCEPT ![t] = "later"]
          /\ stale' = [stale EXCEPT ![t] = FALSE]
          /\ UNCHANGED <<pos, running, unsettled>>
      BY <1>7 DEF AwaitRw
    <2> QED
      BY <1>0, <1>00, <2>1
  <1>8. CASE NextSimTime \/ EndPass \/ NextSlot \/ WriteInReadOnly
    <2>1. UNCHANGED <<pos, running, await, stale, unsettled>>
      BY <1>8 DEF NextSimTime, EndPass, NextSlot, WriteInReadOnly
    <2> QED
      BY <2>1
  <1>9. CASE Evaluate \/ Settled
    <2>1. /\ unsettled' = {} /\ phase # "rw"
          /\ UNCHANGED <<pos, running, await, stale>>
      BY <1>9 DEF Evaluate, Settled
    <2> QED
      BY <1>0, <2>1
  <1>10. CASE StartPass
    <2>1. /\ phase = "eval" /\ unsettled = {}
          /\ await' = [t \in Tasks |-> IF await[t] = "later" THEN "now"
                                        ELSE await[t]]
          /\ UNCHANGED <<pos, running, unsettled>>
      BY <1>10 DEF StartPass
    <2> QED
      BY <1>0, <2>1
  <1>11. ASSUME NEW h \in Handles,
                Write(h) \/ SetFreeze(h) \/ ReleaseValue(h) \/ ReleaseImmValue(h)
         PROVE  AwaitInv'
    <2>1. UNCHANGED <<pos, running, await, stale>>
      BY <1>11, WriteFrame
    <2>2. "flush" \in unsettled' => "flush" \in unsettled
      BY <1>11 DEF Write, SetFreeze, ReleaseValue, ReleaseImmValue, PostWrite,
                   ImmWrite
    <2> QED
      BY <2>1, <2>2
  <1>12. CASE UNCHANGED vars
    BY <1>12 DEF vars
  <1> QED
    BY <1>1, <1>2, <1>3, <1>4, <1>5, <1>6, <1>7, <1>8, <1>9, <1>10, <1>11,
       <1>12 DEF Next, Machine, Lua

\* The only step that ends the callback of an await_rw and leaves its task
\* running is the one that resumes the task.
LEMMA AwaitResumes ==
    ASSUME IInv, LateInv, AwaitInv, [Next]_vars, NEW t \in Tasks, running = t,
           awake', ~ awake, running' = "none"
    PROVE  Unapplied = <<>> /\ "flush" \notin unsettled
  <1>0. \A u \in Tasks : u # "none" /\ u # "flush"
    BY PutAssumption
  <1>1. AwaitDone(t)
    <2>1. running' # running
      BY <1>0
    <2>2. ~ \E h \in Handles : Write(h) \/ SetFreeze(h) \/ ReleaseValue(h)
                                   \/ ReleaseImmValue(h)
      BY <2>1, WriteFrame
    <2>3. ~ UNCHANGED vars
      BY <2>1 DEF vars
    <2>4. ~ FireFlush /\ ~ \E u \in Tasks : FireAwait(u)
      BY <1>0 DEF FireFlush, FireAwait, Fire
    <2>5. ~ (ApplyOne \/ NextRound \/ FlushDone \/ NextSimTime \/ Evaluate
             \/ StartPass \/ EndPass \/ Settled \/ NextSlot \/ WriteInReadOnly)
      BY <1>0, <2>1 DEF ApplyOne, NextRound, FlushDone, NextSimTime, Evaluate,
                        StartPass, EndPass, Settled, NextSlot, WriteInReadOnly
    <2>6. ~ \E u \in Tasks : AwaitRw(u)
      BY <2>1 DEF AwaitRw
    <2>7. \A u \in Tasks : AwaitDone(u) => u = t
      BY DEF AwaitDone
    <2> QED
      BY <2>2, <2>3, <2>4, <2>5, <2>6, <2>7 DEF Next, Machine, Lua
  <1>2. pos = 0 /\ ~ stale[t]
    BY <1>1 DEF AwaitDone
  <1>3. queue.main = <<>>
    BY <1>0, <1>2 DEF LateInv, CallbackIdle
  <1>4. Unapplied = <<>>
    BY <1>2, <1>3 DEF Unapplied
  <1>5. await[t] = "now"
    BY DEF AwaitInv, RunningNow
  <1>6. "flush" \notin unsettled
    BY <1>2, <1>5 DEF AwaitInv, FlushMakesStale
  <1> QED
    BY <1>4, <1>6

\* A task that await_rw resumes finds all posted values written, and the design
\* evaluated since.
THEOREM PutAwaitRwSeesValues ==
    ASSUME ~ ReentrantRewrites PROVE Spec => AwaitRwSeesValues
  <1> DEFINE Sees == \A t \in Tasks :
                 running = t /\ awake' /\ ~ awake /\ running' = "none"
                   => Unapplied = <<>> /\ "flush" \notin unsettled
  <1>1. Init => LateInv /\ AwaitInv
    BY LateInit, AwaitInit
  <1>2. IInv /\ LateInv /\ AwaitInv /\ [Next]_vars => LateInv' /\ AwaitInv'
    BY LateStep, AwaitStep
  <1>3. IInv /\ LateInv /\ AwaitInv /\ [Next]_vars => [Sees]_vars
    BY AwaitResumes
  <1>4. AwaitRwSeesValues <=> [][Sees]_vars
    BY PTL DEF AwaitRwSeesValues
  <1> QED
    BY <1>1, <1>2, <1>3, <1>4, Invariance, PTL DEF Spec

----------------------------------------------------------------------------
(* The refinement of PostedWrites.  Its fairness is checked by TLC. *)

\* The posted write of a handle
LEMMA PostedLemma ==
    /\ \A h \in Handles :
         /\ Posted[h] = IF put[h].flag = "None" THEN Abs!NoWrite
                        ELSE [flag |-> put[h].flag, value |-> put[h].value]
         /\ Posted[h].flag = put[h].flag
         /\ Posted[h] = Abs!NoWrite <=> put[h].flag = "None"
    /\ DOMAIN Posted = Handles
  BY DEF Posted, Abs!NoWrite

\* A step that changes the write of one handle only
LEMMA PostedChanges ==
    ASSUME NEW h \in Handles, NEW p, NEW w,
           put \in [Handles -> [flag : Flags \cup {"None"}, format : Formats,
                                 value : Values]],
           put' = [put EXCEPT ![h] = p],
           w = IF p.flag = "None" THEN Abs!NoWrite
               ELSE [flag |-> p.flag, value |-> p.value]
    PROVE  Posted' = [Posted EXCEPT ![h] = w]
  BY DEF Posted, Abs!NoWrite

\* The initial states are initial states of the abstract specification.
LEMMA AbsInit ==
    ASSUME Init PROVE Abs!Init
  <1>1. \A h \in Handles : put[h].flag = "None"
    BY NoPutType DEF Init
  <1>2. Posted = [h \in Handles |-> Abs!NoWrite]
    BY <1>1 DEF Posted, Abs!NoWrite
  <1>3. hdl \in [Handles -> Values] /\ writes = 0 /\ phase = "timed"
    BY DEF Init
  <1> QED
    BY <1>2, <1>3 DEF Abs!Init

\* A deferred setter posts its write, or is kept out by a force.
LEMMA PostIsPost ==
    ASSUME ~ ReentrantRewrites, IInv, NEW h \in Handles, NEW flag \in Flags,
           NEW format, NEW v \in Values, PostWrite(h, flag, format, v)
    PROVE  Abs!Post(h)
  <1> DEFINE w == [flag |-> flag, value |-> v]
  <1>1. put \in [Handles -> [flag : Flags \cup {"None"}, format : Formats,
                              value : Values]]
    BY DEF IInv, TypeOK
  <1>2. w \in Abs!Writes /\ flag # "None"
    BY DEF Abs!Writes, Flags
  <1>3. writes' = writes + 1 /\ hdl' = hdl
    BY DEF PostWrite
  <1>4. put[h].flag # "None" => Queued(h)
    BY LineIsQueued DEF FlagIsQueued
  <1>5. phase' = phase
    BY <1>4 DEF PostWrite
  <1>6. Posted' = IF Posted[h].flag = "Force" /\ w.flag = "Set" THEN Posted
                  ELSE [Posted EXCEPT ![h] = w]
    <2>1. Overridden(h, flag) <=> Posted[h].flag = "Force" /\ w.flag = "Set"
      BY PostedLemma DEF Overridden
    <2>2. CASE Overridden(h, flag)
      BY <2>1, <2>2 DEF PostWrite, Posted
    <2>3. CASE ~ Overridden(h, flag)
      <3> DEFINE p == [flag |-> flag, format |-> format, value |-> v]
      <3>1. put' = [put EXCEPT ![h] = p]
        BY <1>4, <2>3 DEF PostWrite
      <3>2. w = IF p.flag = "None" THEN Abs!NoWrite
                ELSE [flag |-> p.flag, value |-> p.value]
        BY <1>2
      <3>3. Posted' = [Posted EXCEPT ![h] = w]
        BY <1>1, <3>1, <3>2, PostedChanges
      <3> QED
        BY <2>1, <2>3, <3>3
    <2> QED
      BY <2>2, <2>3
  <1> HIDE DEF w
  <1> QED
    BY <1>2, <1>3, <1>5, <1>6 DEF Abs!Post

\* An immediate setter drives the signal; it can change the value of a posted
\* write, which has the same buffer.
LEMMA ImmIsImmediate ==
    ASSUME IInv, NEW h \in Handles, NEW flag \in {"Set", "Force"},
           NEW buffered, NEW v \in Values, ImmWrite(h, flag, buffered, v)
    PROVE  Abs!Immediate(h)
  <1>1. put \in [Handles -> [flag : Flags \cup {"None"}, format : Formats,
                              value : Values]]
    BY DEF IInv, TypeOK
  <1>2. /\ writes' = writes + 1 /\ phase' = phase
        /\ hdl' = [hdl EXCEPT ![h] = Abs!Drive(@, flag, v)]
    BY DEF ImmWrite
  <1>3. \/ Posted' = Posted
        \/ Posted[h] # Abs!NoWrite /\ Posted' = [Posted EXCEPT ![h].value = v]
    <2>1. CASE put' = put
      BY <2>1 DEF Posted
    <2>2. CASE put' # put
      <3> DEFINE p == [put[h] EXCEPT !.value = v]
                 w == [flag |-> put[h].flag, value |-> v]
      <3>1. put[h].flag # "None" /\ put' = [put EXCEPT ![h] = p]
        BY <1>1, <2>2 DEF ImmWrite
      <3>2. p.flag = put[h].flag /\ p.value = v
        BY <1>1
      <3>3. Posted' = [Posted EXCEPT ![h] = w]
        BY <1>1, <3>1, <3>2, PostedChanges
      <3>4. Posted[h] = [flag |-> put[h].flag, value |-> put[h].value]
        BY <3>1, PostedLemma
      <3>5. [Posted[h] EXCEPT !.value = v] = w
        BY <3>4
      <3>6. Posted[h] # Abs!NoWrite
        BY <3>1, PostedLemma
      <3> QED
        BY <3>3, <3>5, <3>6
    <2> QED
      BY <2>1, <2>2
  <1> QED
    BY <1>2, <1>3 DEF Abs!Immediate

\* An immediate release withdraws the posted write.
LEMMA ReleaseIsWithdraw ==
    ASSUME IInv, NEW h \in Handles, ReleaseImmValue(h)
    PROVE  Abs!Withdraw(h)
  <1>1. put \in [Handles -> [flag : Flags \cup {"None"}, format : Formats,
                              value : Values]]
    BY DEF IInv, TypeOK
  <1>2. writes' = writes + 1 /\ hdl' = hdl /\ phase' = phase
    BY DEF ReleaseImmValue
  <1>3. Posted' = [Posted EXCEPT ![h] = Abs!NoWrite]
    <2>1. CASE Queued(h)
      <3>1. put' = [put EXCEPT ![h] = NoPut]
        BY <2>1 DEF ReleaseImmValue
      <3> QED
        BY <1>1, <3>1, NoPutType, PostedChanges
    <2>2. CASE ~ Queued(h)
      <3>1. put' = put
        BY <2>2 DEF ReleaseImmValue
      <3>2. put[h].flag = "None"
        BY <2>2, LineIsQueued DEF FlagIsQueued
      <3>3. Posted[h] = Abs!NoWrite /\ Posted' = Posted
        BY <3>1, <3>2 DEF Posted, Abs!NoWrite
      <3>4. Posted = [x \in Handles |-> Posted[x]]
        BY DEF Posted
      <3> QED
        BY <3>3, <3>4
    <2> QED
      BY <2>1, <2>2
  <1> QED
    BY <1>2, <1>3 DEF Abs!Withdraw

\* One round of the flush commits one posted write.
LEMMA ApplyIsCommit ==
    ASSUME IInv, ApplyOne
    PROVE  \E h \in Handles : Abs!Commit(h)
  <1>1. put \in [Handles -> [flag : Flags \cup {"None"}, format : Formats,
                              value : Values]]
    BY DEF IInv, TypeOK
  <1> DEFINE h == queue.main[pos]
  <1>2. /\ pos \in 1 .. Len(queue.main) /\ phase = "rw" /\ phase' = phase
        /\ queue.main \in Seq(Handles) /\ Memory = queue.main
        /\ writes' = writes
    BY MemoryIsMain DEF ApplyOne
  <1>3. h \in Handles
    BY <1>2
  <1>4. put[h].flag # "None"
    <2>1. First = pos
      BY <1>2 DEF First
    <2>2. Ahead(h)
      BY <1>2, <2>1 DEF Ahead
    <2> QED
      BY <1>3, <2>2 DEF IInv, LineInv
  <1>5. Memory[pos] = h
    BY <1>2
  <1> HIDE DEF h
  <1>6. /\ hdl' = [hdl EXCEPT ![h] = Abs!Drive(@, put[h].flag, put[h].value)]
        /\ put' = [put EXCEPT ![h] = NoPut]
    BY <1>4, <1>5 DEF ApplyOne
  <1>7. Posted' = [Posted EXCEPT ![h] = Abs!NoWrite]
    BY <1>1, <1>3, <1>6, NoPutType, PostedChanges
  <1>8. /\ Posted[h] # Abs!NoWrite
        /\ Posted[h].flag = put[h].flag /\ Posted[h].value = put[h].value
    BY <1>3, <1>4, PostedLemma
  <1>9. Abs!Commit(h)
    BY <1>2, <1>6, <1>7, <1>8 DEF Abs!Commit
  <1> QED
    BY <1>3, <1>9

\* Every step of PutValue is a step of PostedWrites or changes nothing there.
LEMMA AbsStep ==
    ASSUME ~ ReentrantRewrites, IInv, [Next]_vars
    PROVE  [Abs!Next]_(Abs!vars)
  <1>1. ASSUME UNCHANGED <<hdl, put, writes>>,
               phase' = phase \/ (phase # "halted" /\ phase' # "halted")
        PROVE  UNCHANGED Abs!vars
    <2>1. Posted' = Posted
      BY <1>1 DEF Posted
    <2> QED
      BY <1>1, <2>1 DEF Abs!vars
  <1>2. CASE \/ FireFlush \/ \E t \in Tasks : FireAwait(t)
             \/ NextRound \/ FlushDone \/ \E t \in Tasks : AwaitDone(t)
             \/ NextSimTime \/ Evaluate \/ StartPass \/ EndPass \/ Settled
             \/ \E t \in Tasks : AwaitRw(t)
    <2>1. UNCHANGED <<hdl, put, writes>>
      BY <1>2 DEF FireFlush, FireAwait, Fire, NextRound, FlushDone, AwaitDone,
                  NextSimTime, Evaluate, StartPass, EndPass, Settled, AwaitRw
    <2>2. phase' = phase \/ (phase # "halted" /\ phase' # "halted")
      BY <1>2 DEF FireFlush, FireAwait, Fire, NextRound, FlushDone, AwaitDone,
                  NextSimTime, Evaluate, StartPass, EndPass, Settled, AwaitRw
    <2> QED
      BY <1>1, <2>1, <2>2
  <1>3. CASE ApplyOne
    BY <1>3, ApplyIsCommit DEF Abs!Next
  <1>4. CASE NextSlot
    <2>1. /\ writes' = 0 /\ UNCHANGED <<hdl, put>>
          /\ phase # "halted" /\ phase' # "halted"
      BY <1>4 DEF NextSlot
    <2>2. Posted' = Posted
      BY <2>1 DEF Posted
    <2>3. Abs!NewSlot
      BY <2>1, <2>2 DEF Abs!NewSlot
    <2> QED
      BY <2>3 DEF Abs!Next
  <1>5. CASE WriteInReadOnly
    <2>1. phase' = "halted" /\ UNCHANGED <<hdl, put, writes>>
      BY <1>5 DEF WriteInReadOnly
    <2>2. Posted' = Posted
      BY <2>1 DEF Posted
    <2>3. Abs!Halt
      BY <2>1, <2>2 DEF Abs!Halt
    <2> QED
      BY <2>3 DEF Abs!Next
  <1>6. ASSUME NEW h \in Handles,
               Write(h) \/ SetFreeze(h) \/ ReleaseValue(h) \/ ReleaseImmValue(h)
        PROVE  Abs!Next
    <2>1. hdl[h] \in Values
      BY DEF IInv, TypeOK
    <2>2. /\ \A s \in Setters : s.flag \in {"Set", "Force"}
          /\ {"Set", "Force", "Release"} = Flags
      BY DEF Setters, SetValue, SetValue64, SetValueMulti, SetValueMultiBeat,
             SetValueBaseStr, SetValueStr, SetShuffled, Setter, Plain, Flags
    <2>3. CASE Write(h)
      <3>1. PICK s \in Setters, v \in Values :
               PostWrite(h, s.flag, s.format, v)
               \/ ImmWrite(h, s.flag, s.buffered, v)
        BY <2>3 DEF Write
      <3>2. s.flag \in Flags /\ s.flag \in {"Set", "Force"}
        BY <2>2
      <3>3. Abs!Post(h) \/ Abs!Immediate(h)
        BY <3>1, <3>2, PostIsPost, ImmIsImmediate
      <3> QED
        BY <3>3 DEF Abs!Next
    <2>4. CASE SetFreeze(h)
      <3>1. Abs!Post(h) \/ Abs!Immediate(h)
        BY <2>1, <2>2, <2>4, PostIsPost, ImmIsImmediate DEF SetFreeze
      <3> QED
        BY <3>1 DEF Abs!Next
    <2>5. CASE ReleaseValue(h)
      <3>1. Abs!Post(h)
        BY <2>1, <2>2, <2>5, PostIsPost DEF ReleaseValue
      <3> QED
        BY <3>1 DEF Abs!Next
    <2>6. CASE ReleaseImmValue(h)
      BY <2>6, ReleaseIsWithdraw DEF Abs!Next
    <2> QED
      BY <1>6, <2>3, <2>4, <2>5, <2>6
  <1>7. CASE UNCHANGED vars
    BY <1>1, <1>7 DEF vars
  <1> QED
    BY <1>2, <1>3, <1>4, <1>5, <1>6, <1>7 DEF Next, Machine, Lua

\* The queues, flags and callbacks of libverilua implement PostedWrites, but
\* for its fairness: a signal has at most one posted write, the last that was
\* accepted, and it is committed once unless it is withdrawn first.
THEOREM PutImplementsPostedWrites ==
    ASSUME ~ ReentrantRewrites
    PROVE  Spec => Abs!Init /\ [][Abs!Next]_(Abs!vars)
  <1>1. Init => Abs!Init
    BY AbsInit
  <1>2. IInv /\ [Next]_vars => [Abs!Next]_(Abs!vars)
    BY AbsStep
  <1> QED
    BY <1>1, <1>2, Invariance, PTL DEF Spec
=============================================================================
