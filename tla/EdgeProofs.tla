----------------------------- MODULE EdgeProofs -----------------------------
(* Proofs about EdgeCallbacks.tla: types, the callbacks and the map serve every
   wait once, the counts of merge_cb are exact, and the callbacks implement the
   safety part of EdgeWaits.tla.  The last three are for a merge build in which
   the signal changes at most once in a time slot: with two changes they fail. *)
EXTENDS EdgeCallbacks, ListProofs

CallbackRecords == [id : Nat, kind : Kinds, tasks : Seq(Tasks), kept : BOOLEAN]

\* A task occurs once
Distinct(s) == \A i, j \in DOMAIN s : s[i] = s[j] => i = j

\* A direct build has nothing in the maps and one task with a callback.
DirectShape ==
    build = "direct" =>
      /\ \A k \in Kinds : pending[k] = <<>>
      /\ \A c \in chunks : Len(c.tasks) = 1

TypeInv == TypeOK /\ IsFiniteSet(chunks) /\ DirectShape /\ build \in Builds

\* ids name callbacks, and a task is with one callback, of the edge it awaits.
CallbacksInv ==
    /\ \A c, d \in chunks : c.id = d.id => c = d
    /\ \A c, d \in chunks : Members(c) \cap Members(d) # {} => c = d
    /\ \A c \in chunks : Distinct(c.tasks)
    /\ \A c \in chunks : \A t \in Members(c) : want[t] = c.kind

\* The maps hold waits that began in this slot, each once.
MapsInv ==
    /\ \A k \in Kinds : Distinct(pending[k])
    /\ \A k \in Kinds : \A t \in Listed(pending[k]) : want[t] = k
    /\ phase # "register" =>
         \A k \in Kinds : Listed(pending[k]) \subseteq fresh

\* A wait is in a map and with a callback only if the callback is kept, all its
\* tasks are in the map, and the signal has changed since the slot began.
OverlapInv ==
    \A c \in chunks, k \in Kinds :
      Members(c) \cap Listed(pending[k]) # {} =>
        /\ c.kept /\ Members(c) \subseteq Listed(pending[k])
        /\ build = "merge" /\ changes > 0 /\ c.id \notin firing

\* Every wait is somewhere.
CoverInv ==
    \A t \in Tasks : want[t] # "idle" =>
      \/ t \in Listed(pending[want[t]])
      \/ \E c \in chunks : t \in Members(c)

\* A value change is being served while some callback has still to be called.
PhaseInv ==
    /\ phase # "halted"
    /\ phase = "change" <=> firing # {}
    /\ firing \subseteq {c.id : c \in chunks}
    /\ phase = "register" => changes = 0
    /\ phase = "change" => changes > 0

EdgeInv ==
    /\ TypeInv /\ CallbacksInv /\ MapsInv /\ OverlapInv /\ CoverInv /\ PhaseInv
    /\ CountExact

----------------------------------------------------------------------------
(* Lists                                                                   *)

\* What a list holds, by its indices.
LEMMA ListedInterval ==
    ASSUME NEW S, NEW s \in Seq(S)
    PROVE  /\ DOMAIN s = 1 .. Len(s) /\ Len(s) \in Nat
           /\ Listed(s) \subseteq S
           /\ Listed(s) = {s[i] : i \in 1 .. Len(s)}
  BY DEF Listed

\* Restricting a list keeps what is in the set, once if it was there once.
LEMMA RestrictedFacts ==
    ASSUME NEW T, NEW s \in Seq(T), NEW S
    PROVE  /\ Restricted(s, S) \in Seq(T)
           /\ Listed(Restricted(s, S)) = Listed(s) \cap S
           /\ Distinct(s) => Distinct(Restricted(s, S))
  <1> DEFINE I == {j \in DOMAIN s : s[j] \in S}
             Rank(j) == Cardinality({l \in I : l <= j})
             N == Cardinality(I)
             At(i) == CHOOSE j \in I : Rank(j) = i
             r == [i \in 1 .. N |-> s[At(i)]]
  <1>1. DOMAIN s = 1 .. Len(s) /\ Len(s) \in Nat
    OBVIOUS
  <1>2. I \in SUBSET (1 .. Len(s))
    BY <1>1
  <1>3. /\ N \in Nat
        /\ \A j \in I : Rank(j) \in 1 .. N
        /\ \A j, m \in I : Rank(j) = Rank(m) => j = m
        /\ \A i \in 1 .. N : \E j \in I : Rank(j) = i
    <2> HIDE DEF I
    <2> QED
      BY <1>1, <1>2, RankFacts
  <1>4. Restricted(s, S) = r
    BY DEF Restricted, AtIndices
  <1>5. \A i \in 1 .. N : At(i) \in I /\ Rank(At(i)) = i
    <2> HIDE DEF I, Rank
    <2> QED
      BY <1>3
  <1>6. \A j \in I : At(Rank(j)) = j
    <2> TAKE j \in I
    <2>1. At(Rank(j)) \in I /\ Rank(At(Rank(j))) = Rank(j)
      <3> HIDE DEF I, Rank, At
      <3> QED
        BY <1>3, <1>5
    <2> HIDE DEF I, Rank, At
    <2> QED
      BY <2>1, <1>3
  <1> HIDE DEF Rank, At
  <1>7. \A i \in 1 .. N : s[At(i)] \in T /\ s[At(i)] \in S /\ At(i) \in DOMAIN s
    BY <1>5, <1>1
  <1>8. r \in [1 .. N -> T] /\ DOMAIN r = 1 .. N
    BY <1>7
  <1>9. r \in Seq(T)
    BY <1>8, <1>3
  <1>10. \A i \in 1 .. N : r[i] = s[At(i)]
    OBVIOUS
  <1> HIDE DEF r, N
  <1>11. Listed(r) \subseteq Listed(s) \cap S
    BY <1>7, <1>8, <1>10 DEF Listed
  <1>12. Listed(s) \cap S \subseteq Listed(r)
    <2> SUFFICES ASSUME NEW j \in DOMAIN s, s[j] \in S
                 PROVE  s[j] \in Listed(r)
      BY DEF Listed
    <2>1. j \in I
      OBVIOUS
    <2>2. Rank(j) \in 1 .. N /\ r[Rank(j)] = s[j]
      BY <2>1, <1>3, <1>6, <1>10
    <2> QED
      BY <2>2, <1>8 DEF Listed
  <1>13. Distinct(s) => Distinct(r)
    <2> SUFFICES ASSUME Distinct(s), NEW i \in 1 .. N, NEW m \in 1 .. N,
                        r[i] = r[m]
                 PROVE  i = m
      BY <1>8 DEF Distinct
    <2>1. s[At(i)] = s[At(m)]
      BY <1>10
    <2>2. At(i) = At(m)
      BY <2>1, <1>7 DEF Distinct
    <2> QED
      BY <2>2, <1>5
  <1> QED
    BY <1>4, <1>9, <1>11, <1>12, <1>13

\* Appending adds one element.
LEMMA AppendListed ==
    ASSUME NEW T, NEW s \in Seq(T), NEW e \in T
    PROVE  /\ Append(s, e) \in Seq(T)
           /\ Listed(Append(s, e)) = Listed(s) \cup {e}
           /\ Distinct(s) /\ e \notin Listed(s) => Distinct(Append(s, e))
  <1> DEFINE r == Append(s, e)
  <1>1. /\ r \in Seq(T) /\ Len(r) = Len(s) + 1 /\ Len(s) \in Nat
        /\ DOMAIN r = 1 .. Len(s) + 1 /\ DOMAIN s = 1 .. Len(s)
        /\ \A i \in 1 .. Len(s) : r[i] = s[i]
        /\ r[Len(s) + 1] = e
    BY AppendProperties
  <1> HIDE DEF r
  <1>2. Listed(r) = Listed(s) \cup {e}
    <2>1. Listed(r) \subseteq Listed(s) \cup {e}
      BY <1>1 DEF Listed
    <2>2. Listed(s) \subseteq Listed(r)
      BY <1>1 DEF Listed
    <2>3. e \in Listed(r)
      BY <1>1 DEF Listed
    <2> QED
      BY <2>1, <2>2, <2>3
  <1>3. Distinct(s) /\ e \notin Listed(s) => Distinct(r)
    BY <1>1 DEF Distinct, Listed
  <1> QED
    BY <1>1, <1>2, <1>3 DEF r

\* A concatenation holds what its parts hold.
LEMMA ConcatListed ==
    ASSUME NEW T, NEW s \in Seq(T), NEW u \in Seq(T)
    PROVE  /\ s \o u \in Seq(T)
           /\ Listed(s \o u) = Listed(s) \cup Listed(u)
           /\ Distinct(s) /\ Distinct(u) /\ Listed(s) \cap Listed(u) = {}
                => Distinct(s \o u)
  <1> DEFINE r == s \o u
  <1>1. /\ r \in Seq(T) /\ Len(r) = Len(s) + Len(u)
        /\ Len(s) \in Nat /\ Len(u) \in Nat
        /\ DOMAIN r = 1 .. Len(s) + Len(u)
        /\ DOMAIN s = 1 .. Len(s) /\ DOMAIN u = 1 .. Len(u)
        /\ \A i \in 1 .. Len(s) : r[i] = s[i]
        /\ \A i \in 1 .. Len(u) : r[Len(s) + i] = u[i]
    BY ConcatProperties
  <1> HIDE DEF r
  <1>2. \A i \in DOMAIN r : \/ i \in DOMAIN s /\ r[i] = s[i]
                            \/ i - Len(s) \in DOMAIN u /\ r[i] = u[i - Len(s)]
    <2> TAKE i \in DOMAIN r
    <2>1. CASE i <= Len(s)
      BY <2>1, <1>1
    <2>2. CASE ~(i <= Len(s))
      <3>1. i - Len(s) \in 1 .. Len(u)
        BY <2>2, <1>1
      <3>2. r[Len(s) + (i - Len(s))] = u[i - Len(s)]
        BY <3>1, <1>1
      <3>3. Len(s) + (i - Len(s)) = i
        BY <1>1
      <3> QED
        BY <3>1, <3>2, <3>3, <1>1
    <2> QED
      BY <2>1, <2>2
  <1>3. Listed(r) = Listed(s) \cup Listed(u)
    <2>1. Listed(r) \subseteq Listed(s) \cup Listed(u)
      BY <1>2 DEF Listed
    <2>2. Listed(s) \subseteq Listed(r)
      BY <1>1 DEF Listed
    <2>3. ASSUME NEW i \in 1 .. Len(u)
          PROVE  u[i] \in Listed(r)
      <3>1. Len(s) + i \in DOMAIN r /\ r[Len(s) + i] = u[i]
        BY <1>1
      <3> QED
        BY <3>1 DEF Listed
    <2>4. Listed(u) \subseteq Listed(r)
      BY <2>3, <1>1 DEF Listed
    <2> QED
      BY <2>1, <2>2, <2>4
  <1>4. ASSUME Distinct(s), Distinct(u), Listed(s) \cap Listed(u) = {}
        PROVE  Distinct(r)
    <2> SUFFICES ASSUME NEW i \in DOMAIN r, NEW j \in DOMAIN r, r[i] = r[j]
                 PROVE  i = j
      BY DEF Distinct
    <2>1. CASE i \in DOMAIN s /\ r[i] = s[i] /\ j \in DOMAIN s /\ r[j] = s[j]
      BY <2>1, <1>4 DEF Distinct
    <2>2. CASE /\ i - Len(s) \in DOMAIN u /\ r[i] = u[i - Len(s)]
               /\ j - Len(s) \in DOMAIN u /\ r[j] = u[j - Len(s)]
      <3>1. i - Len(s) = j - Len(s)
        BY <2>2, <1>4 DEF Distinct
      <3> QED
        BY <3>1, <1>1
    <2>3. CASE /\ i \in DOMAIN s /\ r[i] = s[i]
               /\ j - Len(s) \in DOMAIN u /\ r[j] = u[j - Len(s)]
      BY <2>3, <1>4 DEF Listed
    <2>4. CASE /\ j \in DOMAIN s /\ r[j] = s[j]
               /\ i - Len(s) \in DOMAIN u /\ r[i] = u[i - Len(s)]
      BY <2>4, <1>4 DEF Listed
    <2> QED
      BY <1>2, <2>1, <2>2, <2>3, <2>4
  <1> QED
    BY <1>1, <1>3, <1>4 DEF r

\* A chunk and the rest of the list partition it.
LEMMA ChunkFacts ==
    ASSUME EdgeAssumption, NEW T, NEW s \in Seq(T), s # <<>>
    PROVE  LET rest == SubSeq(s, ChunkEnd(s) + 1, Len(s))
           IN  /\ NextChunk(s) \in Seq(T) /\ rest \in Seq(T)
               /\ Len(NextChunk(s)) \in 1 .. ChunkSize
               /\ Listed(s) = Listed(NextChunk(s)) \cup Listed(rest)
               /\ Distinct(s) => /\ Distinct(NextChunk(s)) /\ Distinct(rest)
                                 /\ Listed(NextChunk(s)) \cap Listed(rest) = {}
  <1> DEFINE n == Len(s)
             e == ChunkEnd(s)
             a == SubSeq(s, 1, e)
             b == SubSeq(s, e + 1, n)
  <1>1. /\ n \in Nat \ {0} /\ DOMAIN s = 1 .. n
        /\ \A i \in 1 .. n : s[i] \in T
    BY EmptySeq
  <1>2. e \in 1 .. ChunkSize /\ e \in 1 .. n /\ e \in Nat
    BY <1>1 DEF ChunkEnd, EdgeAssumption
  <1> HIDE DEF n, e
  <1>3. /\ a \in Seq(T) /\ Len(a) = e /\ DOMAIN a = 1 .. e
        /\ \A i \in 1 .. e : a[i] = s[i]
    <2>1. \A i \in 1 .. e : s[i] \in T
      BY <1>1, <1>2
    <2>2. /\ a \in Seq(T) /\ Len(a) = (IF 1 <= e THEN e - 1 + 1 ELSE 0)
          /\ \A i \in 1 .. e - 1 + 1 : a[i] = s[1 + i - 1]
      BY <2>1, <1>2, SubSeqProperties
    <2> HIDE DEF a
    <2>3. Len(a) = e
      BY <2>2, <1>2
    <2>4. \A i \in 1 .. e : a[i] = s[i]
      BY <2>2, <1>2
    <2>5. DOMAIN a = 1 .. Len(a)
      BY <2>2
    <2> QED
      BY <2>2, <2>3, <2>4, <2>5
  <1>4. /\ b \in Seq(T) /\ Len(b) = n - e /\ DOMAIN b = 1 .. n - e
        /\ \A i \in 1 .. n - e : b[i] = s[e + i]
    <2>1. \A i \in e + 1 .. n : s[i] \in T
      BY <1>1, <1>2
    <2>2. /\ b \in Seq(T)
          /\ Len(b) = (IF e + 1 <= n THEN n - (e + 1) + 1 ELSE 0)
          /\ \A i \in 1 .. n - (e + 1) + 1 : b[i] = s[(e + 1) + i - 1]
      BY <2>1, <1>2, <1>1, SubSeqProperties
    <2> HIDE DEF b
    <2>3. Len(b) = n - e
      BY <2>2, <1>2, <1>1
    <2>4. \A i \in 1 .. n - e : b[i] = s[e + i]
      <3> TAKE i \in 1 .. n - e
      <3>1. i \in 1 .. n - (e + 1) + 1 /\ (e + 1) + i - 1 = e + i
        BY <1>1, <1>2
      <3> QED
        BY <3>1, <2>2
    <2>5. DOMAIN b = 1 .. Len(b)
      BY <2>2
    <2> QED
      BY <2>2, <2>3, <2>4, <2>5
  <1> HIDE DEF a, b
  <1>5. Listed(s) = Listed(a) \cup Listed(b)
    <2>1. ASSUME NEW i \in 1 .. n
          PROVE  s[i] \in Listed(a) \cup Listed(b)
      <3>1. CASE i <= e
        BY <3>1, <1>1, <1>2, <1>3 DEF Listed
      <3>2. CASE ~(i <= e)
        <4>1. i - e \in 1 .. n - e /\ e + (i - e) = i
          BY <3>2, <1>1, <1>2
        <4>2. b[i - e] = s[i]
          BY <4>1, <1>4
        <4> QED
          BY <4>1, <4>2, <1>4 DEF Listed
      <3> QED
        BY <3>1, <3>2
    <2>2. Listed(a) \subseteq Listed(s)
      BY <1>1, <1>2, <1>3 DEF Listed
    <2>3. ASSUME NEW i \in 1 .. n - e
          PROVE  b[i] \in Listed(s)
      <3>1. e + i \in 1 .. n
        BY <1>1, <1>2
      <3> QED
        BY <3>1, <1>1, <1>4 DEF Listed
    <2>4. Listed(b) \subseteq Listed(s)
      BY <2>3, <1>4 DEF Listed
    <2>5. Listed(s) \subseteq Listed(a) \cup Listed(b)
      BY <2>1, <1>1 DEF Listed
    <2> QED
      BY <2>2, <2>4, <2>5
  <1>6. ASSUME Distinct(s)
        PROVE  Distinct(a) /\ Distinct(b) /\ Listed(a) \cap Listed(b) = {}
    <2>1. Distinct(a)
      BY <1>6, <1>1, <1>2, <1>3 DEF Distinct
    <2>2. ASSUME NEW i \in 1 .. n - e, NEW j \in 1 .. n - e, b[i] = b[j]
          PROVE  i = j
      <3>1. e + i \in DOMAIN s /\ e + j \in DOMAIN s /\ s[e + i] = s[e + j]
        BY <2>2, <1>1, <1>2, <1>4
      <3>2. e + i = e + j
        BY <3>1, <1>6 DEF Distinct
      <3> QED
        BY <3>2, <1>2
    <2>3. Distinct(b)
      BY <2>2, <1>4 DEF Distinct
    <2>4. ASSUME NEW i \in 1 .. e, NEW j \in 1 .. n - e, a[i] = b[j]
          PROVE  FALSE
      <3>1. i \in DOMAIN s /\ e + j \in DOMAIN s /\ s[i] = s[e + j]
        BY <2>4, <1>1, <1>2, <1>3, <1>4
      <3>2. i = e + j
        BY <3>1, <1>6 DEF Distinct
      <3> QED
        BY <3>2, <1>2
    <2>5. Listed(a) \cap Listed(b) = {}
      BY <2>4, <1>3, <1>4 DEF Listed
    <2> QED
      BY <2>1, <2>3, <2>5
  <1> QED
    BY <1>2, <1>3, <1>4, <1>5, <1>6 DEF NextChunk, a, b, e, n

\* A slab has a vacant entry.
LEMMA VacantIdFacts ==
    ASSUME IsFiniteSet(chunks)
    PROVE  VacantId \in Nat /\ \A c \in chunks : c.id # VacantId
  <1> DEFINE n == Cardinality(chunks)
             ids == {c.id : c \in chunks}
             f == [c \in chunks |-> c.id]
  <1>1. n \in Nat
    BY FS_CardinalityType
  <1>2. f \in Surjection(chunks, ids)
    BY DEF Surjection
  <1>3. IsFiniteSet(ids) /\ Cardinality(ids) <= n
    <2> HIDE DEF f, ids
    <2> QED
      BY <1>2, FS_Surjection
  <1>4. \E i \in 0 .. n : i \notin ids
    <2> SUFFICES ASSUME \A i \in 0 .. n : i \in ids
                 PROVE  FALSE
      OBVIOUS
    <2> HIDE DEF ids
    <2>1. Cardinality(0 .. n) = n + 1
      BY <1>1, FS_Interval
    <2>2. (0 .. n) \in SUBSET ids
      OBVIOUS
    <2>3. Cardinality(0 .. n) <= Cardinality(ids)
      BY <2>2, <1>3, FS_Subset
    <2>4. Cardinality(ids) \in Nat
      BY <1>3, FS_CardinalityType
    <2> HIDE DEF n
    <2> QED
      BY <2>1, <2>3, <2>4, <1>1, <1>3
  <1>5. \E i \in 0 .. n : \A c \in chunks : c.id # i
    BY <1>4
  <1>6. VacantId \in 0 .. n /\ \A c \in chunks : c.id # VacantId
    BY <1>5 DEF VacantId
  <1> QED
    BY <1>6, <1>1

----------------------------------------------------------------------------
(* Types                                                                   *)

\* A new callback
LEMMA CallbackType ==
    ASSUME IsFiniteSet(chunks), NEW k \in Kinds, NEW s \in Seq(Tasks)
    PROVE  LET d == EdgeCbData(k, s)
           IN  /\ d \in CallbackRecords
               /\ d.id = VacantId /\ d.kind = k /\ d.tasks = s /\ d.kept = FALSE
               /\ \A c \in chunks : c.id # d.id
  BY VacantIdFacts DEF EdgeCbData, CallbackRecords

\* A new callback for one task
LEMMA SingleType ==
    ASSUME IsFiniteSet(chunks), NEW k \in Kinds, NEW t \in Tasks
    PROVE  LET d == EdgeCbData(k, <<t>>)
           IN  d \in CallbackRecords /\ d.kind = k /\ d.tasks = <<t>>
  <1>1. <<t>> \in Seq(Tasks)
    OBVIOUS
  <1> QED
    BY <1>1, VacantIdFacts DEF EdgeCbData, CallbackRecords

\* The members of a callback are the tasks of its list.
LEMMA MembersType ==
    ASSUME NEW c \in CallbackRecords
    PROVE  /\ Members(c) \subseteq Tasks
           /\ Members(c) = Listed(c.tasks)
           /\ Len(c.tasks) # 0 => Members(c) # {}
           /\ Len(c.tasks) = 1 => /\ c.tasks[1] \in Tasks
                                  /\ Members(c) = {c.tasks[1]}
  <1>1. c.tasks \in Seq(Tasks)
    BY DEF CallbackRecords
  <1>2. DOMAIN c.tasks = 1 .. Len(c.tasks) /\ Len(c.tasks) \in Nat
    BY <1>1
  <1>3. Members(c) = Listed(c.tasks)
    BY DEF Members, Listed
  <1>4. \A i \in 1 .. Len(c.tasks) : c.tasks[i] \in Tasks
    BY <1>1, <1>2
  <1>5. Members(c) \subseteq Tasks
    BY <1>2, <1>4 DEF Members
  <1>6. Len(c.tasks) # 0 => Members(c) # {}
    <2> HAVE Len(c.tasks) # 0
    <2>1. 1 \in 1 .. Len(c.tasks)
      BY <1>2
    <2>2. c.tasks[1] \in Members(c)
      BY <2>1, <1>2 DEF Members
    <2> QED
      BY <2>2
  <1>7. Len(c.tasks) = 1 => c.tasks[1] \in Tasks /\ Members(c) = {c.tasks[1]}
    BY <1>2, <1>4 DEF Members
  <1> QED
    BY <1>3, <1>5, <1>6, <1>7

\* Every registered callback has a number, an edge and at least one task.
LEMMA TypeFacts ==
    ASSUME TypeOK
    PROVE  /\ chunks \subseteq CallbackRecords
           /\ \A c \in chunks : /\ c.id \in Nat /\ c.kind \in Kinds
                                /\ c.tasks \in Seq(Tasks)
                                /\ Members(c) \subseteq Tasks /\ Members(c) # {}
                                /\ Members(c) = Listed(c.tasks)
  <1>1. chunks \subseteq CallbackRecords
    BY DEF TypeOK, CallbackRecords
  <1>2. \A c \in chunks : Len(c.tasks) # 0
    BY DEF TypeOK
  <1>3. \A c \in chunks : c.id \in Nat /\ c.kind \in Kinds /\ c.tasks \in Seq(Tasks)
    BY <1>1 DEF CallbackRecords
  <1> QED
    BY <1>1, <1>2, <1>3, MembersType

\* Registering a callback keeps the types of the callbacks.
LEMMA InstallType ==
    ASSUME TypeInv, NEW k \in Kinds, NEW s \in Seq(Tasks),
           Len(s) \in 1 .. ChunkSize, Install(k, s)
    PROVE  /\ chunks' \subseteq CallbackRecords /\ IsFiniteSet(chunks')
           /\ \A c \in chunks' : Len(c.tasks) \in 1 .. ChunkSize
           /\ \A c \in chunks' : c \in chunks \/ c.tasks = s
  <1> DEFINE d == EdgeCbData(k, s)
  <1>1. IsFiniteSet(chunks) /\ chunks \subseteq CallbackRecords
    BY TypeFacts DEF TypeInv
  <1>2. d \in CallbackRecords /\ d.tasks = s
    BY <1>1, VacantIdFacts DEF EdgeCbData, CallbackRecords
  <1> HIDE DEF d
  <1>3. chunks' = chunks \cup {d}
    BY DEF Install, d
  <1>4. IsFiniteSet(chunks')
    BY <1>1, <1>3, FS_AddElement
  <1>5. \A c \in chunks : Len(c.tasks) \in 1 .. ChunkSize
    BY DEF TypeInv, TypeOK
  <1> QED
    BY <1>1, <1>2, <1>3, <1>4, <1>5

\* A request outside of a callback keeps the types.
LEMMA TypeAwait ==
    ASSUME EdgeAssumption, TypeInv, NEW t \in Tasks, NEW k \in Kinds, Await(t, k)
    PROVE  TypeInv'
  <1> USE DEF TypeInv
  <1>1. /\ want' \in [Tasks -> Kinds \cup {"idle"}] /\ fresh' \subseteq Tasks
        /\ count' \in [Kinds -> [Tasks -> Nat]]
    <2>1. want' \in [Tasks -> Kinds \cup {"idle"}] /\ fresh' \subseteq Tasks
      BY DEF Await, TypeOK
    <2>2. CASE build = "merge"
      <3>1. count' = [count EXCEPT ![k][t] = @ + 1]
        BY <2>2 DEF Await
      <3>2. count \in [Kinds -> [Tasks -> Nat]]
        BY DEF TypeOK
      <3> QED
        BY <2>1, <3>1, <3>2
    <2>3. CASE build # "merge"
      BY <2>1, <2>3 DEF Await, TypeOK
    <2> QED
      BY <2>2, <2>3
  <1>2. /\ pending' \in [Kinds -> Seq(Tasks)]
        /\ chunks' \subseteq CallbackRecords /\ IsFiniteSet(chunks')
        /\ \A c \in chunks' : Len(c.tasks) \in 1 .. ChunkSize
        /\ DirectShape'
    <2>1. CASE build = "direct"
      <3>1. <<t>> \in Seq(Tasks) /\ Len(<<t>>) = 1 /\ 1 \in 1 .. ChunkSize
        BY DEF EdgeAssumption
      <3>2. Install(k, <<t>>) /\ pending' = pending /\ build' = build
        BY <2>1 DEF Await
      <3>3. /\ chunks' \subseteq CallbackRecords /\ IsFiniteSet(chunks')
            /\ \A c \in chunks' : Len(c.tasks) \in 1 .. ChunkSize
            /\ \A c \in chunks' : c \in chunks \/ c.tasks = <<t>>
        BY <3>1, <3>2, InstallType
      <3>4. DirectShape'
        BY <3>1, <3>2, <3>3, <2>1 DEF DirectShape
      <3> QED
        BY <3>2, <3>3, <3>4 DEF TypeOK
    <2>2. CASE build # "direct"
      <3>1. /\ pending' = [pending EXCEPT ![k] = Append(@, t)]
            /\ chunks' = chunks /\ build' = build
        BY <2>2 DEF Await
      <3>2. pending \in [Kinds -> Seq(Tasks)]
        BY DEF TypeOK
      <3>3. pending' \in [Kinds -> Seq(Tasks)]
        BY <3>1, <3>2
      <3> QED
        BY <2>2, <3>1, <3>3, TypeFacts DEF TypeOK, DirectShape
    <2> QED
      BY <2>1, <2>2
  <1>3. /\ build' = build /\ phase' = phase /\ value' = value
        /\ firing' = firing /\ changes' = changes
    BY DEF Await
  <1> QED
    BY <1>1, <1>2, <1>3 DEF TypeOK, ChangeBound, CallbackRecords

\* A value change keeps the types.
LEMMA TypeChange ==
    ASSUME EdgeAssumption, TypeInv, Change
    PROVE  TypeInv'
  <1> USE DEF TypeInv
  <1>1. firing' \subseteq Nat
    <2>1. \A c \in chunks : c.id \in Nat
      BY TypeFacts
    <2>2. firing' = {c.id : c \in {d \in chunks : Matches(d.kind, value')}}
      BY DEF Change
    <2> QED
      BY <2>1, <2>2
  <1>2. changes' \in 0 .. ChangeBound /\ ChangeBound' = ChangeBound
    BY DEF Change, TypeOK, ChangeBound, EdgeAssumption
  <1>3. /\ UNCHANGED <<build, want, fresh, count, pending, chunks>>
        /\ phase' \in {"slot", "change"} /\ value' \in {0, 1, 2}
    BY DEF Change
  <1> QED
    BY <1>1, <1>2, <1>3 DEF TypeOK, DirectShape

\* The counts in the pending map stay natural numbers.
LEMMA RequestedType ==
    ASSUME TypeOK, NEW c, NEW again
    PROVE  Requested(c, again) \in [Kinds -> [Tasks -> Nat]]
  BY DEF TypeOK, Requested

\* An edge callback keeps the types, whatever its tasks ask for.
LEMMA TypeFire ==
    ASSUME EdgeAssumption, TypeInv, NEW c \in chunks, Fire(c)
    PROVE  TypeInv'
  <1> USE DEF TypeInv
  <1>0. PICK again \in [Members(c) -> Kinds \cup {"idle"}] :
          /\ TasksRun(c, again)
          /\ IF build = "merge" THEN Merge(c, Requested(c, again))
             ELSE Remove(c, again)
    BY DEF Fire
  <1>1. /\ c \in CallbackRecords /\ chunks \subseteq CallbackRecords
        /\ Members(c) \subseteq Tasks /\ c.tasks \in Seq(Tasks) /\ c.kind \in Kinds
    BY TypeFacts
  <1>2. /\ want' \in [Tasks -> Kinds \cup {"idle"}] /\ fresh' \subseteq Tasks
    <2>1. /\ want' = [t \in Tasks |-> IF t \in Members(c) THEN again[t] ELSE want[t]]
          /\ fresh' = (fresh \ Members(c)) \cup {t \in Members(c) : again[t] # "idle"}
      BY <1>0 DEF TasksRun
    <2> QED
      BY <2>1, <1>1 DEF TypeOK
  <1>3. pending' \in [Kinds -> Seq(Tasks)] /\ (build = "direct" => pending' = pending)
    <2>1. CASE build = "direct"
      BY <2>1, <1>0 DEF TasksRun, TypeOK
    <2>2. CASE build # "direct"
      <3> DEFINE new(k) == Restricted(c.tasks, {t \in Members(c) : again[t] = k})
      <3>1. pending' = [k \in Kinds |-> pending[k] \o new(k)]
        BY <2>2, <1>0 DEF TasksRun
      <3>2. \A k \in Kinds : new(k) \in Seq(Tasks)
        BY <1>1, RestrictedFacts
      <3>3. \A k \in Kinds : pending[k] \in Seq(Tasks)
        BY DEF TypeOK
      <3> HIDE DEF new
      <3>4. \A k \in Kinds : pending[k] \o new(k) \in Seq(Tasks)
        BY <3>2, <3>3, ConcatListed
      <3> QED
        BY <2>2, <3>1, <3>4
    <2> QED
      BY <2>1, <2>2
  <1>4. /\ build' = build /\ value' = value /\ changes' = changes
        /\ firing' \subseteq Nat
    BY DEF Fire, TypeOK
  <1>5. /\ phase' \in {"slot", "change", "halted"}
        /\ count' \in [Kinds -> [Tasks -> Nat]]
        /\ chunks' \subseteq CallbackRecords /\ IsFiniteSet(chunks')
        /\ \A d \in chunks' : Len(d.tasks) \in 1 .. ChunkSize
        /\ build = "direct" => \A d \in chunks' : Len(d.tasks) = 1
    <2>0. \A d \in chunks : Len(d.tasks) \in 1 .. ChunkSize
      BY DEF TypeOK
    <2>a. IsFiniteSet(chunks \ {c})
      BY FS_RemoveElement
    <2>1. CASE build = "merge"
      <3> DEFINE req == Requested(c, again)
                 left == [t \in Tasks |-> req[c.kind][t] -
                                            IF t \in Members(c) THEN 1 ELSE 0]
                 kept == [c EXCEPT !.kept = TRUE]
      <3>1. Merge(c, req)
        BY <2>1, <1>0
      <3>2. req \in [Kinds -> [Tasks -> Nat]]
        BY RequestedType
      <3> HIDE DEF req
      <3>3. CASE \E t \in Members(c) : req[c.kind][t] = 0
        <4>1. phase' = "halted" /\ count' = count /\ chunks' = chunks
          BY <3>1, <3>3 DEF Merge
        <4> QED
          BY <4>1, <2>1, <2>0, <1>1 DEF TypeOK
      <3>4. CASE ~\E t \in Members(c) : req[c.kind][t] = 0
        <4>1. /\ phase' = IF firing' = {} THEN "slot" ELSE "change"
              /\ count' = [req EXCEPT ![c.kind] = left]
              /\ chunks' = (chunks \ {c}) \cup
                   IF AllAskAgain(c, left) THEN {kept} ELSE {}
          BY <3>1, <3>4 DEF Merge
        <4>2. left \in [Tasks -> Nat]
          <5> SUFFICES ASSUME NEW t \in Tasks
                       PROVE  (req[c.kind][t] - IF t \in Members(c) THEN 1 ELSE 0) \in Nat
            OBVIOUS
          <5>1. req[c.kind][t] \in Nat
            BY <3>2, <1>1
          <5> QED
            BY <5>1, <3>4
        <4> HIDE DEF left
        <4>3. count' \in [Kinds -> [Tasks -> Nat]]
          BY <4>1, <4>2, <3>2
        <4>4. kept \in CallbackRecords /\ kept.tasks = c.tasks
          BY <1>1 DEF CallbackRecords
        <4> HIDE DEF kept
        <4>5. chunks' = chunks \ {c} \/ chunks' = (chunks \ {c}) \cup {kept}
          BY <4>1
        <4>6. IsFiniteSet((chunks \ {c}) \cup {kept})
          BY <2>a, FS_AddElement
        <4> QED
          BY <4>1, <4>3, <4>4, <4>5, <4>6, <2>0, <2>1, <2>a, <1>1
      <3> QED
        BY <3>3, <3>4
    <2>2. CASE build = "chunk" \/ build = "direct"
      <3>1. /\ phase' = IF firing' = {} THEN "slot" ELSE "change"
            /\ count' = count
            /\ chunks' = (chunks \ {c}) \cup
                 {EdgeCbData(again[t], <<t>>) :
                    t \in {u \in Members(c) : build = "direct" /\ again[u] # "idle"}}
        BY <2>2, <1>0 DEF Remove
      <3>2. CASE build = "chunk"
        <4>1. chunks' = chunks \ {c}
          BY <3>1, <3>2
        <4> QED
          BY <4>1, <3>1, <3>2, <2>0, <2>a, <1>1 DEF TypeOK
      <3>3. CASE build = "direct"
        <4>1. Len(c.tasks) = 1 /\ \A d \in chunks : Len(d.tasks) = 1
          BY <3>3 DEF DirectShape
        <4>2. PICK t \in Tasks : Members(c) = {t}
          BY <4>1, <1>1, MembersType
        <4> DEFINE d == EdgeCbData(again[t], <<t>>)
        <4>3. CASE again[t] = "idle"
          <5>1. chunks' = chunks \ {c}
            BY <4>2, <4>3, <3>1
          <5> QED
            BY <5>1, <4>1, <3>1, <2>0, <2>a, <1>1 DEF TypeOK
        <4>4. CASE again[t] # "idle"
          <5>1. again[t] \in Kinds
            BY <4>2, <4>4
          <5>2. d \in CallbackRecords /\ d.tasks = <<t>>
            BY <5>1, SingleType
          <5>3. chunks' = (chunks \ {c}) \cup {d}
            BY <4>2, <4>4, <3>1, <3>3
          <5> HIDE DEF d
          <5>4. IsFiniteSet(chunks')
            BY <5>3, <2>a, FS_AddElement
          <5>5. Len(d.tasks) = 1 /\ 1 \in 1 .. ChunkSize
            BY <5>2 DEF EdgeAssumption
          <5> QED
            BY <5>2, <5>3, <5>4, <5>5, <4>1, <3>1, <2>0, <1>1 DEF TypeOK
        <4> QED
          BY <4>3, <4>4
      <3> QED
        BY <2>2, <3>2, <3>3
    <2> QED
      BY <2>1, <2>2 DEF TypeOK
  <1>6. DirectShape'
    BY <1>3, <1>4, <1>5 DEF DirectShape
  <1> QED
    BY <1>2, <1>3, <1>4, <1>5, <1>6 DEF TypeOK, ChangeBound, CallbackRecords

\* The next sim time keeps the types.
LEMMA TypeNextSimTime ==
    ASSUME EdgeAssumption, TypeInv, NextSimTime
    PROVE  TypeInv'
  <1> USE DEF TypeInv
  <1>1. /\ pending' = [k \in Kinds |-> Unserved(k)]
        /\ phase' = "register" /\ fresh' = {} /\ changes' = 0
        /\ UNCHANGED <<build, value, want, count, chunks, firing>>
    BY DEF NextSimTime
  <1>2. \A k \in Kinds : /\ Unserved(k) \in Seq(Tasks)
                         /\ pending[k] = <<>> => Unserved(k) = <<>>
    <2> TAKE k \in Kinds
    <2>1. pending[k] \in Seq(Tasks)
      BY DEF TypeOK
    <2>2. /\ Unserved(k) \in Seq(Tasks)
          /\ Listed(Unserved(k)) \subseteq Listed(pending[k])
      BY <2>1, RestrictedFacts DEF Unserved
    <2>3. pending[k] = <<>> => Listed(pending[k]) = {}
      BY DEF Listed
    <2>4. Listed(Unserved(k)) = {} => Unserved(k) = <<>>
      <3> HAVE Listed(Unserved(k)) = {}
      <3>1. CASE Len(Unserved(k)) = 0
        BY <3>1, <2>2, EmptySeq
      <3>2. CASE Len(Unserved(k)) # 0
        <4>1. 1 \in DOMAIN Unserved(k)
          BY <3>2, <2>2
        <4>2. Unserved(k)[1] \in Listed(Unserved(k))
          BY <4>1 DEF Listed
        <4> QED
          BY <4>2
      <3> QED
        BY <3>1, <3>2
    <2> QED
      BY <2>2, <2>3, <2>4
  <1>3. pending' \in [Kinds -> Seq(Tasks)]
    BY <1>1, <1>2
  <1>4. DirectShape'
    BY <1>1, <1>2 DEF DirectShape
  <1>5. 0 \in 0 .. ChangeBound /\ ChangeBound' = ChangeBound
    BY <1>1 DEF ChangeBound, EdgeAssumption
  <1> QED
    BY <1>1, <1>3, <1>4, <1>5 DEF TypeOK

\* libverilua_next_sim_time_cb keeps the types as it forms a chunk.
LEMMA TypeRegisterChunk ==
    ASSUME EdgeAssumption, TypeInv, NEW k \in Kinds, RegisterChunk(k)
    PROVE  TypeInv'
  <1> USE DEF TypeInv
  <1> DEFINE s == pending[k]
             rest == SubSeq(s, ChunkEnd(s) + 1, Len(s))
  <1>1. s \in Seq(Tasks) /\ s # <<>>
    BY DEF TypeOK, RegisterChunk
  <1>2. /\ NextChunk(s) \in Seq(Tasks) /\ rest \in Seq(Tasks)
        /\ Len(NextChunk(s)) \in 1 .. ChunkSize
    BY <1>1, ChunkFacts
  <1>3. /\ Install(k, NextChunk(s))
        /\ pending' = [pending EXCEPT ![k] = rest]
        /\ UNCHANGED <<build, phase, value, want, fresh, count, firing, changes>>
    BY DEF RegisterChunk
  <1>4. build # "direct"
    BY <1>1 DEF DirectShape
  <1>5. pending' \in [Kinds -> Seq(Tasks)]
    <2> HIDE DEF rest
    <2> QED
      BY <1>2, <1>3 DEF TypeOK
  <1>6. /\ chunks' \subseteq CallbackRecords /\ IsFiniteSet(chunks')
        /\ \A c \in chunks' : Len(c.tasks) \in 1 .. ChunkSize
    BY <1>2, <1>3, InstallType
  <1> QED
    BY <1>3, <1>4, <1>5, <1>6
    DEF TypeOK, DirectShape, ChangeBound, CallbackRecords

\* Every step keeps the types.
LEMMA TypeStep ==
    ASSUME EdgeAssumption, TypeInv, [Next]_vars
    PROVE  TypeInv'
  <1>1. CASE \E t \in Tasks, k \in Kinds : Await(t, k)
    BY <1>1, TypeAwait
  <1>2. CASE Change
    BY <1>2, TypeChange
  <1>3. CASE \E c \in chunks : Fire(c)
    BY <1>3, TypeFire
  <1>4. CASE NextSimTime
    BY <1>4, TypeNextSimTime
  <1>5. CASE \E k \in Kinds : RegisterChunk(k)
    BY <1>5, TypeRegisterChunk
  <1>6. CASE Registered
    BY <1>6 DEF Registered, TypeInv, TypeOK, DirectShape, ChangeBound
  <1>7. CASE UNCHANGED vars
    BY <1>7 DEF vars, TypeInv, TypeOK, DirectShape, ChangeBound
  <1> QED
    BY <1>1, <1>2, <1>3, <1>4, <1>5, <1>6, <1>7 DEF Next, Machine

\* The types hold at the start.
LEMMA TypeInit ==
    ASSUME EdgeAssumption, Init
    PROVE  TypeInv
  <1>1. IsFiniteSet(chunks)
    BY FS_EmptySet DEF Init
  <1>2. 0 \in 0 .. ChangeBound
    BY DEF ChangeBound, EdgeAssumption
  <1>3. \A k \in Kinds : pending[k] = <<>>
    BY DEF Init
  <1>4. pending \in [Kinds -> Seq(Tasks)]
    BY DEF Init
  <1>5. count \in [Kinds -> [Tasks -> Nat]]
    BY DEF Init
  <1> QED
    BY <1>1, <1>2, <1>3, <1>4, <1>5
    DEF TypeInv, TypeOK, DirectShape, Init, EdgeAssumption

\* Every state is well typed, whatever the signal does; in particular a callback
\* has between one and ChunkSize tasks, so the match on chunk.len() of the
\* register functions never gets to unreachable!(), and a count is never taken
\* below zero.
THEOREM EdgeTypes == Spec => []TypeOK
  <1>1. Init => TypeInv
    BY EdgeAssumption, TypeInit
  <1>2. TypeInv /\ [Next]_vars => TypeInv'
    BY EdgeAssumption, TypeStep
  <1>3. TypeInv => TypeOK
    BY DEF TypeInv
  <1> QED
    BY <1>1, <1>2, <1>3, PTL DEF Spec

----------------------------------------------------------------------------
(* Where waits are registered                                              *)

\* In a merge build the signal changes at most once in a time slot.
OneMergeChange == "merge" \in Builds => MergeChanges <= 1

\* A task that does not wait waits for no edge.
LEMMA IdleNoKind == "idle" \notin Kinds
  BY DEF Kinds

\* What is known of a callback that is about to be called
LEMMA FiringFacts ==
    ASSUME EdgeInv, NEW c \in chunks, Fire(c)
    PROVE  /\ \A t \in Members(c) : want[t] = c.kind
           /\ \A k \in Kinds : Members(c) \cap Listed(pending[k]) = {}
           /\ \A d \in chunks : d # c =>
                d.id # c.id /\ Members(d) \cap Members(c) = {}
           /\ changes > 0
  <1>1. c.id \in firing /\ phase = "change"
    BY DEF Fire
  <1> QED
    BY <1>1 DEF EdgeInv, CallbacksInv, OverlapInv, PhaseInv

\* A merge build: every task of the callback has one request, so none is
\* missing, and the callback is kept when all tasks wait for its edge again.
LEMMA MergeOutcome ==
    ASSUME EdgeInv, NEW c \in chunks, Fire(c), build = "merge",
           NEW again \in [Members(c) -> Kinds \cup {"idle"}],
           want' = [t \in Tasks |-> IF t \in Members(c) THEN again[t] ELSE want[t]],
           Merge(c, Requested(c, again))
    PROVE  /\ phase' = IF firing' = {} THEN "slot" ELSE "change"
           /\ \A t \in Tasks, k \in Kinds :
                count'[k][t] = IF want'[t] = k THEN 1 ELSE 0
           /\ chunks' = (chunks \ {c}) \cup
                IF \A t \in Members(c) : again[t] = c.kind
                THEN {[c EXCEPT !.kept = TRUE]} ELSE {}
  <1> DEFINE req == Requested(c, again)
             left == [t \in Tasks |-> req[c.kind][t] -
                                        IF t \in Members(c) THEN 1 ELSE 0]
  <1>1. /\ Members(c) \subseteq Tasks /\ c.kind \in Kinds
        /\ \A t \in Members(c) : want[t] = c.kind
    BY TypeFacts, FiringFacts DEF EdgeInv, TypeInv
  <1>2. \A t \in Tasks, k \in Kinds : count[k][t] = IF want[t] = k THEN 1 ELSE 0
    BY DEF EdgeInv, PhaseInv, CountExact
  <1>3. /\ req \in [Kinds -> [Tasks -> Nat]]
        /\ \A t \in Tasks, k \in Kinds :
             req[k][t] = count[k][t] +
                         IF t \in Members(c) /\ again[t] = k THEN 1 ELSE 0
    <2>1. TypeOK
      BY DEF EdgeInv, TypeInv
    <2>2. req \in [Kinds -> [Tasks -> Nat]]
      BY <2>1, RequestedType
    <2> QED
      BY <2>2 DEF Requested
  <1> HIDE DEF req
  <1>4. \A t \in Members(c) : req[c.kind][t] = 1 + IF again[t] = c.kind THEN 1 ELSE 0
    BY <1>1, <1>2, <1>3
  <1>5. ~\E t \in Members(c) : req[c.kind][t] = 0
    BY <1>4
  <1>6. Merge(c, req)
    BY DEF req
  <1>7. /\ phase' = IF firing' = {} THEN "slot" ELSE "change"
        /\ count' = [req EXCEPT ![c.kind] = left]
        /\ chunks' = (chunks \ {c}) \cup
             IF AllAskAgain(c, left) THEN {[c EXCEPT !.kept = TRUE]} ELSE {}
    BY <1>5, <1>6 DEF Merge
  <1>8. \A t \in Members(c) : left[t] = IF again[t] = c.kind THEN 1 ELSE 0
    BY <1>1, <1>4
  <1>9. \A t \in Tasks \ Members(c) : left[t] = count[c.kind][t]
    <2> TAKE t \in Tasks \ Members(c)
    <2>1. req[c.kind][t] = count[c.kind][t] + 0 /\ count[c.kind][t] \in Nat
      BY <1>1, <1>2, <1>3
    <2> QED
      BY <2>1
  <1> HIDE DEF left
  <1>10. AllAskAgain(c, left) <=> \A t \in Members(c) : again[t] = c.kind
    BY <1>8 DEF AllAskAgain
  <1>11. ASSUME NEW t \in Tasks, NEW k \in Kinds
         PROVE  count'[k][t] = IF want'[t] = k THEN 1 ELSE 0
    <2>1. want'[t] = IF t \in Members(c) THEN again[t] ELSE want[t]
      OBVIOUS
    <2>2. CASE k = c.kind
      <3>1. count'[k][t] = left[t]
        BY <2>2, <1>3, <1>7
      <3>2. CASE t \in Members(c)
        BY <3>1, <3>2, <2>1, <2>2, <1>8
      <3>3. CASE t \notin Members(c)
        BY <3>1, <3>3, <2>1, <2>2, <1>9, <1>2
      <3> QED
        BY <3>2, <3>3
    <2>3. CASE k # c.kind
      <3>1. count'[k][t] = req[k][t]
        BY <2>3, <1>1, <1>3, <1>7
      <3>2. CASE t \in Members(c)
        <4>1. count[k][t] = 0
          BY <3>2, <2>3, <1>1, <1>2
        <4> QED
          BY <4>1, <3>1, <3>2, <2>1, <1>3
      <3>3. CASE t \notin Members(c)
        BY <3>1, <3>3, <2>1, <1>2, <1>3
      <3> QED
        BY <3>2, <3>3
    <2> QED
      BY <2>2, <2>3
  <1> QED
    BY <1>7, <1>10, <1>11

\* What a callback does, for all builds: its tasks run, and the callbacks in new
\* take its place (at most one).
FireResult(c, again, new) ==
    /\ want' = [t \in Tasks |-> IF t \in Members(c) THEN again[t] ELSE want[t]]
    /\ fresh' = (fresh \ Members(c)) \cup {t \in Members(c) : again[t] # "idle"}
    /\ \A k \in Kinds :
         /\ Distinct(pending'[k])
         /\ Listed(pending'[k]) = Listed(pending[k]) \cup
              {t \in Members(c) : build # "direct" /\ again[t] = k}
    /\ chunks' = (chunks \ {c}) \cup new
    /\ \A d, e \in new : d = e
    /\ \A d \in new :
         /\ \A e \in chunks : e # c => e.id # d.id
         /\ d.id \notin firing' /\ Distinct(d.tasks)
         /\ Members(d) = Members(c)
         /\ \A t \in Members(c) : again[t] = d.kind
         /\ build = "direct" \/ (build = "merge" /\ d.kept)
    /\ build = "direct" => \A t \in Members(c) :
         again[t] # "idle" => \E d \in new : t \in Members(d)
    /\ phase' = IF firing' = {} THEN "slot" ELSE "change"
    /\ firing' = firing \ {c.id}
    /\ \A t \in Tasks, k \in Kinds :
         count'[k][t] = IF build = "merge" /\ want'[t] = k THEN 1 ELSE 0
    /\ UNCHANGED <<build, value, changes>>

\* What an edge callback does, as one record of its result: who asked again, and
\* which callbacks took the place of the one that fired.
LEMMA FireOutcome ==
    ASSUME EdgeInv, NEW c \in chunks, Fire(c)
    PROVE  \E again \in [Members(c) -> Kinds \cup {"idle"}],
              new \in SUBSET CallbackRecords : FireResult(c, again, new)
  <1>0. PICK again \in [Members(c) -> Kinds \cup {"idle"}] :
          /\ TasksRun(c, again)
          /\ IF build = "merge" THEN Merge(c, Requested(c, again))
             ELSE Remove(c, again)
    BY DEF Fire
  <1>1. /\ c \in CallbackRecords /\ chunks \subseteq CallbackRecords
        /\ Members(c) \subseteq Tasks /\ Members(c) # {}
        /\ c.tasks \in Seq(Tasks) /\ Members(c) = Listed(c.tasks)
        /\ IsFiniteSet(chunks) /\ pending \in [Kinds -> Seq(Tasks)]
        /\ DirectShape /\ build \in {"merge", "chunk", "direct"}
    BY TypeFacts DEF EdgeInv, TypeInv, TypeOK
  <1>2. /\ \A k \in Kinds : Members(c) \cap Listed(pending[k]) = {}
        /\ \A k \in Kinds : Distinct(pending[k])
        /\ Distinct(c.tasks)
        /\ \A d \in chunks : d # c => d.id # c.id
        /\ firing \subseteq {d.id : d \in chunks}
    BY FiringFacts DEF EdgeInv, MapsInv, CallbacksInv, PhaseInv
  <1>3. /\ want' = [t \in Tasks |-> IF t \in Members(c) THEN again[t] ELSE want[t]]
        /\ fresh' = (fresh \ Members(c)) \cup {t \in Members(c) : again[t] # "idle"}
    BY <1>0 DEF TasksRun
  <1>4. firing' = firing \ {c.id} /\ UNCHANGED <<build, value, changes>>
    BY DEF Fire
  <1>5. ASSUME NEW k \in Kinds
        PROVE  /\ Distinct(pending'[k])
               /\ Listed(pending'[k]) = Listed(pending[k]) \cup
                    {t \in Members(c) : build # "direct" /\ again[t] = k}
    <2>1. CASE build = "direct"
      BY <2>1, <1>0, <1>2 DEF TasksRun
    <2>2. CASE build # "direct"
      <3> DEFINE S == {t \in Members(c) : again[t] = k}
                 r == Restricted(c.tasks, S)
      <3>1. pending'[k] = pending[k] \o r
        BY <2>2, <1>0 DEF TasksRun
      <3>2. r \in Seq(Tasks) /\ Listed(r) = Members(c) \cap S /\ Distinct(r)
        BY <1>1, <1>2, RestrictedFacts
      <3>3. pending[k] \in Seq(Tasks)
        BY <1>1
      <3> HIDE DEF r
      <3>4. Listed(r) = S /\ Listed(pending[k]) \cap Listed(r) = {}
        BY <3>2, <1>2
      <3>5. /\ Listed(pending[k] \o r) = Listed(pending[k]) \cup Listed(r)
            /\ Distinct(pending[k] \o r)
        BY <3>2, <3>3, <3>4, <1>2, ConcatListed
      <3> QED
        BY <3>1, <3>4, <3>5, <2>2
    <2> QED
      BY <2>1, <2>2
  <1>a. ASSUME build # "merge"
        PROVE  \A t \in Tasks, k \in Kinds :
                 count[k][t] = IF build = "merge" /\ want'[t] = k THEN 1 ELSE 0
    BY <1>a DEF EdgeInv, PhaseInv, CountExact
  <1>6. CASE build = "merge"
    <2> DEFINE kept == [c EXCEPT !.kept = TRUE]
               new == IF \A t \in Members(c) : again[t] = c.kind THEN {kept} ELSE {}
    <2>1. /\ phase' = IF firing' = {} THEN "slot" ELSE "change"
          /\ \A t \in Tasks, k \in Kinds :
               count'[k][t] = IF want'[t] = k THEN 1 ELSE 0
          /\ chunks' = (chunks \ {c}) \cup new
      BY <1>6, <1>0, <1>3, MergeOutcome
    <2>2. /\ kept \in CallbackRecords /\ kept.id = c.id /\ kept.tasks = c.tasks
          /\ kept.kind = c.kind /\ kept.kept = TRUE /\ Members(kept) = Members(c)
      <3>1. /\ kept \in CallbackRecords /\ kept.id = c.id /\ kept.tasks = c.tasks
            /\ kept.kind = c.kind /\ kept.kept = TRUE
        BY <1>1 DEF CallbackRecords
      <3> HIDE DEF kept
      <3> QED
        BY <3>1 DEF Members
    <2> HIDE DEF kept
    <2>3. /\ new \in SUBSET CallbackRecords /\ \A d, e \in new : d = e
          /\ \A d \in new : d = kept /\ \A t \in Members(c) : again[t] = c.kind
      BY <2>2
    <2> HIDE DEF new
    <2>4. \A d \in new :
                  /\ \A e \in chunks : e # c => e.id # d.id
                  /\ d.id \notin firing' /\ Distinct(d.tasks)
                  /\ Members(d) = Members(c)
                  /\ \A t \in Members(c) : again[t] = d.kind
                  /\ build = "direct" \/ (build = "merge" /\ d.kept)
      BY <2>2, <2>3, <1>2, <1>4, <1>6
    <2>5. \A t \in Tasks, k \in Kinds :
                  count'[k][t] = IF build = "merge" /\ want'[t] = k THEN 1 ELSE 0
      BY <2>1, <1>6
    <2>6. build # "direct"
      BY <1>6
    <2>7. FireResult(c, again, new)
      BY <2>1, <2>3, <2>4, <2>5, <2>6, <1>3, <1>4, <1>5 DEF FireResult
    <2> QED
      BY <2>3, <2>7
  <1>7. CASE build = "chunk"
    <2>1. /\ phase' = IF firing' = {} THEN "slot" ELSE "change"
          /\ count' = count /\ chunks' = (chunks \ {c}) \cup {}
      BY <1>7, <1>0 DEF Remove
    <2>2. \A t \in Tasks, k \in Kinds :
                  count'[k][t] = IF build = "merge" /\ want'[t] = k THEN 1 ELSE 0
      BY <2>1, <1>7, <1>a
    <2>3. {} \in SUBSET CallbackRecords /\ build # "direct"
      BY <1>7
    <2>4. FireResult(c, again, {})
      BY <2>1, <2>2, <2>3, <1>3, <1>4, <1>5 DEF FireResult
    <2> QED
      BY <2>3, <2>4
  <1>8. CASE build = "direct"
    <2>0. PICK u \in Tasks : Members(c) = {u}
      BY <1>1, <1>8, MembersType DEF DirectShape
    <2> DEFINE d0 == EdgeCbData(again[u], <<u>>)
               new == IF again[u] = "idle" THEN {} ELSE {d0}
    <2>1. /\ phase' = IF firing' = {} THEN "slot" ELSE "change"
          /\ count' = count
          /\ chunks' = (chunks \ {c}) \cup
               {EdgeCbData(again[t], <<t>>) :
                  t \in {v \in Members(c) : build = "direct" /\ again[v] # "idle"}}
      BY <1>8, <1>0 DEF Remove
    <2>2. chunks' = (chunks \ {c}) \cup new
      BY <2>0, <2>1, <1>8
    <2>3. ASSUME again[u] # "idle"
          PROVE  /\ d0 \in CallbackRecords /\ d0.kind = again[u]
                 /\ \A e \in chunks : e.id # d0.id
                 /\ Distinct(d0.tasks) /\ Members(d0) = {u}
      <3>1. again[u] \in Kinds /\ <<u>> \in Seq(Tasks)
        BY <2>0, <2>3
      <3>2. /\ d0 \in CallbackRecords /\ d0.kind = again[u] /\ d0.tasks = <<u>>
            /\ \A e \in chunks : e.id # d0.id
        <4>1. IsFiniteSet(chunks)
          BY <1>1
        <4>2. d0 \in CallbackRecords
          BY <4>1, <3>1, CallbackType
        <4>3. d0.kind = again[u] /\ d0.tasks = <<u>> /\ d0.id = VacantId
          BY DEF EdgeCbData
        <4>4. \A e \in chunks : e.id # VacantId
          BY <4>1, VacantIdFacts
        <4> HIDE DEF d0
        <4> QED
          BY <4>2, <4>3, <4>4
      <3> HIDE DEF d0
      <3>3. Distinct(<<u>>)
        BY DEF Distinct
      <3>4. Members(d0) = {u}
        BY <3>2 DEF Members
      <3> QED
        BY <3>2, <3>3, <3>4
    <2> HIDE DEF d0
    <2>4. /\ new \in SUBSET CallbackRecords /\ \A d, e \in new : d = e
          /\ \A d \in new : d = d0 /\ again[u] # "idle"
      BY <2>3
    <2>5. \A t \in Members(c) : again[t] # "idle" => \E d \in new : t \in Members(d)
      BY <2>0, <2>3
    <2> HIDE DEF new
    <2>6. \A d \in new :
                  /\ \A e \in chunks : e # c => e.id # d.id
                  /\ d.id \notin firing' /\ Distinct(d.tasks)
                  /\ Members(d) = Members(c)
                  /\ \A t \in Members(c) : again[t] = d.kind
                  /\ build = "direct" \/ (build = "merge" /\ d.kept)
      <3> TAKE d \in new
      <3>1. d = d0 /\ again[u] # "idle"
        BY <2>4
      <3>2. d.id \notin firing'
        BY <3>1, <2>3, <1>2, <1>4
      <3> QED
        BY <3>1, <3>2, <2>0, <2>3, <1>8
    <2>7. \A t \in Tasks, k \in Kinds :
                  count'[k][t] = IF build = "merge" /\ want'[t] = k THEN 1 ELSE 0
      BY <2>1, <1>8, <1>a
    <2>8. FireResult(c, again, new)
      BY <2>1, <2>2, <2>4, <2>5, <2>6, <2>7, <1>3, <1>4, <1>5 DEF FireResult
    <2> QED
      BY <2>4, <2>8
  <1> QED
    BY <1>1, <1>6, <1>7, <1>8

\* An edge callback serves each of its tasks, and those that ask again are
\* covered again.
LEMMA EdgeFire ==
    ASSUME EdgeAssumption, EdgeInv, NEW c \in chunks, Fire(c)
    PROVE  EdgeInv'
  <1>0. TypeInv'
    BY TypeFire DEF EdgeInv
  <1>1. PICK again \in [Members(c) -> Kinds \cup {"idle"}],
             new \in SUBSET CallbackRecords : FireResult(c, again, new)
    BY FireOutcome
  <1> USE DEF FireResult
  <1>2. /\ \A t \in Members(c) : want[t] = c.kind
        /\ \A k \in Kinds : Members(c) \cap Listed(pending[k]) = {}
        /\ \A d \in chunks : d # c => d.id # c.id /\ Members(d) \cap Members(c) = {}
        /\ changes > 0
    BY FiringFacts
  <1>3. /\ Members(c) \subseteq Tasks
        /\ \A d \in chunks : Members(d) \subseteq Tasks
        /\ \A k \in Kinds : Listed(pending[k]) \subseteq Tasks
    BY TypeFacts, ListedInterval DEF EdgeInv, TypeInv, TypeOK
  <1>4. /\ \A t \in Members(c) : want'[t] = again[t]
        /\ \A t \in Tasks \ Members(c) : want'[t] = want[t]
        /\ \A t \in Members(c) : again[t] \in Kinds \cup {"idle"}
    BY <1>1, <1>3
  <1>5. CallbacksInv'
    <2>1. ASSUME NEW d \in chunks', NEW e \in chunks', d.id = e.id
          PROVE  d = e
      BY <2>1, <1>1 DEF EdgeInv, CallbacksInv
    <2>2. ASSUME NEW d \in chunks', NEW e \in chunks', Members(d) \cap Members(e) # {}
          PROVE  d = e
      BY <2>2, <1>1, <1>2 DEF EdgeInv, CallbacksInv
    <2>3. ASSUME NEW d \in chunks'
          PROVE  Distinct(d.tasks)
      BY <1>1 DEF EdgeInv, CallbacksInv
    <2>4. ASSUME NEW d \in chunks', NEW t \in Members(d)
          PROVE  want'[t] = d.kind
      <3>1. CASE d \in new
        BY <3>1, <1>1, <1>4
      <3>2. CASE d \in chunks /\ d # c
        BY <3>2, <1>2, <1>3, <1>4 DEF EdgeInv, CallbacksInv
      <3> QED
        BY <3>1, <3>2, <1>1
    <2> QED
      BY <2>1, <2>2, <2>3, <2>4 DEF CallbacksInv, Members
  <1>6. MapsInv'
    <2>1. ASSUME NEW k \in Kinds, NEW t \in Listed(pending'[k])
          PROVE  want'[t] = k /\ t \in fresh'
      <3>1. CASE t \in Listed(pending[k])
        <4>1. t \notin Members(c) /\ t \in Tasks
          BY <3>1, <1>2, <1>3
        <4>2. want[t] = k /\ t \in fresh
          BY <3>1 DEF EdgeInv, MapsInv, Fire
        <4> QED
          BY <4>1, <4>2, <1>1, <1>4
      <3>2. CASE t \in Members(c) /\ again[t] = k
        BY <3>2, <1>1, <1>4, IdleNoKind
      <3> QED
        BY <3>1, <3>2, <1>1
    <2> QED
      BY <2>1, <1>1 DEF MapsInv, Listed, Distinct
  <1>7. OverlapInv'
    <2> SUFFICES ASSUME NEW d \in chunks', NEW k \in Kinds,
                        NEW t \in Members(d), t \in Listed(pending'[k])
                 PROVE  /\ d.kept /\ Members(d) \subseteq Listed(pending'[k])
                        /\ build = "merge" /\ changes > 0 /\ d.id \notin firing'
      <3>1. build' = build /\ changes' = changes
        BY <1>1
      <3> QED
        BY <3>1 DEF OverlapInv, Members, Listed
    <2>1. CASE d \in new
      <3>1. t \in Members(c) /\ t \notin Listed(pending[k])
        BY <2>1, <1>1, <1>2
      <3>2. build # "direct" /\ again[t] = k
        BY <3>1, <1>1
      <3>3. k = d.kind /\ build = "merge" /\ d.kept
        BY <3>1, <3>2, <2>1, <1>1
      <3>4. Members(d) \subseteq Listed(pending'[k])
        BY <3>2, <3>3, <2>1, <1>1
      <3> QED
        BY <3>3, <3>4, <2>1, <1>1, <1>2
    <2>2. CASE d \in chunks /\ d # c
      <3>1. t \notin Members(c)
        BY <2>2, <1>2
      <3>2. t \in Listed(pending[k])
        BY <3>1, <1>1
      <3>3. /\ d.kept /\ Members(d) \subseteq Listed(pending[k])
            /\ build = "merge" /\ d.id \notin firing
        BY <3>2, <2>2 DEF EdgeInv, OverlapInv
      <3> QED
        BY <3>3, <1>1, <1>2
    <2> QED
      BY <2>1, <2>2, <1>1
  <1>8. CoverInv'
    <2> SUFFICES ASSUME NEW t \in Tasks, want'[t] # "idle"
                 PROVE  \/ t \in Listed(pending'[want'[t]])
                        \/ \E d \in chunks' : t \in Members(d)
      BY DEF CoverInv, Members, Listed
    <2>1. CASE t \in Members(c)
      <3>1. want'[t] = again[t] /\ again[t] \in Kinds
        BY <2>1, <1>4
      <3> QED
        BY <3>1, <2>1, <1>1
    <2>2. CASE t \notin Members(c)
      <3>1. want'[t] = want[t] /\ want[t] \in Kinds
        BY <2>2, <1>4 DEF EdgeInv, TypeInv, TypeOK
      <3>2. t \in Listed(pending[want[t]]) \/ \E d \in chunks : t \in Members(d)
        BY <3>1 DEF EdgeInv, CoverInv
      <3> QED
        BY <3>1, <3>2, <2>2, <1>1
    <2> QED
      BY <2>1, <2>2
  <1>9. PhaseInv'
    <2>1. firing' \subseteq {d.id : d \in chunks'}
      BY <1>1 DEF EdgeInv, PhaseInv
    <2> QED
      BY <2>1, <1>1, <1>2 DEF PhaseInv
  <1>10. CountExact'
    BY <1>1 DEF CountExact
  <1> QED
    BY <1>0, <1>5, <1>6, <1>7, <1>8, <1>9, <1>10 DEF EdgeInv

\* A new callback for tasks that are with no other
LEMMA InstallOutcome ==
    ASSUME EdgeInv, NEW k \in Kinds, NEW s \in Seq(Tasks), Distinct(s),
           Install(k, s), \A d \in chunks : Members(d) \cap Listed(s) = {},
           want' \in [Tasks -> Kinds \cup {"idle"}],
           \A t \in Listed(s) : want'[t] = k,
           \A d \in chunks : \A t \in Members(d) : want'[t] = want[t]
    PROVE  /\ CallbacksInv'
           /\ \E n \in CallbackRecords :
                /\ chunks' = chunks \cup {n} /\ Members(n) = Listed(s)
                /\ n.kind = k /\ \A d \in chunks : d.id # n.id
  <1> DEFINE n == EdgeCbData(k, s)
  <1>1. IsFiniteSet(chunks)
    BY DEF EdgeInv, TypeInv
  <1>2. n \in CallbackRecords
    BY <1>1, CallbackType
  <1>3. n.kind = k /\ n.tasks = s /\ n.id = VacantId
    BY DEF EdgeCbData
  <1>4. \A d \in chunks : d.id # VacantId
    BY <1>1, VacantIdFacts
  <1>5. chunks' = chunks \cup {n}
    BY DEF Install
  <1> HIDE DEF n
  <1>6. Members(n) = Listed(s)
    BY <1>3 DEF Members, Listed
  <1>7. ASSUME NEW d \in chunks', NEW e \in chunks', d.id = e.id
        PROVE  d = e
    BY <1>7, <1>3, <1>4, <1>5 DEF EdgeInv, CallbacksInv
  <1>8. ASSUME NEW d \in chunks', NEW e \in chunks', Members(d) \cap Members(e) # {}
        PROVE  d = e
    BY <1>8, <1>5, <1>6 DEF EdgeInv, CallbacksInv
  <1>9. \A d \in chunks' : Distinct(d.tasks)
    BY <1>3, <1>5 DEF EdgeInv, CallbacksInv
  <1>10. ASSUME NEW d \in chunks', NEW t \in Members(d)
         PROVE  want'[t] = d.kind
    BY <1>3, <1>5, <1>6 DEF EdgeInv, CallbacksInv
  <1> QED
    BY <1>2, <1>3, <1>4, <1>5, <1>6, <1>7, <1>8, <1>9, <1>10
    DEF CallbacksInv, Members

\* A request outside of a callback is covered.
LEMMA EdgeAwait ==
    ASSUME EdgeAssumption, EdgeInv, NEW t \in Tasks, NEW k \in Kinds, Await(t, k)
    PROVE  EdgeInv'
  <1>0. TypeInv'
    BY TypeAwait DEF EdgeInv
  <1>1. /\ phase = "slot" /\ want[t] = "idle"
        /\ want' = [want EXCEPT ![t] = k] /\ fresh' = fresh \cup {t}
        /\ build' = build /\ phase' = phase /\ firing' = firing /\ changes' = changes
    BY DEF Await
  <1>2. /\ want \in [Tasks -> Kinds \cup {"idle"}]
        /\ pending \in [Kinds -> Seq(Tasks)]
        /\ count \in [Kinds -> [Tasks -> Nat]]
        /\ \A d \in chunks : Members(d) \subseteq Tasks /\ d.kind \in Kinds
    BY TypeFacts DEF EdgeInv, TypeInv, TypeOK
  <1>3. /\ want' \in [Tasks -> Kinds \cup {"idle"}]
        /\ want'[t] = k /\ \A u \in Tasks : u # t => want'[u] = want[u]
    BY <1>1, <1>2
  <1>4. /\ \A d \in chunks : t \notin Members(d)
        /\ \A j \in Kinds : t \notin Listed(pending[j])
    <2>1. ASSUME NEW d \in chunks, t \in Members(d)
          PROVE  FALSE
      <3>1. want[t] = d.kind /\ d.kind \in Kinds
        BY <2>1, <1>2 DEF EdgeInv, CallbacksInv
      <3> QED
        BY <3>1, <1>1, IdleNoKind
    <2>2. ASSUME NEW j \in Kinds, t \in Listed(pending[j])
          PROVE  FALSE
      <3>1. want[t] = j
        BY <2>2 DEF EdgeInv, MapsInv
      <3> QED
        BY <3>1, <1>1, IdleNoKind
    <2> QED
      BY <2>1, <2>2
  <1>5. CountExact'
    <2> SUFFICES ASSUME NEW u \in Tasks, NEW j \in Kinds
                 PROVE  count'[j][u] = IF build = "merge" /\ want'[u] = j THEN 1 ELSE 0
      BY <1>1 DEF CountExact
    <2>1. count[j][u] = IF build = "merge" /\ want[u] = j THEN 1 ELSE 0
      BY <1>1 DEF EdgeInv, CountExact
    <2>2. CASE build = "merge"
      <3>1. count' = [count EXCEPT ![k][t] = @ + 1]
        BY <2>2 DEF Await
      <3>2. CASE j = k /\ u = t
        <4>1. count'[j][u] = count[j][u] + 1
          BY <3>1, <3>2, <1>2
        <4>2. count[j][u] = 0
          BY <2>1, <3>2, <1>1, IdleNoKind
        <4> QED
          BY <4>1, <4>2, <3>2, <2>2, <1>3
      <3>3. CASE ~(j = k /\ u = t)
        <4>1. count'[j][u] = count[j][u]
          BY <3>1, <3>3, <1>2
        <4> QED
          BY <4>1, <3>3, <2>1, <1>1, <1>3, IdleNoKind
      <3> QED
        BY <3>2, <3>3
    <2>3. CASE build # "merge"
      <3>1. count' = count
        BY <2>3 DEF Await
      <3> QED
        BY <3>1, <2>1, <2>3
    <2> QED
      BY <2>2, <2>3
  <1>6. CASE build = "direct"
    <2>1. Install(k, <<t>>) /\ pending' = pending
      BY <1>6 DEF Await
    <2>2. <<t>> \in Seq(Tasks) /\ Distinct(<<t>>) /\ Listed(<<t>>) = {t}
      BY DEF Distinct, Listed
    <2>3. \A d \in chunks : Members(d) \cap Listed(<<t>>) = {}
      BY <2>2, <1>4
    <2>4. /\ \A u \in Listed(<<t>>) : want'[u] = k
          /\ \A d \in chunks : \A u \in Members(d) : want'[u] = want[u]
      BY <2>2, <1>2, <1>3, <1>4
    <2> DEFINE one == <<t>>
    <2> HIDE DEF one
    <2>5. CallbacksInv'
      BY <2>1, <2>2, <2>3, <2>4, <1>3, InstallOutcome
    <2>6. PICK n \in CallbackRecords :
                /\ chunks' = chunks \cup {n} /\ Members(n) = Listed(one)
                /\ n.kind = k /\ \A d \in chunks : d.id # n.id
      <3>1. /\ one \in Seq(Tasks) /\ Distinct(one) /\ Install(k, one)
            /\ \A d \in chunks : Members(d) \cap Listed(one) = {}
            /\ \A u \in Listed(one) : want'[u] = k
        BY <2>1, <2>2, <2>3, <2>4 DEF one
      <3> QED
        BY <3>1, <2>4, <1>3, InstallOutcome
    <2>7. \A j \in Kinds : pending[j] = <<>> /\ Listed(pending[j]) = {}
      BY <1>6 DEF EdgeInv, TypeInv, DirectShape, Listed
    <2>8. MapsInv'
      BY <2>1, <2>7 DEF MapsInv, Distinct, Listed
    <2>9. OverlapInv'
      BY <2>1, <2>7 DEF OverlapInv, Listed
    <2>10. CoverInv'
      <3> SUFFICES ASSUME NEW u \in Tasks, want'[u] # "idle"
                   PROVE  \E d \in chunks' : u \in Members(d)
        BY DEF CoverInv, Members
      <3>1. CASE u = t
        BY <3>1, <2>2, <2>6 DEF one
      <3>2. CASE u # t
        <4>1. want[u] # "idle" /\ want[u] \in Kinds
          BY <3>2, <1>2, <1>3
        <4>2. \E d \in chunks : u \in Members(d)
          BY <4>1, <2>7 DEF EdgeInv, CoverInv
        <4> QED
          BY <4>2, <2>6
      <3> QED
        BY <3>1, <3>2
    <2>11. PhaseInv'
      BY <2>6, <1>1 DEF EdgeInv, PhaseInv
    <2> QED
      BY <1>0, <1>5, <2>5, <2>8, <2>9, <2>10, <2>11 DEF EdgeInv
  <1>7. CASE build # "direct"
    <2>1. pending' = [pending EXCEPT ![k] = Append(@, t)] /\ chunks' = chunks
      BY <1>7 DEF Await
    <2>2. /\ Distinct(pending'[k])
          /\ Listed(pending'[k]) = Listed(pending[k]) \cup {t}
      <3>1. pending'[k] = Append(pending[k], t) /\ pending[k] \in Seq(Tasks)
        BY <2>1, <1>2
      <3>2. Distinct(pending[k]) /\ t \notin Listed(pending[k])
        BY <1>4 DEF EdgeInv, MapsInv
      <3> QED
        BY <3>1, <3>2, AppendListed
    <2>3. \A j \in Kinds : j # k => pending'[j] = pending[j]
      BY <2>1, <1>2
    <2>4. \A j \in Kinds : \A u \in Listed(pending'[j]) :
            (u = t /\ j = k) \/ (u # t /\ u \in Listed(pending[j]) /\ u \in Tasks)
      <3>1. \A j \in Kinds : Listed(pending[j]) \subseteq Tasks
        BY <1>2, ListedInterval
      <3> QED
        BY <3>1, <2>2, <2>3, <1>4
    <2>5. CallbacksInv'
      <3>1. \A d \in chunks : \A u \in Members(d) : want'[u] = want[u]
        <4> SUFFICES ASSUME NEW d \in chunks, NEW u \in Members(d)
                     PROVE  want'[u] = want[u]
          OBVIOUS
        <4>1. u \in Tasks /\ u # t
          BY <1>2, <1>4
        <4> QED
          BY <4>1, <1>3
      <3> QED
        BY <3>1, <2>1 DEF EdgeInv, CallbacksInv, Members
    <2>6. MapsInv'
      <3>1. ASSUME NEW j \in Kinds
            PROVE  Distinct(pending'[j])
        BY <2>2, <2>3 DEF EdgeInv, MapsInv
      <3>2. ASSUME NEW j \in Kinds, NEW u \in Listed(pending'[j])
            PROVE  want'[u] = j /\ u \in fresh'
        <4>1. CASE u = t /\ j = k
          BY <4>1, <1>1, <1>3
        <4>2. CASE u # t /\ u \in Listed(pending[j]) /\ u \in Tasks
          BY <4>2, <1>1, <1>3 DEF EdgeInv, MapsInv
        <4> QED
          BY <4>1, <4>2, <2>4
      <3> QED
        BY <3>1, <3>2 DEF MapsInv, Distinct, Listed
    <2>7. OverlapInv'
      <3>1. ASSUME NEW d \in chunks, NEW j \in Kinds,
                   NEW u \in Members(d), u \in Listed(pending'[j])
            PROVE  /\ d.kept /\ Members(d) \subseteq Listed(pending'[j])
                   /\ build = "merge" /\ changes > 0 /\ d.id \notin firing
        <4>1. u \in Listed(pending[j])
          BY <3>1, <2>4, <1>4
        <4>2. /\ d.kept /\ Members(d) \subseteq Listed(pending[j])
              /\ build = "merge" /\ changes > 0 /\ d.id \notin firing
          BY <4>1 DEF EdgeInv, OverlapInv
        <4> QED
          BY <4>2, <2>2, <2>3
      <3>2. \A d \in chunks', j \in Kinds :
              Members(d) \cap Listed(pending'[j]) # {} =>
                /\ d.kept /\ Members(d) \subseteq Listed(pending'[j])
                /\ build' = "merge" /\ changes' > 0 /\ d.id \notin firing'
        BY <3>1, <2>1, <1>1
      <3> QED
        BY <3>2 DEF OverlapInv, Members, Listed
    <2>8. CoverInv'
      <3> SUFFICES ASSUME NEW u \in Tasks, want'[u] # "idle"
                   PROVE  \/ u \in Listed(pending'[want'[u]])
                          \/ \E d \in chunks : u \in Members(d)
        BY <2>1 DEF CoverInv, Members, Listed
      <3>1. CASE u = t
        BY <3>1, <2>2, <1>3
      <3>2. CASE u # t
        <4>1. want'[u] = want[u] /\ want[u] # "idle" /\ want[u] \in Kinds
          BY <3>2, <1>2, <1>3
        <4>2. u \in Listed(pending[want[u]]) \/ \E d \in chunks : u \in Members(d)
          BY <4>1 DEF EdgeInv, CoverInv
        <4> QED
          BY <4>1, <4>2, <2>2, <2>3
      <3> QED
        BY <3>1, <3>2
    <2>9. PhaseInv'
      BY <2>1, <1>1 DEF EdgeInv, PhaseInv
    <2> QED
      BY <1>0, <1>5, <2>5, <2>6, <2>7, <2>8, <2>9 DEF EdgeInv
  <1> QED
    BY <1>6, <1>7

\* A value change makes the matching callbacks due; in merge builds no request
\* of an earlier callback of the slot is pending then.
LEMMA EdgeChange ==
    ASSUME EdgeAssumption, OneMergeChange, EdgeInv, Change
    PROVE  EdgeInv'
  <1>0. TypeInv'
    BY TypeChange DEF EdgeInv
  <1>1. /\ UNCHANGED <<build, want, fresh, count, pending, chunks>>
        /\ phase = "slot" /\ changes < ChangeBound /\ changes' = changes + 1
        /\ firing' = {c.id : c \in {d \in chunks : Matches(d.kind, value')}}
        /\ phase' = IF firing' = {} THEN "slot" ELSE "change"
    BY DEF Change
  <1>2. changes \in Nat /\ build \in Builds
    BY DEF EdgeInv, TypeInv, TypeOK
  <1>3. build = "merge" => changes = 0
    BY <1>1, <1>2 DEF ChangeBound, OneMergeChange, EdgeAssumption
  <1>4. \A d \in chunks, k \in Kinds : Members(d) \cap Listed(pending[k]) = {}
    BY <1>2, <1>3 DEF EdgeInv, OverlapInv
  <1>5. CallbacksInv'
    BY <1>1 DEF EdgeInv, CallbacksInv, Members
  <1>6. MapsInv'
    BY <1>1 DEF EdgeInv, MapsInv
  <1>7. OverlapInv'
    BY <1>1, <1>4 DEF OverlapInv, Members
  <1>8. CoverInv'
    BY <1>1 DEF EdgeInv, CoverInv, Members
  <1>9. PhaseInv'
    BY SMTT(30), <1>1, <1>2 DEF EdgeInv, PhaseInv
  <1>10. CountExact'
    BY <1>1 DEF EdgeInv, PhaseInv, CountExact
  <1> QED
    BY <1>0, <1>5, <1>6, <1>7, <1>8, <1>9, <1>10 DEF EdgeInv

\* The next sim time turns to the pending requests.
LEMMA EdgeNextSimTime ==
    ASSUME EdgeAssumption, EdgeInv, NextSimTime
    PROVE  EdgeInv'
  <1>0. TypeInv'
    BY TypeNextSimTime DEF EdgeInv
  <1>1. /\ phase = "slot" /\ phase' = "register"
        /\ pending' = [k \in Kinds |-> Unserved(k)]
        /\ fresh' = {} /\ changes' = 0
        /\ UNCHANGED <<build, want, count, chunks, firing>>
    BY DEF NextSimTime
  <1> DEFINE kept(k) == {c \in chunks : c.kept /\ c.kind = k /\
                                        Members(c) \subseteq Listed(pending[k])}
             served(k) == UNION {Members(c) : c \in kept(k)}
  <1>2. ASSUME NEW k \in Kinds
        PROVE  /\ Distinct(pending'[k])
               /\ Listed(pending'[k]) = Listed(pending[k]) \ served(k)
    <2>1. pending[k] \in Seq(Tasks) /\ Distinct(pending[k])
      BY DEF EdgeInv, TypeInv, TypeOK, MapsInv
    <2>2. pending'[k] = Restricted(pending[k], Tasks \ served(k))
      BY <1>1 DEF Unserved
    <2>3. Listed(pending[k]) \subseteq Tasks
      BY <2>1, ListedInterval
    <2> HIDE DEF served
    <2>4. /\ Listed(Restricted(pending[k], Tasks \ served(k))) =
                Listed(pending[k]) \cap (Tasks \ served(k))
          /\ Distinct(Restricted(pending[k], Tasks \ served(k)))
      BY <2>1, RestrictedFacts
    <2> QED
      BY <2>2, <2>3, <2>4
  <1>3. ASSUME NEW d \in chunks, NEW k \in Kinds,
               NEW t \in Members(d), t \in Listed(pending[k])
        PROVE  t \in served(k)
    <2>1. want[t] = k /\ want[t] = d.kind
      BY <1>3 DEF EdgeInv, MapsInv, CallbacksInv
    <2>2. d.kept /\ Members(d) \subseteq Listed(pending[k])
      BY <1>3 DEF EdgeInv, OverlapInv
    <2>3. d \in kept(k)
      BY <2>1, <2>2
    <2> HIDE DEF kept
    <2> QED
      BY <2>3
  <1>4. \A k \in Kinds : \A t \in served(k) : \E d \in chunks : t \in Members(d)
    OBVIOUS
  <1> HIDE DEF served, kept
  <1>5. CallbacksInv'
    BY <1>1 DEF EdgeInv, CallbacksInv, Members
  <1>6. MapsInv'
    <2>1. ASSUME NEW k \in Kinds, NEW t \in Listed(pending'[k])
          PROVE  want'[t] = k
      BY <1>1, <1>2 DEF EdgeInv, MapsInv
    <2> QED
      BY <2>1, <1>1, <1>2 DEF MapsInv, Distinct, Listed
  <1>7. OverlapInv'
    <2>1. \A d \in chunks, k \in Kinds : Members(d) \cap Listed(pending'[k]) = {}
      BY <1>2, <1>3
    <2> QED
      BY <2>1, <1>1 DEF OverlapInv, Members, Listed
  <1>8. CoverInv'
    <2> SUFFICES ASSUME NEW t \in Tasks, want[t] # "idle"
                 PROVE  \/ t \in Listed(pending'[want[t]])
                        \/ \E d \in chunks : t \in Members(d)
      BY <1>1 DEF CoverInv, Members, Listed
    <2>1. want[t] \in Kinds
      BY DEF EdgeInv, TypeInv, TypeOK
    <2>2. t \in Listed(pending[want[t]]) \/ \E d \in chunks : t \in Members(d)
      BY DEF EdgeInv, CoverInv
    <2> QED
      BY <2>1, <2>2, <1>2, <1>4
  <1>9. PhaseInv'
    BY <1>1 DEF EdgeInv, PhaseInv
  <1>10. CountExact'
    BY <1>1 DEF EdgeInv, CountExact
  <1> QED
    BY <1>0, <1>5, <1>6, <1>7, <1>8, <1>9, <1>10 DEF EdgeInv

\* A chunk takes over the requests of its tasks.
LEMMA EdgeRegisterChunk ==
    ASSUME EdgeAssumption, EdgeInv, NEW k \in Kinds, RegisterChunk(k)
    PROVE  EdgeInv'
  <1>0. TypeInv'
    BY TypeRegisterChunk DEF EdgeInv
  <1> DEFINE s == pending[k]
             a == NextChunk(s)
             rest == SubSeq(s, ChunkEnd(s) + 1, Len(s))
  <1>1. /\ phase = "register" /\ s # <<>> /\ Install(k, a)
        /\ pending' = [pending EXCEPT ![k] = rest]
        /\ UNCHANGED <<build, phase, value, want, fresh, count, firing, changes>>
    BY DEF RegisterChunk
  <1>2. /\ pending \in [Kinds -> Seq(Tasks)] /\ s \in Seq(Tasks) /\ Distinct(s)
        /\ want \in [Tasks -> Kinds \cup {"idle"}]
    BY DEF EdgeInv, TypeInv, TypeOK, MapsInv
  <1>3. /\ a \in Seq(Tasks) /\ rest \in Seq(Tasks)
        /\ Distinct(a) /\ Distinct(rest)
        /\ Listed(s) = Listed(a) \cup Listed(rest)
        /\ Listed(a) \cap Listed(rest) = {}
    BY <1>1, <1>2, ChunkFacts
  <1> HIDE DEF a, rest
  <1>4. /\ pending'[k] = rest
        /\ \A j \in Kinds : j # k => pending'[j] = pending[j]
    BY <1>1, <1>2
  <1>5. \A d \in chunks, j \in Kinds : Members(d) \cap Listed(pending[j]) = {}
    BY <1>1 DEF EdgeInv, OverlapInv, PhaseInv
  <1>6. \A t \in Listed(s) : want[t] = k
    BY DEF EdgeInv, MapsInv
  <1>7. /\ \A d \in chunks : Members(d) \cap Listed(a) = {}
        /\ \A t \in Listed(a) : want'[t] = k
        /\ \A d \in chunks : \A t \in Members(d) : want'[t] = want[t]
        /\ want' \in [Tasks -> Kinds \cup {"idle"}]
    BY <1>1, <1>2, <1>3, <1>5, <1>6
  <1>8. CallbacksInv'
    BY <1>1, <1>3, <1>7, InstallOutcome
  <1>9. PICK n \in CallbackRecords :
                /\ chunks' = chunks \cup {n} /\ Members(n) = Listed(a)
                /\ n.kind = k /\ \A d \in chunks : d.id # n.id
    BY <1>1, <1>3, <1>7, InstallOutcome
  <1>10. MapsInv'
    <2>1. ASSUME NEW j \in Kinds
          PROVE  Distinct(pending'[j])
      BY <1>3, <1>4 DEF EdgeInv, MapsInv
    <2>2. ASSUME NEW j \in Kinds, NEW t \in Listed(pending'[j])
          PROVE  want'[t] = j
      BY <1>1, <1>3, <1>4, <1>6 DEF EdgeInv, MapsInv
    <2> QED
      BY <2>1, <2>2, <1>1 DEF MapsInv, Distinct, Listed
  <1>11. OverlapInv'
    <2>1. ASSUME NEW d \in chunks', NEW j \in Kinds,
                 NEW t \in Members(d), t \in Listed(pending'[j])
          PROVE  FALSE
      <3>1. t \in Listed(pending[j])
        BY <2>1, <1>3, <1>4
      <3>2. d = n
        BY <3>1, <1>5, <1>9
      <3>3. t \in Listed(a) /\ want[t] = j
        BY <3>1, <3>2, <1>9 DEF EdgeInv, MapsInv
      <3>4. j = k
        BY <3>3, <1>3, <1>6
      <3> QED
        BY <3>3, <3>4, <2>1, <1>3, <1>4
    <2> QED
      BY <2>1 DEF OverlapInv, Members, Listed
  <1>12. CoverInv'
    <2> SUFFICES ASSUME NEW t \in Tasks, want[t] # "idle"
                 PROVE  \/ t \in Listed(pending'[want[t]])
                        \/ \E d \in chunks' : t \in Members(d)
      BY <1>1 DEF CoverInv, Members, Listed
    <2>1. want[t] \in Kinds
      BY <1>2
    <2>2. t \in Listed(pending[want[t]]) \/ \E d \in chunks : t \in Members(d)
      BY DEF EdgeInv, CoverInv
    <2>3. CASE \E d \in chunks : t \in Members(d)
      BY <2>3, <1>9
    <2>4. CASE t \in Listed(pending[want[t]])
      <3>1. CASE want[t] = k
        <4>1. t \in Listed(a) \/ t \in Listed(rest)
          BY <3>1, <2>4, <1>3
        <4> QED
          BY <4>1, <3>1, <1>4, <1>9
      <3>2. CASE want[t] # k
        BY <3>2, <2>1, <2>4, <1>4
      <3> QED
        BY <3>1, <3>2
    <2> QED
      BY <2>2, <2>3, <2>4
  <1>13. PhaseInv'
    BY <1>1, <1>9 DEF EdgeInv, PhaseInv
  <1>14. CountExact'
    BY <1>1 DEF EdgeInv, CountExact
  <1> QED
    BY <1>0, <1>8, <1>10, <1>11, <1>12, <1>13, <1>14 DEF EdgeInv

\* The pending map is empty when the loops have ended.
LEMMA EdgeRegistered ==
    ASSUME EdgeAssumption, EdgeInv, Registered
    PROVE  EdgeInv'
  <1>1. /\ phase = "register" /\ phase' = "slot"
        /\ UNCHANGED <<build, value, want, fresh, count, pending, chunks, firing,
                       changes>>
        /\ \A k \in Kinds : pending[k] = <<>>
    BY DEF Registered
  <1>2. TypeInv'
    BY TypeStep DEF EdgeInv, Next, Machine
  <1>3. \A k \in Kinds : Listed(pending[k]) = {}
    BY <1>1 DEF Listed
  <1>4. CallbacksInv' /\ OverlapInv' /\ CoverInv'
    BY <1>1 DEF EdgeInv, CallbacksInv, OverlapInv, CoverInv, Members
  <1>5. MapsInv'
    BY <1>1, <1>3 DEF EdgeInv, MapsInv
  <1>6. PhaseInv' /\ CountExact'
    BY <1>1 DEF EdgeInv, PhaseInv, CountExact
  <1> QED
    BY <1>2, <1>4, <1>5, <1>6 DEF EdgeInv

\* Nobody waits at the start.
LEMMA EdgeInit ==
    ASSUME EdgeAssumption, Init
    PROVE  EdgeInv
  <1>1. TypeInv
    BY TypeInit
  <1>2. /\ \A t \in Tasks : want[t] = "idle"
        /\ \A k \in Kinds : pending[k] = <<>>
        /\ \A t \in Tasks, k \in Kinds : count[k][t] = 0
        /\ chunks = {} /\ firing = {} /\ phase = "slot" /\ changes = 0
    BY DEF Init
  <1>3. MapsInv
    BY <1>2 DEF MapsInv, Distinct, Listed
  <1>4. CountExact
    BY <1>2, IdleNoKind DEF CountExact
  <1> QED
    BY <1>1, <1>2, <1>3, <1>4 DEF EdgeInv, CallbacksInv, OverlapInv, CoverInv, PhaseInv

\* Every step preserves the invariant.
LEMMA EdgeStep ==
    ASSUME EdgeAssumption, OneMergeChange, EdgeInv, [Next]_vars
    PROVE  EdgeInv'
  <1>1. CASE \E t \in Tasks, k \in Kinds : Await(t, k)
    BY <1>1, EdgeAwait
  <1>2. CASE Change
    BY <1>2, EdgeChange
  <1>3. CASE \E c \in chunks : Fire(c)
    BY <1>3, EdgeFire
  <1>4. CASE NextSimTime
    BY <1>4, EdgeNextSimTime
  <1>5. CASE \E k \in Kinds : RegisterChunk(k)
    BY <1>5, EdgeRegisterChunk
  <1>6. CASE Registered
    BY <1>6, EdgeRegistered
  <1>7. CASE UNCHANGED vars
    <2>1. TypeInv'
      BY TypeStep DEF EdgeInv
    <2>2. CallbacksInv' /\ OverlapInv' /\ CoverInv'
      BY <1>7 DEF vars, EdgeInv, CallbacksInv, OverlapInv, CoverInv, Members
    <2>3. MapsInv' /\ PhaseInv' /\ CountExact'
      BY <1>7 DEF vars, EdgeInv, MapsInv, PhaseInv, CountExact
    <2> QED
      BY <2>1, <2>2, <2>3 DEF EdgeInv
  <1> QED
    BY <1>1, <1>2, <1>3, <1>4, <1>5, <1>6, <1>7 DEF Next, Machine

\* The invariant holds in every reachable state.
LEMMA EdgeInvariant == ASSUME OneMergeChange PROVE Spec => []EdgeInv
  <1>1. Init => EdgeInv
    BY EdgeAssumption, EdgeInit
  <1>2. EdgeInv /\ [Next]_vars => EdgeInv'
    BY EdgeAssumption, EdgeStep
  <1> QED
    BY <1>1, <1>2, PTL DEF Spec

\* merge_cb: the count of a task is the number of requests that are still to be
\* served, so that get_mut(task_id).unwrap() finds an entry and a callback is
\* removed neither early nor late, when the signal changes at most once in a slot.
THEOREM EdgeCountExact == ASSUME OneMergeChange PROVE Spec => []CountExact
  <1>1. EdgeInv => CountExact
    BY DEF EdgeInv
  <1> QED
    BY <1>1, EdgeInvariant, PTL

\* A set in which any two elements are equal has at most one.
LEMMA AtMostOne ==
    ASSUME NEW S, \A x, y \in S : x = y
    PROVE  Cardinality(S) <= 1
  <1>1. CASE S = {}
    BY <1>1, FS_EmptySet
  <1>2. CASE S # {}
    <2>1. PICK x : x \in S
      BY <1>2
    <2>2. S = {x}
      BY <2>1
    <2> QED
      BY <2>2, FS_Singleton
  <1> QED
    BY <1>1, <1>2

\* The invariant covers every wait.
LEMMA EdgeInvCovers ==
    ASSUME EdgeInv
    PROVE  WaitsCovered
  <1> SUFFICES ASSUME phase = "slot", NEW t \in Tasks, NEW k \in Kinds
               PROVE  LET inMap == {i \in DOMAIN pending[k] : pending[k][i] = t}
                      IN  IF want[t] = k
                          THEN /\ Cardinality(Serving(t, k)) <= 1
                               /\ Cardinality(inMap) <= 1
                               /\ Serving(t, k) # {} \/ inMap # {}
                               /\ inMap # {} => \A c \in Serving(t, k) :
                                    c.kept /\ Members(c) \subseteq Listed(pending[k])
                          ELSE Serving(t, k) = {} /\ inMap = {}
    BY DEF WaitsCovered
  <1> DEFINE inMap == {i \in DOMAIN pending[k] : pending[k][i] = t}
             sv == Serving(t, k)
  <1>1. inMap # {} <=> t \in Listed(pending[k])
    BY DEF Listed
  <1>2. \A i, j \in inMap : i = j
    BY DEF EdgeInv, MapsInv, Distinct
  <1>3. sv = {c \in chunks : c.kind = k /\ t \in Members(c)}
    BY DEF Serving
  <1> HIDE DEF inMap, sv
  <1>4. \A c, d \in sv : c = d
    BY <1>3 DEF EdgeInv, CallbacksInv
  <1>5. Cardinality(inMap) <= 1 /\ Cardinality(sv) <= 1
    BY <1>2, <1>4, AtMostOne
  <1>6. ASSUME want[t] = k
        PROVE  sv # {} \/ inMap # {}
    <2>1. k # "idle"
      BY IdleNoKind
    <2>2. t \in Listed(pending[k]) \/ \E c \in chunks : t \in Members(c)
      BY <1>6, <2>1 DEF EdgeInv, CoverInv
    <2>3. \A c \in chunks : t \in Members(c) => c \in sv
      BY <1>3, <1>6 DEF EdgeInv, CallbacksInv
    <2> QED
      BY <2>2, <2>3, <1>1
  <1>7. ASSUME inMap # {}, NEW c \in sv
        PROVE  c.kept /\ Members(c) \subseteq Listed(pending[k])
    BY <1>1, <1>3, <1>7 DEF EdgeInv, OverlapInv
  <1>8. ASSUME want[t] # k
        PROVE  sv = {} /\ inMap = {}
    BY <1>1, <1>3, <1>8 DEF EdgeInv, CallbacksInv, MapsInv
  <1> QED
    BY <1>5, <1>6, <1>7, <1>8 DEF inMap, sv

\* Between value changes a wait is with one callback or once in the map, in both
\* only for a kept callback whose tasks are all in the map; a task that awaits
\* nothing is registered nowhere.
THEOREM EdgeWaitsCovered == ASSUME OneMergeChange PROVE Spec => []WaitsCovered
  <1>1. EdgeInv => WaitsCovered
    BY EdgeInvCovers
  <1> QED
    BY <1>1, EdgeInvariant, PTL

----------------------------------------------------------------------------
(* The callbacks implement EdgeWaits                                       *)

\* Outside a value change nothing is due, before and after a step.
LEMMA NothingDue ==
    ASSUME EdgeInv, EdgeInv'
    PROVE  /\ phase # "change" => Due = {}
           /\ phase' # "change" => Due' = {}
           /\ (phase = "halted") = FALSE /\ (phase = "halted")' = FALSE
  <1>1. phase # "change" => firing = {}
    BY DEF EdgeInv, PhaseInv
  <1>2. phase' # "change" => firing' = {}
    BY DEF EdgeInv, PhaseInv
  <1>3. phase # "halted" /\ phase' # "halted"
    BY DEF EdgeInv, PhaseInv
  <1> QED
    BY <1>1, <1>2, <1>3 DEF Due

\* A request is a request of the abstract specification.
LEMMA AbsAwait ==
    ASSUME EdgeInv, EdgeInv', NEW t \in Tasks, NEW k \in Kinds, Await(t, k)
    PROVE  Abs!Await(t)
  <1>1. /\ phase = "slot" /\ phase' = "slot" /\ want[t] = "idle"
        /\ want' = [want EXCEPT ![t] = k] /\ fresh' = fresh \cup {t}
        /\ value' = value
    BY DEF Await
  <1>2. Due = {} /\ Due' = {} /\ (phase = "halted")' = (phase = "halted")
    BY <1>1, NothingDue
  <1> QED
    BY <1>1, <1>2 DEF Abs!Await

\* A value change is one of the abstract specification: the members of the
\* callbacks that are due are the tasks it has to resume.
LEMMA AbsChange ==
    ASSUME EdgeInv, EdgeInv', Change
    PROVE  Abs!Change
  <1>1. /\ phase = "slot" /\ value' \in {0, 1, 2} \ {value}
        /\ firing' = {c.id : c \in {d \in chunks : Matches(d.kind, value')}}
        /\ UNCHANGED <<want, fresh, pending, chunks>>
    BY DEF Change
  <1>2. Due = {} /\ (phase = "halted")' = (phase = "halted")
    BY <1>1, NothingDue
  <1>3. \A c \in chunks : c.id \in firing' <=> Matches(c.kind, value')
    BY <1>1 DEF EdgeInv, CallbacksInv
  <1>4. Due' = UNION {Members(c) : c \in {d \in chunks : Matches(d.kind, value')}}
    BY <1>1, <1>3 DEF Due, Members
  <1>5. /\ want \in [Tasks -> Kinds \cup {"idle"}]
        /\ \A c \in chunks : Members(c) \subseteq Tasks /\ c.kind \in Kinds
    BY TypeFacts DEF EdgeInv, TypeInv, TypeOK
  <1>6. ASSUME NEW c \in chunks, Matches(c.kind, value'), NEW t \in Members(c)
        PROVE  t \in Abs!Waiting(value')
    <2>1. t \in Tasks /\ want[t] = c.kind /\ c.kind # "idle"
      BY <1>5, IdleNoKind DEF EdgeInv, CallbacksInv
    <2> QED
      BY <2>1, <1>6 DEF Abs!Waiting
  <1>7. ASSUME NEW t \in Abs!Waiting(value'), t \notin fresh
        PROVE  t \in Due'
    <2>1. t \in Tasks /\ want[t] # "idle" /\ Matches(want[t], value')
      BY DEF Abs!Waiting
    <2>2. want[t] \in Kinds
      BY <2>1, <1>5
    <2>3. t \notin Listed(pending[want[t]])
      BY <2>2, <1>1, <1>7 DEF EdgeInv, MapsInv
    <2>4. PICK c \in chunks : t \in Members(c)
      BY <2>1, <2>3 DEF EdgeInv, CoverInv
    <2>5. want[t] = c.kind
      BY <2>4 DEF EdgeInv, CallbacksInv
    <2> QED
      BY <2>1, <2>4, <2>5, <1>4
  <1>8. Due' \subseteq Abs!Waiting(value')
    BY <1>4, <1>6
  <1> QED
    BY <1>1, <1>2, <1>7, <1>8 DEF Abs!Change

\* A callback resumes its tasks and no other, and they are due no more.
LEMMA AbsFire ==
    ASSUME EdgeInv, EdgeInv', NEW c \in chunks, Fire(c)
    PROVE  Abs!Resume(Members(c)) /\ Members(c) \subseteq Tasks
  <1>a. PICK again \in [Members(c) -> Kinds \cup {"idle"}],
             new \in SUBSET CallbackRecords : FireResult(c, again, new)
    BY FireOutcome
  <1>1. /\ want' = [t \in Tasks |-> IF t \in Members(c) THEN again[t] ELSE want[t]]
        /\ fresh' = (fresh \ Members(c)) \cup {t \in Members(c) : again[t] # "idle"}
        /\ chunks' = (chunks \ {c}) \cup new
        /\ \A d \in new : d.id \notin firing'
        /\ firing' = firing \ {c.id}
        /\ value' = value
    BY <1>a DEF FireResult
  <1>2. \A d \in chunks : d # c => d.id # c.id /\ Members(d) \cap Members(c) = {}
    BY FiringFacts
  <1>3. c.id \in firing
    BY DEF Fire
  <1>4. Due' = Due \ Members(c)
    <2>1. ASSUME NEW t \in Due'
          PROVE  t \in Due \ Members(c)
      <3>1. PICK d \in chunks' : d.id \in firing' /\ t \in Members(d)
        BY <2>1 DEF Due, Members
      <3>2. d \in chunks /\ d # c /\ d.id \in firing
        BY <3>1, <1>1
      <3> QED
        BY <3>1, <3>2, <1>2 DEF Due
    <2>2. ASSUME NEW t \in Due, t \notin Members(c)
          PROVE  t \in Due'
      <3>1. PICK d \in chunks : d.id \in firing /\ t \in Members(d)
        BY <2>2 DEF Due
      <3>2. d # c
        BY <3>1, <2>2
      <3>3. d \in chunks' /\ d.id \in firing'
        BY <3>1, <3>2, <1>1, <1>2
      <3> QED
        BY <3>1, <3>3 DEF Due, Members
    <2> QED
      BY <2>1, <2>2
  <1>5. Members(c) \subseteq Due
    BY <1>3 DEF Due
  <1>6. Members(c) # {} /\ Members(c) \subseteq Tasks
    BY TypeFacts DEF EdgeInv, TypeInv
  <1>7. (phase = "halted")' = (phase = "halted")
    BY NothingDue
  <1>8. \E a \in [Members(c) -> Kinds \cup {"idle"}] :
          /\ want' = [t \in Tasks |-> IF t \in Members(c) THEN a[t] ELSE want[t]]
          /\ fresh' = (fresh \ Members(c)) \cup {t \in Members(c) : a[t] # "idle"}
    BY <1>1
  <1> QED
    BY <1>1, <1>4, <1>5, <1>6, <1>7, <1>8 DEF Abs!Resume

\* The initial states are initial states of the abstract specification.
LEMMA AbsInit ==
    ASSUME Init
    PROVE  Abs!Init
  <1>1. Due = {}
    BY DEF Init, Due
  <1>2. (phase = "halted") = FALSE
    BY DEF Init
  <1> QED
    BY <1>1, <1>2 DEF Init, Abs!Init

\* Every step is a step of the abstract specification or leaves it unchanged.
LEMMA AbsStep ==
    ASSUME EdgeInv, EdgeInv', [Next]_vars
    PROVE  [Abs!Next]_(Abs!vars)
  <1>1. CASE \E t \in Tasks, k \in Kinds : Await(t, k)
    BY <1>1, AbsAwait DEF Abs!Next
  <1>2. CASE Change
    BY <1>2, AbsChange DEF Abs!Next
  <1>3. CASE \E c \in chunks : Fire(c)
    BY <1>3, AbsFire DEF Abs!Next
  <1>4. CASE NextSimTime
    <2>1. /\ phase = "slot" /\ phase' = "register" /\ fresh' = {}
          /\ UNCHANGED <<value, want>>
      BY <1>4 DEF NextSimTime
    <2>2. Due = {} /\ Due' = {} /\ (phase = "halted")' = (phase = "halted")
      BY <2>1, NothingDue
    <2>3. Abs!NewSlot
      BY <2>1, <2>2 DEF Abs!NewSlot
    <2> QED
      BY <2>3 DEF Abs!Next
  <1>5. CASE Registered \/ \E k \in Kinds : RegisterChunk(k)
    <2>1. /\ phase = "register" /\ phase' # "change"
          /\ UNCHANGED <<value, want, fresh>>
      BY <1>5 DEF Registered, RegisterChunk
    <2>2. Due = {} /\ Due' = {} /\ (phase = "halted")' = (phase = "halted")
      BY <2>1, NothingDue
    <2> QED
      BY <2>1, <2>2 DEF Abs!vars
  <1>6. CASE UNCHANGED vars
    <2>1. Due' = Due
      BY <1>6 DEF vars, Due, Members
    <2>2. (phase = "halted")' = (phase = "halted")
      BY NothingDue
    <2> QED
      BY <2>1, <2>2, <1>6 DEF vars, Abs!vars
  <1> QED
    BY <1>1, <1>2, <1>3, <1>4, <1>5, <1>6 DEF Next, Machine

\* The callbacks of every build implement EdgeWaits, but for its fairness: a
\* value change resumes each task that has waited for that edge since an earlier
\* slot, once, and no task that does not wait for it.
THEOREM EdgeImplementsEdgeWaits ==
    ASSUME OneMergeChange
    PROVE  Spec => Abs!Init /\ [][Abs!Next]_(Abs!vars)
  <1>1. Init => Abs!Init
    BY AbsInit
  <1>2. EdgeInv /\ EdgeInv' /\ [Next]_vars => [Abs!Next]_(Abs!vars)
    BY AbsStep
  <1> QED
    BY <1>1, <1>2, EdgeInvariant, PTL DEF Spec
=============================================================================
