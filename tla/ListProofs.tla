----------------------------- MODULE ListProofs -----------------------------
(* Facts about Lists.tla and the natural numbers that the other proofs use. The
   least counterexample of LeastNat stands in for induction: the library's
   induction theorems take the induction formula as an operator.            *)
EXTENDS Lists, TLAPS, FiniteSetTheorems, SequenceTheorems

Less == {ss \in Nat \X Nat : ss[1] < ss[2]}

\* A non-empty set of natural numbers has a least element.
LEMMA LeastNat ==
    ASSUME NEW T \in SUBSET Nat, T # {}
    PROVE  \E n \in T : \A m \in T : n <= m
  <1>1. IsWellFoundedOn(Less, Nat)
    BY NatLessThanWellFounded DEF OpToRel, Less
  <1>2. \E x \in T : \A y \in T : ~ (<<y, x>> \in Less)
    BY <1>1, WFMin
  <1>3. PICK x \in T : \A y \in T : ~ (<<y, x>> \in Less)
    BY <1>2
  <1>4. \A y \in T : ~ (y < x)
    BY <1>3 DEF Less
  <1> QED
    BY <1>4

\* A set that holds 0, and i if it holds i - 1, holds all numbers up to n.
LEMMA UpTo ==
    ASSUME NEW n \in Nat, NEW S, 0 \in S,
           \A i \in 1 .. n : i - 1 \in S => i \in S
    PROVE  \A i \in 0 .. n : i \in S
  <1> DEFINE T == {i \in 0 .. n : i \notin S}
  <1> SUFFICES ASSUME T # {}
               PROVE  FALSE
    OBVIOUS
  <1>1. T \in SUBSET Nat
    OBVIOUS
  <1>2. PICK i \in T : \A m \in T : i <= m
    BY <1>1, LeastNat
  <1>3. i \in 1 .. n
    OBVIOUS
  <1>4. i - 1 \notin T /\ i - 1 \in 0 .. n
    BY <1>2, <1>3
  <1> QED
    BY <1>3, <1>4

\* The index of rank i is unique and exists: ranks are an injection of the
\* indices into as many numbers.
LEMMA RankFacts ==
    ASSUME NEW n \in Nat, NEW I \in SUBSET (1 .. n)
    PROVE  LET Rank(j) == Cardinality({l \in I : l <= j})
           IN  /\ IsFiniteSet(I) /\ Cardinality(I) \in Nat
               /\ \A j \in I : Rank(j) \in 1 .. Cardinality(I)
               /\ \A j, m \in I : Rank(j) = Rank(m) => j = m
               /\ \A i \in 1 .. Cardinality(I) : \E j \in I : Rank(j) = i
  <1> DEFINE Low(j) == {l \in I : l <= j}
             Rank(j) == Cardinality(Low(j))
             N == Cardinality(I)
             f == [j \in I |-> Rank(j)]
  <1>1. IsFiniteSet(I) /\ N \in Nat
    <2>1. IsFiniteSet(1 .. n)
      BY FS_Interval
    <2>2. IsFiniteSet(I)
      BY <2>1, FS_Subset
    <2> QED
      BY <2>2, FS_CardinalityType
  <1>2. \A j \in I : IsFiniteSet(Low(j)) /\ Rank(j) \in Nat /\ Rank(j) <= N
    <2> TAKE j \in I
    <2>1. Low(j) \in SUBSET I
      OBVIOUS
    <2>2. IsFiniteSet(Low(j)) /\ Cardinality(Low(j)) <= Cardinality(I)
      BY <2>1, <1>1, FS_Subset
    <2> QED
      BY <2>2, FS_CardinalityType
  <1>3. \A j \in I : Rank(j) \in 1 .. N
    <2> TAKE j \in I
    <2>1. Low(j) # {}
      <3>1. j \in Low(j)
        OBVIOUS
      <3> QED
        BY <3>1
    <2>2. Rank(j) # 0
      BY <2>1, <1>2, FS_EmptySet
    <2> QED
      BY <2>2, <1>2, <1>1
  <1>4. \A j, m \in I : Rank(j) = Rank(m) => j <= m
    <2> SUFFICES ASSUME NEW j \in I, NEW m \in I, Rank(j) = Rank(m), ~(j <= m)
                 PROVE  FALSE
      OBVIOUS
    <2>0. j \in Int /\ m \in Int /\ m <= j /\ \A l \in I : l \in Int
      OBVIOUS
    <2>1. Low(m) \in SUBSET Low(j)
      <3> SUFFICES ASSUME NEW l \in I, l <= m
                   PROVE  l <= j
        OBVIOUS
      <3> QED
        BY <2>0
    <2>2. Low(j) = Low(m)
      BY <2>1, <1>2, FS_Subset
    <2>3. j \in Low(j)
      OBVIOUS
    <2>4. j \notin Low(m)
      OBVIOUS
    <2> QED
      BY <2>2, <2>3, <2>4
  <1>5. \A j, m \in I : Rank(j) = Rank(m) => j = m
    <2> HIDE DEF Rank
    <2> QED
      BY <1>4
  <1>6. f \in Injection(I, 1 .. N)
    <2>1. f \in [I -> 1 .. N]
      BY <1>3
    <2>2. \A j, m \in I : f[j] = f[m] => j = m
      BY <1>5
    <2> HIDE DEF f
    <2> QED
      BY <2>1, <2>2 DEF Injection, IsInjective
  <1>7. f \in Surjection(I, 1 .. N)
    <2>1. IsFiniteSet(1 .. N) /\ Cardinality(1 .. N) = N
      BY <1>1, FS_Interval
    <2> HIDE DEF f, N
    <2> QED
      BY <2>1, <1>6, FS_Injection DEF N
  <1>8. \A i \in 1 .. N : \E j \in I : f[j] = i
    BY <1>7 DEF Surjection
  <1>9. \A i \in 1 .. N : \E j \in I : Rank(j) = i
    BY <1>8
  <1> QED
    BY <1>1, <1>3, <1>5, <1>9

\* The elements at the indices I, in order: each of them, and nothing else.
LEMMA AtIndicesFacts ==
    ASSUME NEW s, NEW n \in Nat, NEW I \in SUBSET (1 .. n)
    PROVE  /\ Cardinality(I) \in Nat
           /\ DOMAIN AtIndices(s, I) = 1 .. Cardinality(I)
           /\ \A i \in 1 .. Cardinality(I) : \E j \in I : AtIndices(s, I)[i] = s[j]
           /\ \A j \in I : \E i \in 1 .. Cardinality(I) : AtIndices(s, I)[i] = s[j]
  <1> DEFINE Rank(j) == Cardinality({l \in I : l <= j})
             N == Cardinality(I)
             At(i) == CHOOSE j \in I : Rank(j) = i
             r == [i \in 1 .. N |-> s[At(i)]]
  <1>1. /\ N \in Nat
        /\ \A j \in I : Rank(j) \in 1 .. N
        /\ \A j, m \in I : Rank(j) = Rank(m) => j = m
        /\ \A i \in 1 .. N : \E j \in I : Rank(j) = i
    BY RankFacts
  <1>2. AtIndices(s, I) = r
    BY DEF AtIndices
  <1> HIDE DEF Rank, N
  <1>3. \A i \in 1 .. N : At(i) \in I /\ Rank(At(i)) = i
    BY <1>1
  <1>4. \A j \in I : At(Rank(j)) = j
    BY <1>1, <1>3
  <1> HIDE DEF At
  <1>5. DOMAIN r = 1 .. N /\ \A i \in 1 .. N : r[i] = s[At(i)]
    OBVIOUS
  <1> HIDE DEF r
  <1>6. \A i \in 1 .. N : \E j \in I : r[i] = s[j]
    BY <1>3, <1>5
  <1>7. \A j \in I : \E i \in 1 .. N : r[i] = s[j]
    BY <1>1, <1>4, <1>5
  <1> QED
    BY <1>1, <1>2, <1>5, <1>6, <1>7 DEF N
=============================================================================
