------------------------------- MODULE Lists -------------------------------
(* Parts of a list, defined without recursion so that they can be proved about. *)
EXTENDS Naturals, Sequences, FiniteSets

IsList(s) == s \in Seq({s[i] : i \in DOMAIN s})

\* The elements of s at the indices in I, in the order of s: the i-th of them is
\* at the index of rank i.
AtIndices(s, I) ==
    LET Rank(j) == Cardinality({l \in I : l <= j})
    IN  [i \in 1 .. Cardinality(I) |-> s[CHOOSE j \in I : Rank(j) = i]]

\* The elements of s that are in S
Restricted(s, S) == AtIndices(s, {j \in DOMAIN s : s[j] \in S})
============================================================================
