--------------------------- MODULE MCWaveSession ---------------------------
(* Three waves: w2 is w1 dumped anew with another design, w3 another file of
   the age of w1.  top.a and top.u.a of w1 are one signal, top.b has its first
   value at the third time of w1, and top.u.a of w3 never has one.         *)
EXTENDS WaveSession

A == <<"top", "a">>
B == <<"top", "b">>
UA == <<"top", "u", "a">>

Scope(p, l, v) == [path |-> p, listed |-> l, vars |-> v]
Var(name, kind) == [name |-> name, kind |-> kind]
Change(idx, bits) == [idx |-> idx, bits |-> bits]
Refs(a, b, ua) == [n \in {A, B, UA} |-> IF n = A THEN a ELSE IF n = B THEN b ELSE ua]

MCNames == {A, B, UA}

MCContents ==
  [w1 |-> [path |-> "p1", time |-> 1, size |-> 1, table |-> <<1, 2, 4>>,
           refs |-> Refs(1, 2, 1),
           signals |-> <<<<Change(1, <<0>>), Change(3, <<1>>)>>,
                         <<Change(3, <<1, 0, 1, 1, 0, 1, 1>>)>>>>,
           modules |-> <<Scope(<<"$unit">>, FALSE, <<>>),
                         Scope(<<"top">>, TRUE, <<Var(A, "net"), Var(B, "reg")>>),
                         Scope(<<"top", "u">>, TRUE, <<Var(UA, "net")>>)>>],
   w2 |-> [path |-> "p1", time |-> 2, size |-> 1, table |-> <<1, 2>>,
           refs |-> [n \in {A, UA} |-> IF n = A THEN 2 ELSE 1],
           signals |-> <<<<Change(1, <<1, 1, 0>>)>>,
                         <<Change(1, <<1, 2, 0, 0, 1>>), Change(2, <<1, 0, 0, 1, 1>>)>>>>,
           modules |-> <<Scope(<<"top">>, TRUE, <<Var(A, "reg")>>),
                         Scope(<<"top", "u">>, TRUE, <<Var(UA, "memory")>>)>>],
   w3 |-> [path |-> "p2", time |-> 1, size |-> 2, table |-> <<2>>,
           refs |-> Refs(1, 1, 2),
           signals |-> <<<<Change(1, <<1, 0, 1, 1>>)>>, <<>>>>,
           modules |-> <<Scope(<<"top">>, TRUE,
                                <<Var(A, "net"), Var(B, "net")>>),
                         Scope(<<"top", "u">>, FALSE, <<Var(UA, "net")>>)>>]]
============================================================================
