---------------------------- MODULE MCPutValue ----------------------------
(* Instances of PutValue for model checking.                               *)
EXTENDS PutValue, TLC

\* Handles are interchangeable; used where no liveness is checked.
HandleSymmetry == Permutations(Handles)
===========================================================================
