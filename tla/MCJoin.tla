------------------------------- MODULE MCJoin -------------------------------
(* Instances of Join for TLC. *)
EXTENDS Join, TLC

JoinOps == {"await_callback", "wait", "send", "append"}

\* No operation tells two handles apart.
HandleSymmetry == Permutations(Handles)

\* task_event is read by remove_task only, owed and taken by no action.
View == <<taskVars, co, removalVars, event_names, waiters, wakeVars, curr_task,
          stack, cbs, outerVars, joinVars>>
=============================================================================
