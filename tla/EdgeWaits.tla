----------------------------- MODULE EdgeWaits -----------------------------
(* What await_posedge, await_negedge and await_edge promise for one signal: a
   value change resumes every task that waits for that edge since an earlier
   time slot, once, and no other task, except that a task that began to wait
   in this slot may be resumed or not.  EdgeCallbacks.tla is shown to implement
   this module.                                                            *)
CONSTANTS
    Tasks, Kinds,
    Matches(_, _)   \* Matches(k, v): a change to v is an edge of kind k

VARIABLES
    want,         \* want[t]: the edge that task t waits for, or "idle"
    fresh,        \* the tasks that began to wait in this time slot
    value,        \* the value of the signal
    due,          \* the tasks that the current value change is to resume
    halted        \* the process has panicked

vars == <<want, fresh, value, due, halted>>

Init ==
    /\ want = [t \in Tasks |-> "idle"]
    /\ fresh = {} /\ value = 0 /\ due = {} /\ halted = FALSE

Await(t) ==
    /\ want[t] = "idle"
    /\ \E k \in Kinds : want' = [want EXCEPT ![t] = k]
    /\ fresh' = fresh \cup {t}
    /\ UNCHANGED <<value, due, halted>>

Waiting(v) == {t \in Tasks : want[t] # "idle" /\ Matches(want[t], v)}

Change ==
    /\ due = {}
    /\ value' # value
    /\ Waiting(value') \ fresh \subseteq due' /\ due' \subseteq Waiting(value')
    /\ UNCHANGED <<want, fresh, halted>>

\* The tasks in ts are resumed; each of them may wait again at once.
Resume(ts) ==
    /\ ts # {} /\ ts \subseteq due
    /\ due' = due \ ts
    /\ \E again \in [ts -> Kinds \cup {"idle"}] :
         /\ want' = [t \in Tasks |-> IF t \in ts THEN again[t] ELSE want[t]]
         /\ fresh' = (fresh \ ts) \cup {t \in ts : again[t] # "idle"}
    /\ UNCHANGED <<value, halted>>

NewSlot ==
    /\ due = {} /\ fresh' = {}
    /\ UNCHANGED <<want, value, due, halted>>

Next ==
    \/ \E t \in Tasks : Await(t)
    \/ Change
    \/ \E ts \in SUBSET Tasks : Resume(ts)
    \/ NewSlot

\* A value change gets done with the tasks it resumes.
Spec == Init /\ [][Next]_vars /\ WF_vars(\E ts \in SUBSET Tasks : Resume(ts))
=============================================================================
