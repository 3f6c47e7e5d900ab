---------------------------- MODULE PostedWrites ----------------------------
(* What libverilua promises about values written to HDL signals: a signal has
   at most one posted write, the last one accepted; a posted write is committed
   once, unless it is withdrawn first; and it is committed eventually, unless
   the process ends.  PutValue.tla is shown to implement this module.       *)
EXTENDS Naturals

CONSTANTS
    Handles,      \* signals
    Values        \* values a signal can have

VARIABLES
    hdl,          \* hdl[h]: the value put last on signal h
    posted,       \* posted[h]: the write that is waiting, or NoWrite
    calls,        \* the calls of setters by test code in this time slot
    halted        \* the process has panicked

vars == <<hdl, posted, calls, halted>>

NoWrite == [flag |-> "None"]

Writes == [flag : {"Set", "Force", "Release"}, value : Values]

\* vpi_put_value: a release passes the current value, it drives nothing new.
Drive(old, flag, v) == IF flag = "Release" THEN old ELSE v

Init ==
    /\ hdl \in [Handles -> Values]
    /\ posted = [h \in Handles |-> NoWrite]
    /\ calls = 0
    /\ halted = FALSE

\* A write replaces the one posted before; a posted force is not replaced by a
\* plain set.
Post(h) ==
    /\ calls' = calls + 1
    /\ \E w \in Writes :
         posted' = IF posted[h].flag = "Force" /\ w.flag = "Set" THEN posted
                   ELSE [posted EXCEPT ![h] = w]
    /\ UNCHANGED <<hdl, halted>>

Commit(h) ==
    /\ ~ halted /\ posted[h] # NoWrite
    /\ hdl' = [hdl EXCEPT ![h] = Drive(@, posted[h].flag, posted[h].value)]
    /\ posted' = [posted EXCEPT ![h] = NoWrite]
    /\ UNCHANGED <<calls, halted>>

\* An immediate write drives the signal at once.  A handle has one buffer for
\* vector values, so the value of a posted write can change with it.
Immediate(h) ==
    /\ calls' = calls + 1
    /\ \E flag \in {"Set", "Force"}, v \in Values :
         /\ hdl' = [hdl EXCEPT ![h] = Drive(@, flag, v)]
         /\ \/ UNCHANGED posted
            \/ posted[h] # NoWrite /\ posted' = [posted EXCEPT ![h].value = v]
    /\ UNCHANGED halted

\* An immediate release withdraws the posted write.
Withdraw(h) ==
    /\ calls' = calls + 1
    /\ posted' = [posted EXCEPT ![h] = NoWrite]
    /\ UNCHANGED <<hdl, halted>>

NewSlot ==
    /\ calls' = 0
    /\ UNCHANGED <<hdl, posted, halted>>

Halt ==
    /\ halted' = TRUE
    /\ UNCHANGED <<hdl, posted, calls>>

Next ==
    \/ \E h \in Handles : Post(h) \/ Commit(h) \/ Immediate(h) \/ Withdraw(h)
    \/ NewSlot \/ Halt

Spec ==
    /\ Init /\ [][Next]_vars
    /\ \A h \in Handles : WF_vars(Commit(h))
=============================================================================
