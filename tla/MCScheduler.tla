---------------------------- MODULE MCScheduler ----------------------------
(* Instances of Scheduler for TLC.  The sets of operations split the user
   code into the questions asked of the scheduler: tasks that start, wait,
   send, end and restart (EventOps), and tasks that fail, remove and restart
   one another and themselves, and remove and re-create the events that tasks
   wait for (RemoveOps).                                                  *)
EXTENDS Scheduler, TLC

EventOps == {"await_callback", "wait", "send", "append", "append_id", "later",
             "wakeup", "try_wakeup", "exit"}

RemoveOps == {"await_callback", "wait", "send", "append_id", "wakeup",
              "remove", "new_event", "renew_event", "remove_event", "error"}

\* Few operations, for the shortest histories of the violations
RewakeOps == {"wait", "send", "append_id"}
SkipOps   == {"await_callback", "append_id", "remove", "wakeup"}

\* No operation tells two event ids apart.
EventSymmetry == Permutations(Events)

\* task_event is read by remove_task only, and taken by no action: where no
\* task is removed, states that differ in nothing else behave alike.
WithoutRemoval == <<taskVars, co, removalVars, event_names, waiters, wakeVars,
                    curr_task, stack, cbs, outerVars, owed>>
=============================================================================
