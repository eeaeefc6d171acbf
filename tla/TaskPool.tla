------------------------------ MODULE TaskPool ------------------------------
(***************************************************************************)
(* What the scheduler promises to the program that registers tasks.        *)
(*                                                                         *)
(* Every registered task starts once, after the data of the tasks it       *)
(* depends on is complete, and finishes.  The data of a task that passes   *)
(* it on to one of its subtasks (an alias) is complete when the subtask's  *)
(* is.  The pool closes once, and only when nothing registered is left to  *)
(* do.  Which worker runs what, queues, stealing and messages are not      *)
(* mentioned.  Scheduler.tla is shown to implement this.                   *)
(***************************************************************************)
CONSTANTS Tasks, Root, NoTask,
          ParentOf,   \* the task that registers a task
          DependsOn,  \* the tasks whose data a task waits for
          Alias       \* the subtask a task passes its data on to, or NoTask

VARIABLES status,    \* of each task
          complete,  \* the tasks whose data is complete
          closed     \* no more tasks are taken

poolVars == <<status, complete, closed>>

Init ==
  /\ status \in [Tasks -> {"unregistered", "registered", "running"}]
  /\ \A t \in Tasks \ {Root} : status[t] = "unregistered"
  /\ status[Root] # "unregistered"
  /\ complete = {}
  /\ closed = FALSE

Register(t) ==
  /\ ~closed
  /\ status[t] = "unregistered"
  /\ status[ParentOf[t]] = "running"
  /\ status' = [status EXCEPT ![t] = "registered"]
  /\ UNCHANGED <<complete, closed>>

Start(t) ==
  /\ status[t] = "registered"
  /\ DependsOn[t] \subseteq complete
  /\ status' = [status EXCEPT ![t] = "running"]
  /\ UNCHANGED <<complete, closed>>

\* A task that has finished registers nothing any more, and need not have
\* registered all that it might have.
Finish(t) ==
  /\ status[t] = "running"
  /\ status' = [status EXCEPT ![t] = "done"]
  /\ UNCHANGED <<complete, closed>>

Complete(t) ==
  /\ status[t] = "done"
  /\ t \notin complete
  /\ \/ Alias[t] = NoTask
     \/ status[Alias[t]] = "unregistered"
     \/ Alias[t] \in complete
  /\ complete' = complete \cup {t}
  /\ UNCHANGED <<status, closed>>

Close ==
  /\ ~closed
  /\ \A t \in Tasks : status[t] \notin {"registered", "running"}
  /\ closed' = TRUE
  /\ UNCHANGED <<status, complete>>

Next ==
  \/ \E t \in Tasks : Register(t) \/ Start(t) \/ Finish(t) \/ Complete(t)
  \/ Close

SafeSpec == Init /\ [][Next]_poolVars

Spec ==
  /\ SafeSpec
  /\ \A t \in Tasks : WF_poolVars(Start(t)) /\ WF_poolVars(Finish(t))
  /\ WF_poolVars(Close)
=============================================================================
