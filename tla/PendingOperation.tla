-------------------------- MODULE PendingOperation --------------------------
(***************************************************************************)
(* pending_operation.hpp: the object that waits for the dependencies of    *)
(* one task and then puts the task on a ready queue and deletes itself.    *)
(*                                                                         *)
(* The Creator builds the object and attaches it to every dependency; the  *)
(* dependencies are triggered by other threads meanwhile.  A dependency is *)
(* taken as the latch of Latch.tla (JoinCounter implements it): an action  *)
(* attached to it is run by the thread that triggers it, or at once by the *)
(* thread that attaches it late.  The object's own ready_event_ is taken   *)
(* at the grain of JoinCounter, with the references that keep it alive,    *)
(* because it is destroyed by the very action it triggers.                 *)
(***************************************************************************)
EXTENDS Naturals, Sequences, FiniteSets

CONSTANTS Threads,
          Creator,   \* the thread that calls make_pending_task
          Deps       \* the ready triggers the task depends on

ASSUME ThreadsAssumption == Creator \in Threads

\* The reference that the object itself has to its ready_event_, and the
\* dependency of a thread that runs no action of one.
CONSTANTS Self, NoDep

ASSUME NamesAssumption == Self \notin Deps /\ NoDep \notin Deps \cup {Self}

ASSUME DepsAssumption == IsFiniteSet(Deps)

VARIABLES opened,         \* the dependencies that are triggered
          todo,           \* the dependencies not looked at by the Creator yet
          waiting,        \* those that hold the object's action
          count,          \* ready_event_: count_
          triggered,      \* ready_event_: triggered_
          queued,         \* ready_event_: whether its queue has the enqueue action
          refs,           \* who has a shared_ptr to ready_event_
          pc,             \* the step a thread performs next; "crash" is the end
          resume,         \* the step the Creator goes on with after a decrement
          dep,            \* the dependency whose action a thread is running
          batch,          \* whether a thread took the enqueue action from the queue
          ready,          \* the queues the task was put on, in order
          pending_tasks   \* Runtime::pending_tasks

vars == <<opened, todo, waiting, count, triggered, queued, refs, pc, resume,
          dep, batch, ready, pending_tasks>>

Goto(t, label) == pc' = [pc EXCEPT ![t] = label]

\* ready_event_ has been destroyed.
Freed == refs = {}

Init ==
  /\ opened = {}
  /\ todo = Deps
  /\ waiting = {}
  /\ count = 1
  /\ triggered = FALSE
  /\ queued = FALSE
  /\ refs = {Self}
  /\ pc = [t \in Threads |-> IF t = Creator THEN "depend" ELSE "idle"]
  /\ resume = "depend"
  /\ dep = [t \in Threads |-> NoDep]
  /\ batch = [t \in Threads |-> FALSE]
  /\ ready = <<>>
  /\ pending_tasks = 0

-----------------------------------------------------------------------------
(* make_pending_task and add_dependency_on                                  *)

Increment(d) ==
  /\ pc[Creator] = "depend"
  /\ d \in todo
  /\ todo' = todo \ {d}
  /\ count' = count + 1
  /\ dep' = [dep EXCEPT ![Creator] = d]
  /\ Goto(Creator, "attach")
  /\ UNCHANGED <<opened, waiting, triggered, queued, refs, resume, batch, ready, pending_tasks>>

\* The lambda has a reference of its own; a triggered dependency runs it here.
AttachToDependency ==
  /\ pc[Creator] = "attach"
  /\ refs' = refs \cup {dep[Creator]}
  /\ \/ /\ dep[Creator] \in opened
        /\ Goto(Creator, "sub")
        /\ UNCHANGED <<dep, waiting>>
     \/ /\ dep[Creator] \notin opened
        /\ waiting' = waiting \cup {dep[Creator]}
        /\ dep' = [dep EXCEPT ![Creator] = NoDep]
        /\ Goto(Creator, "depend")
  /\ UNCHANGED <<opened, todo, count, triggered, queued, resume, batch, ready, pending_tasks>>

\* Gives back the "setup dependency" of the constructor.
MakeReady ==
  /\ pc[Creator] = "depend"
  /\ todo = {}
  /\ Goto(Creator, "make_ready")
  /\ resume' = "enqueue"
  /\ UNCHANGED <<opened, todo, waiting, count, triggered, queued, refs, dep, batch, ready,
                 pending_tasks>>

-----------------------------------------------------------------------------
(* The action attached to a dependency, run by the thread that triggers it  *)

TriggerDependency(t, d) ==
  /\ pc[t] = "idle"
  /\ d \notin opened
  /\ opened' = opened \cup {d}
  /\ waiting' = waiting \ {d}
  /\ \/ /\ d \in waiting
        /\ dep' = [dep EXCEPT ![t] = d]
        /\ Goto(t, "sub")
     \/ /\ d \notin waiting
        /\ UNCHANGED <<pc, dep>>
  /\ UNCHANGED <<todo, count, triggered, queued, refs, resume, batch, ready, pending_tasks>>

\* Mutant: compares the count from before with 2.
DecrementEarly(t) ==
  /\ pc[t] \in {"sub", "make_ready"}
  /\ count' = count - 1
  /\ Goto(t, IF count = 2 THEN "store" ELSE "drop")
  /\ UNCHANGED <<opened, todo, waiting, triggered, queued, refs, dep, resume, batch, ready,
                 pending_tasks>>

\* ready_event_->decrement_count(), of the object (make_ready) or of a lambda.
Decrement(t) ==
  /\ pc[t] \in {"sub", "make_ready"}
  /\ count' = count - 1
  /\ Goto(t, IF count = 1 THEN "store" ELSE "drop")
  /\ UNCHANGED <<opened, todo, waiting, triggered, queued, refs, dep, resume, batch, ready,
                 pending_tasks>>

StoreTriggered(t) ==
  /\ pc[t] = "store"
  /\ triggered' = TRUE
  /\ Goto(t, "exchange")
  /\ UNCHANGED <<opened, todo, waiting, count, queued, refs, dep, resume, batch, ready, pending_tasks>>

Exchange(t) ==
  /\ pc[t] = "exchange"
  /\ ~Freed
  /\ batch' = [batch EXCEPT ![t] = queued]
  /\ queued' = FALSE
  /\ Goto(t, "consume")
  /\ UNCHANGED <<opened, todo, waiting, count, triggered, refs, dep, resume, ready, pending_tasks>>

\* Mutant: pending_tasks is not given back.
RunEnqueueKeepsCounter(t) ==
  /\ ready' = Append(ready, t)
  /\ refs' = refs \ {Self}
  /\ UNCHANGED pending_tasks

\* The enqueue action: onto the queue of the thread that runs it, whatever
\* worker was asked for; then the object deletes itself.
RunEnqueue(t) ==
  /\ ready' = Append(ready, t)
  /\ pending_tasks' = pending_tasks - 1
  /\ refs' = refs \ {Self}

Consume(t) ==
  /\ pc[t] = "consume"
  /\ Goto(t, "drop")
  /\ batch' = [batch EXCEPT ![t] = FALSE]
  /\ \/ batch[t] /\ RunEnqueue(t)
     \/ ~batch[t] /\ UNCHANGED <<ready, pending_tasks, refs>>
  /\ UNCHANGED <<opened, todo, waiting, count, triggered, queued, resume, dep>>

\* The lambda is destroyed after it has run.
Drop(t) ==
  /\ pc[t] = "drop"
  /\ refs' = refs \ {dep[t]}
  /\ dep' = [dep EXCEPT ![t] = NoDep]
  /\ Goto(t, IF t = Creator THEN resume ELSE "idle")
  /\ UNCHANGED <<opened, todo, waiting, count, triggered, queued, resume, batch, ready, pending_tasks>>

-----------------------------------------------------------------------------
(* enqueue_or_run: max_task_depth is 0, so the task never runs on the stack *)

Enqueue ==
  /\ pc[Creator] = "enqueue"
  /\ pending_tasks' = pending_tasks + 1
  /\ Goto(Creator, "load")
  /\ UNCHANGED <<opened, todo, waiting, count, triggered, queued, refs, resume, dep, batch,
                 ready>>

LoadTriggered ==
  /\ pc[Creator] = "load"
  /\ Goto(Creator, IF triggered THEN "run" ELSE "emplace")
  /\ UNCHANGED <<opened, todo, waiting, count, triggered, queued, refs, resume, dep, batch,
                 ready, pending_tasks>>

RunNow ==
  /\ pc[Creator] = "run"
  /\ RunEnqueue(Creator)
  /\ Goto(Creator, "done")
  /\ UNCHANGED <<opened, todo, waiting, count, triggered, queued, resume, dep, batch>>

Emplace ==
  /\ pc[Creator] = "emplace"
  /\ queued' = TRUE
  /\ Goto(Creator, "reload")
  /\ UNCHANGED <<opened, todo, waiting, count, triggered, refs, resume, dep, batch, ready,
                 pending_tasks>>

\* Mutant: the second load is left out.
ReloadNothing ==
  /\ pc[Creator] = "reload"
  /\ ~Freed
  /\ resume' = "done"
  /\ Goto(Creator, "done")
  /\ UNCHANGED <<opened, todo, waiting, count, triggered, queued, refs, dep, batch, ready,
                 pending_tasks>>

\* Mutant: a late trigger runs the action here, though it is in the queue too.
ReloadRuns ==
  /\ pc[Creator] = "reload"
  /\ ~Freed
  /\ resume' = "done"
  /\ Goto(Creator, IF triggered THEN "run" ELSE "done")
  /\ UNCHANGED <<opened, todo, waiting, count, triggered, queued, refs, dep, batch, ready,
                 pending_tasks>>

\* The second load of attach_or_do_action.
ReloadTriggered ==
  /\ pc[Creator] = "reload"
  /\ ~Freed
  /\ resume' = "done"
  /\ Goto(Creator, IF triggered THEN "exchange" ELSE "done")
  /\ UNCHANGED <<opened, todo, waiting, count, triggered, queued, refs, dep, batch, ready,
                 pending_tasks>>

\* The event is gone: the load or the exchange works on freed memory, which
\* reads as a flag that is not set, as an empty queue, or ends the process.
UseFreed ==
  /\ pc[Creator] \in {"reload", "exchange"}
  /\ Freed
  /\ \E outcome \in {"done", "crash"} : Goto(Creator, outcome)
  /\ UNCHANGED <<opened, todo, waiting, count, triggered, queued, refs, resume, dep, batch,
                 ready, pending_tasks>>

-----------------------------------------------------------------------------
CreatorStep ==
  \/ \E d \in Deps : Increment(d)
  \/ AttachToDependency \/ MakeReady
  \/ Enqueue \/ LoadTriggered \/ RunNow \/ Emplace \/ ReloadTriggered \/ UseFreed

\* The steps of decrement_count, by whichever thread runs it.
DecrementStep(t) ==
  Decrement(t) \/ StoreTriggered(t) \/ Exchange(t) \/ Consume(t) \/ Drop(t)

Next ==
  \/ CreatorStep
  \/ \E t \in Threads : DecrementStep(t)
  \/ \E t \in Threads \ {Creator}, d \in Deps : TriggerDependency(t, d)

\* Threads go on with what they began, and every dependency is triggered by
\* some thread in the end.
Spec ==
  /\ Init /\ [][Next]_vars
  /\ WF_vars(CreatorStep)
  /\ \A t \in Threads : WF_vars(DecrementStep(t))
  /\ \A d \in Deps : WF_vars(\E t \in Threads \ {Creator} : TriggerDependency(t, d))

-----------------------------------------------------------------------------
\* The task reaches a ready queue only when all of its dependencies are
\* triggered, however early they are and whoever runs the last decrement.
EnqueuedAfterDeps == ready # <<>> => opened = Deps

\* It reaches one queue, once: the inline path, the triggering thread and the
\* Creator's late drain never both enqueue it (the object is deleted once).
EnqueuedOnce == Len(ready) <= 1

\* pending_tasks counts the task from enqueue_or_run until it is on a queue.
PendingTasksCounts ==
  LET announced == resume = "done" \/ pc[Creator] \in {"load", "run", "emplace", "reload", "done"}
  IN  pending_tasks = IF announced /\ ready = <<>> THEN 1 ELSE 0

\* Once all dependencies are triggered, the task is put on a queue.
EventuallyEnqueued == opened = Deps ~> ready # <<>>

\* No thread touches ready_event_ after the object has deleted itself and the
\* last lambda is gone (pending_task.cpp:243 asks for exactly that).
NoUseAfterFree == ~(Freed /\ pc[Creator] \in {"reload", "exchange"})
=============================================================================
