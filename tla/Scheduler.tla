----------------------------- MODULE Scheduler -----------------------------
(***************************************************************************)
(* runtime/runtime.cpp, runtime_instance.hpp, worker/worker_threads.cpp,    *)
(* worker/work_stealing_random.cpp and ready_operation.cpp: workers that    *)
(* run ready operations from their own queue or steal them, the tasks these *)
(* register, and the shutdown counter that ends it all.                     *)
(*                                                                          *)
(* A task's dependencies are the ready triggers of flows.  Each task has    *)
(* one here, its out flow: ready once the task has released it and, if the  *)
(* task passed its data on to a subtask (an alias, flow/aliasing_strategy), *)
(* once the subtask's is ready and a callable operation has seen to it.     *)
(* Triggers behave as Latch.tla and registration as PendingOperation.tla:   *)
(* the thread that satisfies the last dependency puts the operation on the  *)
(* queue of its own worker, whatever worker was asked for.                  *)
(***************************************************************************)
EXTENDS Naturals, Sequences, FiniteSets

CONSTANTS NWorkers,     \* nthreads_
          Tasks, Root, NoTask,
          ParentOf,     \* the task that registers a task
          Collections,  \* the sets of tasks registered by one register_task_collection
          DependsOn,    \* of a task: those whose out flows it waits for
          Alias         \* of a task: the subtask its out flow is aliased to, or NoTask

Subtasks(t) == {c \in Tasks \ {Root} : ParentOf[c] = t}

ASSUME ProgramAssumption ==
  /\ NWorkers \in Nat \ {0}
  /\ IsFiniteSet(Tasks) /\ Root \in Tasks /\ NoTask \notin Tasks
  /\ ParentOf \in [Tasks -> Tasks]
  /\ DependsOn \in [Tasks -> SUBSET Tasks]
  /\ \A t \in Tasks : \A d \in DependsOn[t] : ParentOf[d] = ParentOf[t]
  /\ DependsOn[Root] = {}
  /\ Alias \in [Tasks -> Tasks \cup {NoTask}]
  /\ \A t \in Tasks : Alias[t] # NoTask => Alias[t] \in Subtasks(t)
  /\ Collections \subseteq SUBSET (Tasks \ {Root})

Workers == 0..(NWorkers - 1)
Main == 0   \* the worker that the program's main thread is

TaskOp(t) == [kind |-> "task", task |-> t]
AliasOp(t) == [kind |-> "alias", task |-> t]
JoinOp == [kind |-> "join", task |-> NoTask]
AllTasksDone == [kind |-> "all_tasks_done", task |-> NoTask]

Pendable == {TaskOp(t) : t \in Tasks} \cup {AliasOp(t) : t \in Tasks}
Operations == Pendable \cup {JoinOp, AllTasksDone}

VARIABLES ready_tasks,       \* of a worker: its queue of ready operations
          shutdown_counter,  \* Runtime::shutdown_counter
          status,            \* where a task is in its life
          need,              \* of a pending operation: the out flows it still waits for
          out_count,         \* of a task: the count of its out flow's ready trigger
          pc,                \* the step a worker performs next
          op,                \* the operation a worker runs
          notify,            \* the pending operations a worker must tell of a ready flow
          collecting,        \* whether a worker is in register_task_collection
          indices,           \* and the indices left to register there
          spawned,           \* how many workers have a thread
          sent,              \* how many workers were sent AllTasksDone
          quiesced,          \* whether the quiescence callbacks have been called
          region             \* with_active_runtime_instance, or the top-level instance

vars == <<ready_tasks, shutdown_counter, status, need, out_count, pc, op, notify,
          collecting, indices, spawned, sent, quiesced, region>>

queueVars == <<ready_tasks, need>>
taskVars == <<status, out_count, notify>>
collectionVars == <<collecting, indices>>
shutdownVars == <<spawned, sent, quiesced, region>>

Goto(w, label) == pc' = [pc EXCEPT ![w] = label]

\* The main thread has the other workers to spawn before it runs its own loop.
Resume(w) == IF w = Main /\ spawned < NWorkers THEN "spawn" ELSE "loop"

\* decrement_count of shutdown_counter; the last one runs the shutdown action.
DecrementShutdown(w, next) ==
  /\ shutdown_counter' = shutdown_counter - 1
  /\ Goto(w, IF shutdown_counter = 1 THEN "shutdown" ELSE next)

\* with_active_runtime_instance: the caller's thread runs the callback, as the
\* root task, before it runs the work loop of worker 0.
RunsCallback(w) == w = Main /\ region

Init ==
  /\ region \in BOOLEAN
  /\ ready_tasks = [w \in Workers |->
                      IF w = Main /\ ~region THEN <<TaskOp(Root)>> ELSE <<>>]
  /\ shutdown_counter = 1
  /\ status = [t \in Tasks |-> IF t # Root THEN "unregistered"
                               ELSE IF region THEN "running" ELSE "registered"]
  /\ need = [o \in Pendable |-> {}]
  /\ out_count = [t \in Tasks |-> 1]
  /\ pc = [w \in Workers |-> IF RunsCallback(w) THEN "task"
                             ELSE IF w = Main THEN "spawn" ELSE "unborn"]
  /\ op = [w \in Workers |-> IF RunsCallback(w) THEN TaskOp(Root) ELSE JoinOp]
  /\ notify = [w \in Workers |-> {}]
  /\ collecting = [w \in Workers |-> FALSE]
  /\ indices = [w \in Workers |-> {}]
  /\ spawned = 1
  /\ sent = 0
  /\ quiesced = FALSE

-----------------------------------------------------------------------------
(* spin_up_worker_threads, run_work_loop and run_operation                  *)

Spawn ==
  /\ pc[Main] = "spawn"
  /\ spawned < NWorkers
  /\ spawned' = spawned + 1
  /\ pc' = [pc EXCEPT ![spawned] = "loop"]
  /\ UNCHANGED <<queueVars, shutdown_counter, taskVars, op, collectionVars, sent, quiesced, region>>

\* Worker 0 has no thread of its own: the main thread runs its loop.
RunMainLoop ==
  /\ pc[Main] = "spawn"
  /\ spawned = NWorkers
  /\ Goto(Main, "loop")
  /\ UNCHANGED <<queueVars, shutdown_counter, taskVars, op, collectionVars, shutdownVars>>

\* What run_operation does with an operation that was taken from a queue.
Begin(w, o) ==
  /\ op' = [op EXCEPT ![w] = o]
  /\ Goto(w, o.kind)
  /\ status' = IF o.kind = "task" THEN [status EXCEPT ![o.task] = "running"] ELSE status

Pop(w) ==
  /\ pc[w] = "loop"
  /\ ready_tasks[w] # <<>>
  /\ Begin(w, Head(ready_tasks[w]))
  /\ ready_tasks' = [ready_tasks EXCEPT ![w] = Tail(@)]
  /\ UNCHANGED <<shutdown_counter, need, out_count, notify, collectionVars, shutdownVars>>

PopFails(w) ==
  /\ pc[w] = "loop"
  /\ ready_tasks[w] = <<>>
  /\ Goto(w, "steal")
  /\ UNCHANGED <<queueVars, shutdown_counter, taskVars, op, collectionVars, shutdownVars>>

\* Mutant: a special message can be stolen like any other operation.
StealableAnything(o) == TRUE

\* is_stealable of the kinds of ready operation.
Stealable(o) == o.kind \in {"task", "alias"}

\* Mutant: the operation is looked at and not taken out of the queue.
StealCopies(w, victim) ==
  /\ pc[w] = "steal"
  /\ IF ready_tasks[victim] # <<>> /\ Stealable(Head(ready_tasks[victim]))
       THEN Begin(w, Head(ready_tasks[victim]))
       ELSE Goto(w, "loop") /\ UNCHANGED <<op, status>>
  /\ UNCHANGED <<queueVars, shutdown_counter, out_count, notify, collectionVars, shutdownVars>>

\* The victim is drawn at random and may be the worker itself; only the head
\* of its queue is looked at.  What a stolen operation returns is not looked
\* at, so a stolen message would not end the loop.
Steal(w, victim) ==
  /\ pc[w] = "steal"
  /\ IF ready_tasks[victim] # <<>> /\ Stealable(Head(ready_tasks[victim]))
       THEN /\ Begin(w, Head(ready_tasks[victim]))
            /\ ready_tasks' = [ready_tasks EXCEPT ![victim] = Tail(@)]
       ELSE /\ Goto(w, "loop")
            /\ UNCHANGED <<op, status, ready_tasks>>
  /\ UNCHANGED <<shutdown_counter, need, out_count, notify, collectionVars, shutdownVars>>

-----------------------------------------------------------------------------
(* A task registers subtasks: register_task and register_task_collection    *)

\* make_pending_task and when_ready_do: on this worker's queue if nothing is
\* left to wait for, or pending.
Enqueue(w, o) == ready_tasks' = [ready_tasks EXCEPT ![w] = Append(@, o)]

MakePending(w, o, flows) ==
  LET unmet == {d \in flows : out_count[d] # 0}
  IN  IF unmet = {} THEN Enqueue(w, o) /\ UNCHANGED need
                    ELSE need' = [need EXCEPT ![o] = unmet] /\ UNCHANGED ready_tasks

\* A task captures the flows of siblings that the program registered before.
CanRegister(w, t) ==
  /\ pc[w] = "task"
  /\ t \in Subtasks(op[w].task)
  /\ status[t] = "unregistered"
  /\ \A d \in DependsOn[t] : status[d] # "unregistered"

\* Mutant: the task is not counted.
RegisterUncounted(w, t) ==
  /\ CanRegister(w, t)
  /\ status' = [status EXCEPT ![t] = "registered"]
  /\ MakePending(w, TaskOp(t), DependsOn[t])
  /\ UNCHANGED <<shutdown_counter, out_count, pc, op, notify, shutdownVars>>

\* register_task, and what register_task_collection does for one index.
Register(w, t) ==
  /\ CanRegister(w, t)
  /\ shutdown_counter' = shutdown_counter + 1
  /\ status' = [status EXCEPT ![t] = "registered"]
  /\ MakePending(w, TaskOp(t), DependsOn[t])
  /\ UNCHANGED <<out_count, pc, op, notify, shutdownVars>>

RegisterTask(w, t) ==
  /\ ~collecting[w]
  /\ \A C \in Collections : t \notin C
  /\ Register(w, t)
  /\ UNCHANGED collectionVars

\* Mutant: nothing keeps the workers from shutting down meanwhile.
BeginCollectionUncounted(w, C) ==
  /\ pc[w] = "task"
  /\ ~collecting[w]
  /\ \A t \in C : CanRegister(w, t)
  /\ collecting' = [collecting EXCEPT ![w] = TRUE]
  /\ indices' = [indices EXCEPT ![w] = C]
  /\ UNCHANGED <<queueVars, shutdown_counter, taskVars, pc, op, shutdownVars>>

BeginCollection(w, C) ==
  /\ pc[w] = "task"
  /\ ~collecting[w]
  /\ \A t \in C : CanRegister(w, t)
  /\ shutdown_counter' = shutdown_counter + 1
  /\ collecting' = [collecting EXCEPT ![w] = TRUE]
  /\ indices' = [indices EXCEPT ![w] = C]
  /\ UNCHANGED <<queueVars, taskVars, pc, op, shutdownVars>>

RegisterIndex(w, t) ==
  /\ collecting[w]
  /\ t \in indices[w]
  /\ Register(w, t)
  /\ indices' = [indices EXCEPT ![w] = @ \ {t}]
  /\ UNCHANGED collecting

EndCollection(w) ==
  /\ collecting[w]
  /\ indices[w] = {}
  /\ collecting' = [collecting EXCEPT ![w] = FALSE]
  /\ DecrementShutdown(w, "task")
  /\ UNCHANGED <<queueVars, taskVars, op, indices, shutdownVars>>

-----------------------------------------------------------------------------
(* The end of a task: its uses are released, then the shutdown counter      *)

\* The task passed its data on to a subtask that it did register.
Aliased(t) == Alias[t] # NoTask /\ status[Alias[t]] # "unregistered"

\* WorkQueueAppend::establish_alias, the first thing release_use does: the out
\* flow of the task waits for that of the subtask, by way of a callable.  What
\* a task registers depends on its data: it may end without some subtasks.
Finish(w) ==
  LET t == op[w].task IN
  /\ pc[w] = "task"
  /\ ~collecting[w]
  /\ status' = [status EXCEPT ![t] = "done"]
  /\ IF ~Aliased(t)
       THEN UNCHANGED <<out_count, queueVars>>
       ELSE /\ out_count' = [out_count EXCEPT ![t] = @ + 1]
            /\ MakePending(w, AliasOp(t), {Alias[t]})
  /\ Goto(w, "release")
  /\ UNCHANGED <<shutdown_counter, op, notify, collectionVars, shutdownVars>>

\* One unit of the ready trigger of t's out flow is given back; the last one
\* makes it ready, and this worker tells the operations that wait for it.
DecrementOut(w, t, next) ==
  /\ out_count' = [out_count EXCEPT ![t] = @ - 1]
  /\ IF out_count[t] = 1
       THEN /\ notify' = [notify EXCEPT ![w] = {o \in Pendable : t \in need[o]}]
            /\ Goto(w, "notify")
       ELSE Goto(w, next) /\ UNCHANGED notify

ReleaseOut(w) ==
  /\ pc[w] = "release"
  /\ DecrementOut(w, op[w].task, "retire")
  /\ UNCHANGED <<queueVars, shutdown_counter, status, op, collectionVars, shutdownVars>>

\* The callable operation that establish_alias made.
RunAlias(w) ==
  /\ pc[w] = "alias"
  /\ DecrementOut(w, op[w].task, Resume(w))
  /\ UNCHANGED <<queueVars, shutdown_counter, status, op, collectionVars, shutdownVars>>

\* Mutant: the first dependency that is satisfied puts the operation on a queue.
NotifyAtFirst(w, o) ==
  /\ pc[w] = "notify"
  /\ o \in notify[w]
  /\ notify' = [notify EXCEPT ![w] = @ \ {o}]
  /\ need' = [need EXCEPT ![o] = {}]
  /\ Enqueue(w, o)
  /\ UNCHANGED <<shutdown_counter, status, out_count, pc, op, collectionVars, shutdownVars>>

\* One action of the trigger: a dependency less, and onto the queue if it was
\* the last.
Notify(w, o) ==
  /\ pc[w] = "notify"
  /\ o \in notify[w]
  /\ notify' = [notify EXCEPT ![w] = @ \ {o}]
  /\ need' = [need EXCEPT ![o] = @ \ {op[w].task}]
  /\ IF need[o] = {op[w].task} THEN Enqueue(w, o) ELSE UNCHANGED ready_tasks
  /\ UNCHANGED <<shutdown_counter, status, out_count, pc, op, collectionVars, shutdownVars>>

NotifiedAll(w) ==
  /\ pc[w] = "notify"
  /\ notify[w] = {}
  /\ Goto(w, IF op[w].kind = "task" THEN "retire" ELSE Resume(w))
  /\ UNCHANGED <<queueVars, shutdown_counter, taskVars, op, collectionVars, shutdownVars>>

Retire(w) ==
  /\ pc[w] = "retire"
  /\ DecrementShutdown(w, Resume(w))
  /\ UNCHANGED <<queueVars, taskVars, op, collectionVars, shutdownVars>>

-----------------------------------------------------------------------------
(* The action on shutdown_counter, and how the workers end                  *)

\* In a region, worker 0 is first told to join the others.
SendJoin(w) ==
  /\ pc[w] = "shutdown"
  /\ IF region THEN Enqueue(Main, JoinOp) ELSE UNCHANGED ready_tasks
  /\ Goto(w, "broadcast")
  /\ UNCHANGED <<shutdown_counter, need, taskVars, op, collectionVars, shutdownVars>>

SendAllTasksDone(w) ==
  /\ pc[w] = "broadcast"
  /\ sent < NWorkers
  /\ Enqueue(sent, AllTasksDone)
  /\ sent' = sent + 1
  /\ UNCHANGED <<shutdown_counter, need, taskVars, pc, op, collectionVars, spawned, quiesced, region>>

CallQuiescenceCallbacks(w) ==
  /\ pc[w] = "broadcast"
  /\ sent = NWorkers
  /\ quiesced' = TRUE
  /\ Goto(w, Resume(w))
  /\ UNCHANGED <<queueVars, shutdown_counter, taskVars, op, collectionVars, spawned, sent, region>>

OthersExited == \A v \in Workers \ {Main} : pc[v] = "exited"

\* Mutant: worker 0 goes on at once.
JoinNobody(w) ==
  /\ pc[w] = "join"
  /\ Goto(w, "loop")
  /\ UNCHANGED <<queueVars, shutdown_counter, taskVars, op, collectionVars, shutdownVars>>

\* The join operation of a region blocks worker 0 until the others are gone.
Join(w) ==
  /\ pc[w] = "join"
  /\ OthersExited
  /\ Goto(w, "loop")
  /\ UNCHANGED <<queueVars, shutdown_counter, taskVars, op, collectionVars, shutdownVars>>

\* AllTasksDone breaks the loop.
Exit(w) ==
  /\ pc[w] = "all_tasks_done"
  /\ Goto(w, IF w # Main THEN "exited" ELSE IF region THEN "returned" ELSE "joining")
  /\ UNCHANGED <<queueVars, shutdown_counter, taskVars, op, collectionVars, shutdownVars>>

WaitForShutDown ==
  /\ pc[Main] = "joining"
  /\ OthersExited
  /\ Goto(Main, "returned")
  /\ UNCHANGED <<queueVars, shutdown_counter, taskVars, op, collectionVars, shutdownVars>>

-----------------------------------------------------------------------------
MainStep == Spawn \/ RunMainLoop \/ WaitForShutDown

Step(w) ==
  \/ Pop(w) \/ PopFails(w) \/ \E v \in Workers : Steal(w, v)
  \/ \E t \in Tasks : RegisterTask(w, t) \/ RegisterIndex(w, t)
  \/ \E C \in Collections : BeginCollection(w, C)
  \/ EndCollection(w)
  \/ Finish(w) \/ ReleaseOut(w) \/ RunAlias(w)
  \/ \E o \in Pendable : Notify(w, o)
  \/ NotifiedAll(w) \/ Retire(w)
  \/ SendJoin(w) \/ SendAllTasksDone(w) \/ CallQuiescenceCallbacks(w)
  \/ Join(w) \/ Exit(w)

\* The program has ended and nothing is left to do.
Returned == pc[Main] = "returned" /\ UNCHANGED vars

Next == MainStep \/ (\E w \in Workers : Step(w)) \/ Returned

SafeSpec == Init /\ [][Next]_vars

\* Every thread is scheduled again and again, and task bodies return.
Spec == SafeSpec /\ WF_vars(MainStep) /\ \A w \in Workers : WF_vars(Step(w))

-----------------------------------------------------------------------------
\* The tasks that hold a unit of shutdown_counter: from registration until
\* run() has deleted the task and given the unit back.
Holding ==
  {t \in Tasks :
     \/ status[t] \in {"registered", "running"}
     \/ \E w \in Workers : op[w] = TaskOp(t) /\ pc[w] \in {"release", "notify", "retire"}}

\* shutdown_counter is the number of tasks that are not retired and of
\* collections being registered, so it is zero only when all work is done.
CounterCountsWork ==
  shutdown_counter =
    Cardinality(Holding) + Cardinality({w \in Workers : collecting[w]})

Queued(o) == UNION {{<<w, i>> : i \in {j \in DOMAIN ready_tasks[w] : ready_tasks[w][j] = o}}
                      : w \in Workers}
RunBy(o) == {w \in Workers : op[w] = o /\ pc[w] = o.kind}

\* A registered task is pending or on exactly one queue, a running one with
\* exactly one worker, and any other with nobody, though workers steal from
\* each other while dependencies are satisfied: no task is lost or run twice.
OneHome ==
  \A t \in Tasks :
    LET homes == Cardinality(Queued(TaskOp(t))) + IF need[TaskOp(t)] # {} THEN 1 ELSE 0
    IN  /\ homes = IF status[t] = "registered" THEN 1 ELSE 0
        /\ Cardinality(RunBy(TaskOp(t))) = IF status[t] = "running" THEN 1 ELSE 0

\* AllTasksDone reaches no worker while a task is unfinished, so a worker that
\* leaves its loop leaves no task behind on its queue.
NoEarlyShutdown ==
  sent > 0 \/ (\E w \in Workers : pc[w] \in {"shutdown", "broadcast", "exited"}) =>
    \A t \in Tasks : status[t] \notin {"registered", "running"}

\* The main thread goes on only after every other worker has left its loop,
\* and in a region after the quiescence callbacks.
ReturnsQuiescent ==
  pc[Main] = "returned" => OthersExited /\ sent = NWorkers /\ quiesced

\* The program ends: the counter comes to zero, and every worker gets the
\* message that nobody may steal.
EverybodyStops == <>(pc[Main] = "returned")

\* What the scheduler implements.
Pool == INSTANCE TaskPool WITH
          complete <- {t \in Tasks : out_count[t] = 0},
          closed   <- shutdown_counter = 0

\* Workers, queues, stealing and messages behave as the abstract pool does.
ImplementsTaskPool == Pool!Spec
=============================================================================
