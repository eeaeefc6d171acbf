# A TLA+ development for the DARMA simple backend

The simple backend runs DARMA programs on the threads of one process. The
frontend turns a program into *tasks* with *uses* of data; the backend decides
when each task may run, on which worker, and when the workers may stop. This
directory models that machinery, checks it with TLC and proves most of its safety
with TLAPS. Paths below are relative to `src/src/` unless they start with `src/`.

## 1. Inventory

| Part | State | Operations | What makes it hard |
|---|---|---|---|
| Event (`data_structures/event.hpp`) | `triggered_`, a pointer to a queue of actions | `attach_action`, `attach_or_do_action`, `make_ready`, `_do_actions` | no lock around the load, the emplace and the second load; several threads may drain the queue |
| JoinCounter (`data_structures/join_counter.hpp`) | `count_`, and the event | `advance_count`, `increment_count`, `decrement_count`, `attach_decrement_of` | who was the last one; nobody may be late |
| PendingOperation (`pending_operation.hpp`) | `ready_event_`, `Runtime::pending_tasks` | `add_dependency_on`, `make_ready`, `enqueue_or_run` | it is triggered while it is set up, and deletes itself |
| Queues and maps (`data_structures/queue.hpp`, `pointers.hpp`, `concurrent_map.hpp`) | nodes under one mutex per queue; a pointer under a mutex that may be shared; a map under a recursive mutex | `emplace`, `pop`, `peak_and_pop_if`, `consume_all`, `exchange`, `evaluate_at`, ... | callables run under the locks of the queue, the pointer and the map |
| Runtime (`runtime/`) | `shutdown_counter`, `workers`, `pending_tasks` | `register_task`, `register_task_collection`, `spin_up_worker_threads`, `wait_for_top_level_instance_to_shut_down` | the counter must not touch zero while work is left |
| Worker (`worker/`) | `ready_tasks` of each | `run_work_loop`, `run_operation`, `try_to_steal_work`, `join` | stealing while the owner pops and others append; the messages that end it |
| Ready operations (`ready_operation.*`) | a task, a callable or a message | `run`, `is_stealable` | a message must reach the worker it is for |
| Region (`runtime_instance.hpp`) | an instance of its own, quiescence callbacks | `with_active_runtime_instance` | work is registered before threads exist; worker 0 joins the others from inside an operation |
| Flows and uses (`register_use.cpp`, `release_use.cpp`, `flow/`) | a ready trigger per flow and anti-flow; the control block | `register_use`, `release_use`, `establish_alias` | counts taken and given back by many uses; aliases |
| Publish and fetch (`publish.cpp`, `register_use.cpp`) | the publication table of a collection | `publish_use`, the `IndexedFetching` cases | the fetcher may come first |
| Collectives (`collectives.cpp`) | the invocations of a collection, each with a counter | `allreduce_use`, `reduce_collection_use` | contributions in any order, combined into one buffer; two nested actions that overwrite what others used |
| Control blocks (`flow/control_block.hpp`) | the user's data, and who owns it | constructors and destructors | blocks that point into each other's memory, dropped in any order |
| Debug worker (`debug.hpp`, `main/main.cpp`) | the uses and tasks there are; two deques of requests | `add_registered_use`, `remove_registered_use`, `print_state`, `run_work_loop` | prints while the workers run; requests at any time until the end, made in a signal handler that any thread may have to run |
| Arguments (`parse_arguments.*`) | the options | `parse_args`, `initialize_runtime_arguments` | flags without values, flags that are somebody else's |
| Lock helpers (`util.hpp`) | the locks of a range | `try_lock` | all or nothing, through a recursion |
| OpenMP and Kokkos workers, retired code | | | not in the default build, or commented out |

How they meet: `register_task` takes a unit of `shutdown_counter`, makes a
PendingOperation and attaches it to the ready triggers of the task's flows. The
thread that satisfies the last of them puts the task on the queue of its own
worker. A worker pops its queue or steals, runs the task, deletes it; that
releases its uses, which counts down the triggers of its out flows, and last of
all gives the unit of `shutdown_counter` back. The counter's own event sends
every worker the message that ends its loop.

What makes each part correct: an event runs each action once and only when
triggered, and loses none (Latch). A pending operation is enqueued once, after
its dependencies. A task runs once, after the data it needs, and workers stop
when, and only when, nothing is left (TaskPool). Every unit of a flow's count
has one owner who gives it back, so that tasks that conflict on a handle run in
the order of the program (DataOrder).

## 2. Modules

| Module | Stands for |
|---|---|
| `Latch` | the promise of an event with a join counter: abstract |
| `JoinCounter` | `event.hpp` and `join_counter.hpp`, one step per atomic operation |
| `JoinCounterProofs` | theorems about it |
| `PendingOperation` | `pending_operation.hpp` and the lifetime of the object |
| `PendingOperationProofs` | theorems about it |
| `TaskPool` | the promise of the scheduler: abstract |
| `Scheduler` | `runtime/`, `worker/worker_threads.cpp`, `work_stealing_random.cpp`, `ready_operation.*`, `runtime_instance.hpp`, and the alias of `flow/aliasing_strategy.cpp` |
| `MCScheduler` | a program for TLC to run on it |
| `SchedulerProofs` | theorems about it, and that it implements the safety of `TaskPool` |
| `DataOrder` | what flows promise to a program that uses one handle: abstract |
| `Fifos` | what the containers promise: abstract |
| `Containers` | `data_structures/queue.hpp`, `pointers.hpp`, `mutex.hpp`, and how `event.hpp` uses them |
| `TryLock` | `try_lock` of `util.hpp` |
| `AllReduce` | `Runtime::allreduce_use` of `collectives.cpp` with `task_collection_token.hpp` and the map it goes through |
| `ReduceCollection` | `Runtime::reduce_collection_use` |
| `MCCollectives` | an allreduce, then a reduction |
| `CollectivesProofs` | theorems about `AllReduce` and `ReduceCollection` |
| `Publication` | `publish.cpp`, `publish.hpp` and the `IndexedFetching` cases of `register_use.cpp` |
| `ControlBlocks` | `flow/control_block.hpp`, and which flows make and share blocks |
| `MCPublication` | a collection for TLC, and the control blocks |
| `PublicationProofs` | theorems about `Publication` and `ControlBlocks` |
| `DebugWorker` | `debug.hpp`, `main/main.cpp`, `data_structures/concurrent_list.hpp` |
| `Options` | `parse_arguments.cpp`, and `initialize_runtime_arguments` |
| `MCSupport` | a program with a debug worker and options; and scenarios for `Containers` and `TryLock` |
| `SupportProofs` | theorems about `DebugWorker`, `TryLock` and `Containers` |
| `Flows` | `register_use.cpp`, `release_use.cpp`, `flow/flow.hpp`, `flow/aliasing_strategy.cpp`, and the tasks that wait for flows |
| `FlowsProofs` | theorems about its types, its counts and its assertions |
| `FlowsOrderProofs` | theorems that it implements the safety of `DataOrder`, and about what that gives to a program |

The layers rest on each other: Containers implements Fifos, which is why the
other modules take an operation on a queue, and the exchange of an event's
queue, for one step; JoinCounter implements Latch; PendingOperation
takes its dependencies as latches and keeps the atomic steps for the one event
that it destroys; Scheduler takes registration as one step (what
PendingOperation shows) and each trigger as a latch whose actions are run one
after another by the thread that opened it. Flows takes triggers the same way
and leaves the workers out: Scheduler shows that what is on a queue gets run.

Definitions marked *Mutant* are plausible mistakes in the code, one for each
property: with the mutant in place of the definition that follows it, the
property fails.

### JoinCounter

A *token* is one unit of `count_` and the right to give it back. Callers give
back only what they hold and call `advance_count` only under a unit that stays:
what every caller in the backend does but the one of finding 3, and what the asserts at
`join_counter.hpp:79` and `87` are about. A thread is in at most one call, and
`pc` says which atomic operation comes next: `load`, `run`, `emplace`, `reload`
are `attach_or_do_action`; `store`, `exchange`, `consume` are `make_ready` and
`_do_actions`. `exchange` and `emplace` are the critical sections of the mutex
of `pointers.hpp` (Containers takes them apart). The done event of an action is left out: nobody in
the backend attaches anything to it. Arithmetic is modulo `Modulus`.

### PendingOperation

The Creator runs `make_pending_task`; other threads trigger the dependencies.
`ready_event_` is at the grain of JoinCounter. `refs` are the `shared_ptr`s to
it: the object's own, and one in each lambda attached to a dependency. `delete
this` drops the first. The path that runs the task on the stack is left out
because `Runtime::max_task_depth` is 0 and nothing sets it. The Creator's
access to a destroyed event (finding 1) is a choice: it reads a flag that is
not set or an empty queue and goes on, or the process ends.

### Scheduler

The program is a constant: which task registers which (`ParentOf`), in what
collections, whose data a task waits for, and to which subtask a task passes
its data on (`Alias`). A task registers its subtasks in any order that respects
the data, or leaves some out, so that a run covers many programs. Actions and code:

| Code | Actions |
|---|---|
| `spin_up_worker_threads`, `spawn_work_loop` | `Spawn`, `RunMainLoop` |
| `run_work_loop`, `run_operation` | `Pop`, `PopFails`, `Begin`, `Exit` |
| `try_to_steal_work` | `Steal` with every victim, itself included |
| `register_task` | `RegisterTask` |
| `register_task_collection` | `BeginCollection`, `RegisterIndex`, `EndCollection` |
| destruction of the task in `ReadyTaskOperation::run`: `release_use`, `establish_alias` | `Finish`, `ReleaseOut`, `Notify`, `NotifiedAll` |
| the callable of an alias | `RunAlias` |
| `shutdown_counter.decrement_count()` | `Retire`, `DecrementShutdown` |
| the shutdown action, top level or region | `SendJoin`, `SendAllTasksDone`, `CallQuiescenceCallbacks` |
| joins | `Join`, `WaitForShutDown` |

A queue is a sequence: `emplace` appends, `pop` and `peak_and_pop_if` take the
head, each in one step (`Containers` shows that they behave so). `region`, which
is either at the start, tells the top-level instance, where the root task is an
operation on worker 0's queue, from `with_active_runtime_instance`, where the
main thread is the root task before any other thread exists (`RunsCallback`).

### Flows

One handle, or one collection, and every program over it: the main program
captures up to `Width` tasks that read or write, a task that may modify
captures up to `Subwidth` subtasks, and each goes on, or ends, while the others
run. A flow is named by the use whose registration made it and by its role
(`in`, `anti_in`, `out`, `anti_out`). `register_use` becomes the list of operations
on join counters that its switch statements perform for the relationships of
the use, `release_use` the list it performs when the use is destroyed. A thread
works through its list, its *agenda*, one operation at a time; an operation that
triggers a flow puts the flow's actions in front of what is left, as the call
stack does. `make_pending_task` attaches to the in flow, and to the anti-in flow
of an anti-dependency, and then drops its setup dependency. The loop of
`register_task_collection` registers one index in each `DoRegister`, and releases
the use of the whole collection after the last.

The code counts decrements to come; the model also names them. A *unit* is a use's
part in a count, `<<use id, part>>`: the decrement that a new flow starts with and
the one of the use's release (the role), those that link the flows of an index to
the collection's, those of an alias, and those that a task's pending operation waits
for. `Owed` has every unit that an agenda, an attached action, a callable or a use
will give back, with its counter, and `ToCome` those whose increment is still on an
agenda. The names decide nothing: guards and counts are the code's.

The relationships themselves come from the frontend, a library that is not in
this repository. They are modelled from what `register_use.cpp` requires of them:

| Use | in | out | anti-in | anti-out |
|---|---|---|---|---|
| initial | Initial | Null | Insignificant | Initial |
| captured to read | Same | Insignificant | Insignificant | Same |
| captured to write | Same | Next of in | Same as the source's anti-out (anti-dependency) | Next |
| captured by a task that modifies | Forwarding | Next of in, if it writes | Forwarding of the source's anti-out, if it writes | Next |
| continuing, with the alias | Same as the captured out (its in, for a read) | Same | Same (the source's anti-out, if the source modifies) | Same as the captured anti-out |
| one index of a collection | IndexedLocal | IndexedLocal | IndexedLocal | IndexedLocal |

The asserts at `register_use.cpp:243`, `254`, `268`, `runtime/runtime.cpp:192` and
`pending_operation.hpp:235` say which uses are anti-dependencies; the comments
at 209-211, 222-224 and 258-261 say what an anti-in flow waits for, who holds it
up, and that a forwarded one is ready at once *since it needs to be held by
the continuation*, which is what makes the continuing use of a modifying task
take the source's anti-out as its anti-in. With these, every assert on a
join counter holds, and the direction of `aliasing_strategy.cpp:102-113`
(anti-in waits for anti-out) is the one that keeps the order: with the other,
a later writer overtakes an earlier reader.

`DataOrder` names tasks by their path in the program and lets a task start when
all earlier ones that conflict with it, their subtasks included, are done.

### Containers and TryLock

A thread has an *agenda*, the steps that are left of its calls. Under the one
lock of a queue, `emplace` makes and links the node (`DoLink`) and moves `tail_`
(`DoMoveTail`); `consume_one` moves the value out and resets `tail_` (`DoTake`),
swaps `head_` with `head_->next`, which leaves the node owning itself
(`DoSwapHead`), and runs the callable still under the lock (`DoRun`), which may
attach to another event or put a task on a ready queue; `peak_and_pop_if` moves
the value out, asks, and pops it or moves it back (`DoPeak`, `DoDecide`). The
pointer of an event has a lock of its own: `DoExchange` swaps the queue for a new
one under it, `DoEmplaceCurrent` calls `emplace` under it. `shared` says whether
the build has `std::shared_timed_mutex`; the default is exclusive. What a node
holds is a kind and a number.

`Fifos` has the same queues as sequences that change in single steps, of which
those that were exchanged are only taken from, and destroyed when empty. The
refinement mapping reads a queue from its nodes, with the value that the holder
of the lock has in hand in its place.

`TryLock` unrolls the recursion of `_try_lock_impl`: `depth` counts the frames,
`Try` is a frame's attempt, `Unwind` its return, in which `prev_ulock` is released
or unlocks. `UnlockAll` and `TryAgain` are the caller's.

### ReduceCollection

`reduce_collection_use` leaves an action on the in flow of the collection; that
one leaves another on the anti-in flow of the output, which destroys the output's
data, copies the first index there, combines the others into it and releases both
uses. Since each is attached by the one before, `stage` is all the control there
is, and the steps of the last action are apart so that the environment can come
between: the tasks that write the indices, the earlier ones that still use the
output, the later ones that wait for the collection's anti-flow. Waiting for the
output's anti-in flow alone is enough, because everything in Flows that may use
or write the data before it holds that flow up; Flows still implements DataOrder
when its writers wait for nothing else. The output use is taken to have an
anti-in flow, which line 484 does not check: a captured use that writes has one.

### ControlBlocks

A block is what a constructor of `ControlBlock` or `CollectionControlBlock` makes
of it: where `data` points, whether it `owns_data`, its `parent_collection`. Flows
only count, `Share` and `DropFlow` being what `register_use` and the end of uses and
flows do with the `shared_ptr`. `DestroyCollection` and `DestroyBlock` are the two
destructors in their order. How long the frontend keeps the token, and with it
the published copies, is an assumption (`InUse`, external).

### DebugWorker, Options and the program of MCSupport

Workers register and release uses and start and end tasks, each change under
`state_mutex`; a use is known before it has its flows, and a task is deleted after
it has left `running_tasks`. The debug worker polls its pills and its requests, and
prints use by use and task by task (`PrintUse`, `PrintTask`, `EndRead`), so that
everything can happen between two of them. Of a running task only those dependencies
are read that are still registered; that a task may be asked for them while it runs,
which the comment at `debug.hpp:194` doubts, is taken from the frontend.

The signal comes at any time until main returns, to any thread: main, a worker or the
debug worker, whatever it is doing (`Signal`). The thread does nothing else until its
handler has returned, which takes the mutex of the requests (`HandlerLock`), puts its
request behind the others and lets go (`HandlerEmplace`); the debug worker takes the
same mutex to look for one (`LockRequests`, `Drain`). A handler that interrupts it in
between waits for ever (`Caught`). The handler also allocates; where the thread was
interrupted in the allocator, that may hang it (`Hung`). `main` is the step of
`main.cpp` that is next.

`Options` reads the command line as the loop does, one argument at a time
(`ParseArg`), and says what it means without a loop (`Meaning`): which part each
argument is, and which value of a flag counts. MCSupport lets main parse a
command line, and then run.

### AllReduce

One tag of one task collection. `AllReduceUse(i)` is the call for index `i`: it
takes the map's recursive mutex, enters the use into the invocation (the first
one makes it) and keeps the mutex until everything it runs inline has returned
(`DoUnlock`). Agendas work as in Flows; an operation on one, or an action left to a
flow, names the in or anti-in flow whose decrement of `ready_event` it is
responsible for (`unit`), so that a decrement to come can be found. The in and anti-in flow of each use
become ready at any time, each on a thread of its own, and a use may have no
anti-in flow. `DoContribute` is the action of a later use's in flow, which
attaches the reduction to the first use's flows; a reduction takes two steps
(`DoReduce`, `EndReduce`), so that two of them can overlap; the last decrement of
`ready_event` runs the completion (`DoCopy`, `DoRelease`, `DoErase`).

### Publication

One version. An entry of the table has the two counters of
`PublicationTableEntry::Impl`, the fetches attached to the first, and the copy.
`Publish` and `Fetch` hold the table's mutex as above; a fetching use goes to the
table twice, for its in flow and for its anti-out flow (`DoLink`). The copy, the
decrement of `fetching_join_counter`, the fetchers' actions and the release of
the publish use are steps of the thread that makes the in flow ready, or of the
publisher. The next writer of the index (`Overwrite`) waits for that release and
nothing else. A fetching use is released by its reader or without one (`Drop`); only
outside `Held` may that be before its data is there.

## 3. Runs

| Run | Instance | Shows |
|---|---|---|
| `JoinCounter` | 3 threads, 2 actions, 3 tokens (1 initial), modulus 4 | asserts hold; actions run only after the last release, at most once; no lost wake-up; zero means triggered; implements `Latch`, with liveness |
| `PendingOperation` | a Creator, 2 other threads, 3 dependencies | enqueued after the dependencies, once, in the end; `pending_tasks` is balanced |
| `PendingOperationLifetime` | the same | finding 1: violated |
| `Scheduler` | 3 workers, top level or region; 6 tasks with an alias and a collection | counter = work; no task lost or run twice; no early shutdown; main returns last, after the callbacks; everybody stops; implements `TaskPool` (data before readers, too) with liveness |
| `Flows` | 3 tasks, 1 subtask each | asserts on counts hold; every unit of every count, and of a task's wait, is owed once and no count is anything else; every flow and anti-flow is ready in the end; implements `DataOrder`, with its liveness |
| `FlowsCollection` | 2 operations on a collection of 2 indices | order and readiness where indices hold up the whole |
| `Collectives` | 3 indices, with or without anti-in flows; then 3 indices and 2 earlier tasks | allreduce: `ready_event`'s count is exactly what is still to come, the result is copied when all is in and nobody is reducing, everybody is released. Reduction: nothing it reads or overwrites is in use by others, each index counts once, both uses are released |
| `AllReduceSerialized` | the same allreduce | finding 2: violated |
| `Publication` | 3 indices, 2 of which publish, 3 fetches in a cycle and a fork; 4 control blocks, 2 flows each, collections of 2 | readers see the published version; `release_event` triggers after the reads; everybody is served in the end; data outlives the flows that lead to it, and is destroyed once |
| `PublicationDropped` | the same, one fetch not held | finding 3: violated |
| `Support`, the containers | 3 threads, 2 events, 5 queues, 6 nodes, 4 scenarios; 3 lockables, 5 ranges | under the lock `tail_` is the last node; every queue is first in first out and nothing is added to one that was taken (implements `Fifos`); every call returns; `try_lock` owns all or nothing |
| `Support`, a program | command lines of 3 arguments, or 2 after a flag and its value; 1 task with a use and a use without one, 2 signals, 3 threads that may get them | options are what the arguments mean, and the program aborts only when a value is missing; what is printed exists; requests made before the end are served, and the pill ends the program, unless a handler locks out the thread that it interrupted |
| `ProgramSignal` | the same program | finding 4: violated |

Three runs put modules side by side that share nothing (Containers, TryLock and a
program with its debug worker; the two collectives; Publication and ControlBlocks):
their MC modules let one start when the other is over or has not begun, or choose
one of them at the start (`part`), so that the states add up and every behaviour of
each is there.

Why the bounds are enough. JoinCounter's races are between the thread that
triggers and those that attach late; three threads give two late ones at once,
and two actions tell a drained queue from a repeated one. Its proofs remove the
bounds. PendingOperation has one action and one object; two triggering threads
race with each other and with the Creator, and three dependencies give one that
is early, one that is late and one that is concurrent. In Scheduler workers
steal from each other and from themselves, in all directions; the
program of MCScheduler has a chain, an alias, a collection counted under its
own unit, and tasks that wait for two others. Three workers let a worker be sent
its message while another one is still being spawned, and let two thieves meet.

The scenarios of MCSupport are the ways the backend uses a queue: an owner that
pops while another thread emplaces and a thief peeks, with a message that must
stay; attaching while an event triggers, with two late drains; actions that
attach to each other's events, where a common queue would deadlock. Two nodes in
a queue tell its ends apart and a third comes when it was empty again. Three
lockables let a frame fail with two locks held. A collection of two indices, a
copy and one index make four blocks, with two flows each so that one can go
before the other. Four arguments hold two flags with their values, or a flag that
is a value, or a separator between; only those that begin with a flag and its value
are tried with four. A program gets signals before it runs only with one of three
command lines (`FewArgVs`), for nobody looks at them then but main. Two
signals let two threads handle one each, and one of them wait for the other; three
threads are the two that the shutdown needs and one that it waits for.

Flows has the shortest program in which a writer of the top level must wait for
readers inside an earlier writer's subtask, with another use between the two.
One worker runs callables there: they are single decrements of a counter, which
commute. Two indices tell the first and the last unit of a collection's flow.

Two later contributions can meet in AllReduce, and there is a first one for
them to meet in; more indices repeat the second. In Publication two indices that
fetch from each other make the cycle that copying is to break, and a second
fetcher makes an entry whose counts differ from 1.

Deadlock is checked in the Scheduler run, where the only final states are
those in which the main thread has returned. The others stop when their callers
have nothing more to do, so deadlock is not an error there; where waiting matters
(Containers, Program, the collectives) a liveness property says that it ends, in
Program but for finding 4.

Fairness. A thread that is inside a call goes on (weak fairness of its steps:
the operating system schedules every thread, and no step of these models can be
disabled by another thread for ever except waiting, which is the point). No
call is ever forced to start: JoinCounter's `Call` and the program's choice
which task to register have no fairness of their own. PendingOperation assumes
that each dependency is triggered in the end, which is what Scheduler shows of
flows. Scheduler has weak fairness of each worker's steps: a task body returns,
and since a worker with an empty queue goes round the stealing loop, fairness
of its step says only that it keeps looping. Flows has weak fairness of a thread's
next operation, of starting a task that is ready and of running a callable
(`EverybodyStops` and `TaskPool`'s liveness say that of the queues), and of the end
of a body; capturing is the program's choice and has none. AllReduce and
Publication have weak fairness of a thread's next operation (nobody holds a
mutex for ever, and each is taken a bounded number of times) and of the release
of a fetching use; calls and the readiness of flows have none, and their liveness is
stated for the case in which all of them have happened. Containers has weak fairness
of each thread's next step, locks included: a thread waits for each lock a bounded
number of times. ReduceCollection has it of the reduction's own steps; its flows
become ready or not. Program has it of the main thread and of the debug worker; a
task need not end, and the program then need not, but requests are served even so.
The handlers have strong fairness, all together: the debug worker takes and releases
the mutex of the requests in a busy loop, and a thread that waits for it gets it at
some time. A signal that comes while another one is pending is that one, so only
signals that are handled are counted.

## 4. Findings

1. `event.hpp:217` reads `triggered_` after the action is in the queue. When
   the action is the one of `enqueue_or_run`, another thread may have run it by
   then, which deletes the PendingOperation and, with the last lambda, the event.
2. `collectives.cpp:107-109` takes the contributions to an allreduce to be
   serialized, being actions of the first use's in flow. When that flow is ready
   already, each runs in the thread that attaches it, and two may write the first
   use's data at once.
3. `publish.cpp:85` advances `release_event` when the publisher comes; a fetching
   use that was registered first and released without waiting for its data has
   taken the initial count by then, and the assert at `join_counter.hpp:79` fails.
4. `main/main.cpp:77` says that SIGUSR2 introspects the state. The handler locks the
   deque of requests (`main.cpp:60`), and may run in the debug worker's thread while
   that holds the same mutex (`concurrent_list.hpp:101`), since the signal is blocked
   nowhere: then no request is served any more, and main hangs in `join`.
   `RequestsServed` and `ProgramEnds` say that nothing else keeps a request from being
   served, or the program from ending, than this and an allocator that is entered twice.

## 5. Proofs

`JoinCounterProofs` holds for any sets of threads and actions, any finite set
of tokens, and any modulus above their number (`TokensAssumption`,
`ModulusAssumption`, `PlacesAssumption`). The invariants come in layers:

- `TypeOK` is inductive.
- `CountInv` is: `count` is the number of units held; each call of
  `advance_count` or `decrement_count` has exactly one unit in use; the units
  are all gone exactly when the event is triggered or about to be. It is needed
  because `AssertsHold` and `CountZeroTriggers` say nothing of who holds what,
  so that a decrement could not be shown to leave another call's assert alone.
- `TriggeredInv`: taking and running actions happens only under a triggered
  event. With `CountInv` it gives `RunsOnlyAfterRelease`.
- `NoStranded` is inductive by itself, given types.
- `OnceInv`: an action is in one thread's hands, in the queue, in one batch, or
  has run once, and in no two of these. It gives `AtMostOnce`.
- `RefinesLatch`: initial states map to initial states and each step to a step
  of `Latch` or a stutter, from all of the above.

`FlowsProofs` holds for programs of any `Width` and `Subwidth`, collections of any
number of indices and any number of workers. `CountsAreOwed` is not inductive: it
does not say that the increment at the head of an agenda finds a count above zero,
nor that a unit which is about to be owed is not owed already. What is added:

- `FreshTasks`, `UsesOK`, `RegistersOK`, `KnownIds` and `AliasIds` say which tasks,
  uses and flows there are, and who makes units of which names, so that the units of
  a new use or of an alias are new. Without the last, a use could leave two aliases.
- `Anchors` is the main one: as long as an increment is to come, the unit it takes is
  owed by something that happens after it (later on the same agenda, by the thread's
  own use, or by a task that the same agenda still keeps from starting), and so is
  another unit of the same flow that is counted already. So nobody can bring that
  flow to zero before the increment is done, which is `AssertsHold`.
- `OwedApart` and `OnceEach`: what is owed is owed at one place, once; `TakenApart`:
  no unit is taken twice.
- `Counted`: every count is the number of units owed and taken.
- `WaitsPending`: whose wait is owed has not started, so its use is still there.

`FlowsAssertsHold` (no assert of a ready trigger fails) and `FlowsCountsAreOwed`
follow. The operations that `register_use` and `release_use` become are described once,
by what they take, owe and keep in order (`Sound`, `SelfAnchored`), for each way of capturing a
use, so that a step needs no more than that.

`FlowsOrderProofs` adds `ImplementsOrderSafety`: every step of Flows is one of
`DataOrder` or none. It rests on these counts. A unit that is owed to a flow keeps it from being ready
(`OwedNotReady`), so a flow that is ready tells what is over, if for each flow the
invariant knows who owes to it. `Promise(x, g)` says that unit x is given back by an
action of flow g, attached or about to be: the flow of x is not ready before g is
(`PromiseHolds`). `OrderInv` then says of the uses of tasks:

- `WritersHold` and `IndexUses`: a task that writes, and an index, owes to the out and
  anti-out flows that it was captured with until it is done; those of an index promise
  the same to the flows of its collection. `IndicesCome`: an index that is not registered
  yet is still on the main program's agenda, so the collection owes as well.
- `AliasesKept`: when a task that captured others is done, its flows have got promises
  from those that its last subtask left.
- `ScopesCover`: what is captured next from a use will find a flow that is not ready
  before all writers captured from it are done, and an anti-flow that is not ready
  before all of its tasks are. `WaitsCover`: so does a task that is pending, from the
  flows that promise to start it.
- `ReadyInOrder`: what is ready, runs or is done has found all that comes before it and
  conflicts with it done.

What a flow that is ready leaves behind is told in three steps: the writer or the
collection that made it is done (`WriterOver`, `CollectionOver`); so is all that comes
before that one, which has started in order (`PastOver`, `AntiOver`); and so are the
subtasks that wrote through it, by the promises of its alias (`ChildrenOver`,
`FamilyOver`). So a task whose last wait is satisfied is in order (`TaskReady`). A
step that captures nothing need only keep promises (`QuietOrder`); the three that
capture or register, `CaptureTask`, `CaptureCollection` and `DoRegister`, are shown to
make those that the new use needs. That a task is never registered in front of one that has
started, `InOrder` of `DataOrder`, comes from who may capture: a task after the new
one of its parent has not been captured, or is of a later task of the top level, which
has not been reached (`LaterUnstarted`).

What it gives to a program: `Sequential` for `DataOrder`, every task that has started
has found all that come before it and conflict with it done, whatever is registered in
between (inductive, given types: a task that starts looks at all that are registered,
and `InOrder` keeps the others out), and `Exclusive`, which follows: conflicting tasks
never overlap. `FlowsSequential` and `FlowsExclusive` state both for Flows itself.

`SupportProofs` shows `AllOrNothing` for any threads and lockables, and ranges
that are sequences of them. What a thread owns when it returns says nothing of how
it came to; the invariant says it of every frame: going down, and coming back with
a failure, a thread at depth k owns exactly the elements before k, and coming back
with success all of them. That no element comes twice is what makes giving
one back take exactly one away.

`PendingOperationProofs` holds for any threads that trigger dependencies and any
finite set of these. `EnqueuedAfterDeps` says nothing of how the count got where it
is, so the invariant finds every unit of it: `CountIsUnits` makes `count` the number
of dependencies whose lambda waits or is in a thread's hands, and of the setup
dependency while the Creator has it; `Places` gives a dependency one such place,
`Unopened` says that one which is not triggered has not given its unit back, and
`Opening` that only whoever takes the last unit opens the event. For `EnqueuedOnce`,
`Carried` follows the enqueue action: not made, in the queue, in one batch, in the
Creator's hands, or run, and in no two of these. `Kept` ties the references to all
that. The last theorem says how far finding 1 goes: `AliveWhileCounted`, proved
without any restriction, leaves the Creator's look at `triggered_` after it has
attached the action as the only access that can come after the destruction.

`SchedulerProofs` holds for any number of workers and any program that
`ProgramAssumption` admits. The inductive invariant has eight parts. `Types` and
`Control` fit together what a worker holds and which step it is at. `Homes` is the
main one: an operation is on one queue once, or pending, or in one worker's hands,
and where the operations of a task are is where it is in its life; without it two
workers could take the same task and `CounterCountsWork` would not be preserved when
both retire it. With the exact counter, `Closing` (whoever is on the way out, and
every message, has seen the counter at zero) is inductive, since a counter at zero
means no task that could register another; `NoEarlyShutdown` follows. `Closer` (the
one worker that brought the counter to zero sends all messages), `JoinFirst` (in a
region worker 0's message to join lies before the one that ends its loop) and
`MainLeaves` give `ReturnsQuiescent`. For the refinement of `TaskPool` one more part,
`Outputs`, makes the count of an out flow the units of its task and of the alias, and
what is still waited for what is not ready; every step is then one of the pool's or
a stutter (`ImplementsPoolSafety`).

`PublicationProofs` has two layers. `ReadsPublished` holds for any fetches, held or
not: each index is at one `Stage` of its publication, which says what the body, the
next writer and the flow's action still have to do (the copy comes before the
release of the publish use, and that before `Overwrite`), and what is fetched is a
copy of that version (`Versions`). `ReleasedAfterReads`, and that the asserts on
`release_event` never fail, need the count: `Counted` makes it the number of fetches
whose unit is not given back. They are proved for the case in which every fetching
use waits for its data (`Held = Fetches`), which is exactly what finding 3 lacks:
without it the assert fails, as `PublicationDropped` shows. `DataOutlivesFlows` of
ControlBlocks holds for any numbers of blocks, flows and indices: a block that is
held leads to data of its own, of a held collection or of a copy that somebody holds
(`LeadsRight`), and what a block allocated is untouched until it goes itself (`Intact`).

`CollectivesProofs` shows `ReadyCountExact` and `CompletedWithAll` for any finite
set of at least two indices (the assert at `collectives.cpp:199`), whoever makes
their flows ready in whatever order. That the count is the number of decrements to
come is inductive only when each has one holder (`OneHolder`) among the agendas and
the actions that wait at flows; that the holder comes to decrement at the right
time needs what is known where it waits: `Kept` says which action may be left to which flow and
`Due` what holds when an operation is on an agenda (a reduction is of an index whose
own flow is ready and which was not reduced before). `Made` turns a decrement that was made
into what it stands for. For the reduction of a collection, `ResultComplete`
holds for any number of indices but 0 (`collectives.cpp:496`) and any earlier
users of the output. The invariant adds what a ready flow stands for, that the reduction
is past a flow only when that is ready, and that the output holds the reduction of
exactly the indices before `next_index`.

`SupportProofs` also shows `TailIsLast` and `ImplementsFifos`, the whole refinement, for any
threads, events, queues and nodes, and any scenarios made of calls as `IsProgram` has
them. Neither says what a thread in the middle of a call may count on, which is what
the inductive invariant is about. It has two layers:

- `Listed` is `Core`, types and where locks are held, and that there are lists `S` of
  which the queues are made (`Chained`). `Sections` says it of whole agendas: each step
  that needs the lock of a queue comes in a section of it, begun already or later on the
  agenda, or behind a lock that the same thread holds and so never gets: a scenario may
  put an action on the ready queue itself, which is then run under its lock and stands
  still at its emplace. The program does not, and nothing that is proved needs it. `Chained(S)` says that no node is in two
  places of `S`, that `head_` and `next` lead through it (`Linked`), that `tail_` is the last
  node but between `DoLink` and `DoMoveTail`, and between the two steps of a pop
  (`Tails`), and that only the first value is ever moved out, by the thread that has it
  in hand (`Valued`). A step of one thread must be shown to leave alone what the others
  are in the middle of: the lemmas that end in `Chains` do, for one action each.
- `Own` says whose the queues are: the pointers of events own different queues
  (`Pointers`); whoever has a node to link holds the pointer that he read the queue
  from, and so it is still the event's (`Links`); nothing is taken from a queue where others
  still attach (`Takes`); what somebody will destroy was exchanged, is drained first,
  is not destroyed yet and is nobody else's to destroy (`Destroys`, `DestroyedOnce`).

That the chain from `head_` is the list (`ChainIs`) is an induction over the recursive
function `ChainFrom`: the library's induction theorem takes an operator, so
`SetInduction` says it of sets of numbers instead, from the well-foundedness of `<`, which is enough.
With this `StepFifos` maps each step: `DoLink` is `Add`, `DoSwapHead` and a
`DoDecide` that pops are `Take`, `DoExchange` and `DoDestroy` are themselves and all
others are none, since the value that was moved out still counts as the queue's.

Last, that module shows `PrintsLive` for any number of signals, and uses and tasks
that are different things: the two sets agree with the lives of what is in them, and
what is read is in a set, under the mutex that whoever removes it needs.

Proof modules extend the MC module where a property is stated of an instance of
another module (`MCSupport`, `MCCollectives`, `MCPublication`); none of them uses
the values that a configuration gives to constants, nor the order in which such an MC
module runs its parts.

Proving corrected the models in four places: a task collection is begun only by
a worker that is inside a task (`BeginCollection`, whose guard had left this to the
program); the setup dependency and the absence of one are two names that no
dependency has (`NamesAssumption`); the names of the threads of a body and of a
writer are no indices (`FetchesAssumption`); and the units of Flows, which had only been
summed up, got names, and the indices of a collection, which had been registered by
a fold over all of them, are registered one after another, as the loop does it.

Only model-checked: liveness (`ImplementsLatch`, `ImplementsTaskPool` and
`ImplementsDataOrder` with their fairness, `EventuallyEnqueued`, `EverybodyStops`,
`EveryFlowReady`, `EverybodyReleased`, `EveryFetchServed`, `BothReleased`,
`CallsReturn`, `RequestsServed`, `ProgramEnds`), which the prover does not handle.
Of the safety properties only `OptionsAsSpecified` is left to TLC: it compares a loop
over the arguments (`FoldLeft`) with what they mean (`SelectSeq`), recursion of the
libraries that the prover cannot unfold; TLC compares them for all lists of arguments
up to a length.

## 6. Not modelled

The two-use `allreduce_use`, which is unfinished and asserts false on entry;
publishing without a copy, which is compiled out; a version or a tag used twice,
which only the frontend could allow; several handles in one task; how long the
frontend keeps a token and its table; what user data is, and how it is packed;
`ConcurrentMap` and `ConcurrentDeque` below the level of their one lock; the draws of
`steal_distribution` that overflow an int; the inside of the allocator that a signal
may interrupt; the race between printing a use and setting its flows; the names that `debug.hpp`
makes of pointers; the options of Kokkos builds; the declarations of
`runtime/runtime.hpp`, the switches of its builds and the bookkeeping that nobody
reads (`dorment_workers`, the memory manager); the OpenMP and Kokkos workers, which
are written for interfaces that are gone; code that is commented out. Memory is
sequentially consistent: every atomic of the modelled code uses the default order.

## 7. Plan

Done: every component that is compiled in a default or a debug build; proofs of
the safety of JoinCounter, PendingOperation, Scheduler, Publication,
ControlBlocks, AllReduce, ReduceCollection, TryLock, DebugWorker, Flows and
Containers, and of the refinements of `Latch`, of `TaskPool`, of `DataOrder` and of
`Fifos`. To come:

1. The victim index of stealing with machine integers.
2. Two handles in one task, for Flows: a task that waits for both.
