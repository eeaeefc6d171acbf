---------------------------- MODULE DebugWorker ----------------------------
(***************************************************************************)
(* debug.hpp and main/main.cpp: a program that is run with the debug       *)
(* worker, a thread that prints the uses and tasks there are whenever the  *)
(* process gets SIGUSR2, while the workers register and release them.      *)
(*                                                                         *)
(* Workers change the state in a critical section of state_mutex that      *)
(* makes one change (_SIMPLE_DBG_DO), so which of them does is left out.   *)
(* Any thread may be interrupted by the signal, and then handles it before *)
(* it goes on.  The handler allocates, which no handler may: interrupted   *)
(* in the allocator, its thread may hang.                                  *)
(* pending_tasks is never filled, and nobody else puts anything into       *)
(* `actions` (_SIMPLE_DBG_ENQUEUE).                                        *)
(***************************************************************************)
EXTENDS Naturals, Sequences, FiniteSets

CONSTANTS Uses, Tasks,
          UsesOf,    \* of a task: its dependencies
          NSignals   \* bound: how often the signal is sent

VARIABLES use_state, task_state,           \* where they are in their lives
          registered_uses, running_tasks,  \* of current_state
          state_mutex,                     \* whether the debug worker holds it
          actions, empty_queue_actions,    \* the pills, and the requests to print
          deque_mutex,                     \* who holds that of the requests
          handler, makes,                  \* the step of each thread's handler, and its request
          debug,                           \* the step the debug worker performs next
          stopping,                        \* whether it has left its main loop
          request,                         \* the one it runs
          seen, reading,                   \* what it has printed of the state, and prints
          printed,                         \* the requests that were served
          signals,                         \* how often the signal came
          main                             \* the step the main thread performs next

programVars == <<use_state, task_state, registered_uses, running_tasks>>
queueVars == <<actions, empty_queue_actions, deque_mutex, handler, makes, signals>>
printVars == <<request, seen, reading, printed>>
vars == <<programVars, state_mutex, queueVars, debug, stopping, printVars, main>>

\* The threads that a signal may interrupt; of the workers' one is told apart,
\* the others go on with the program meanwhile.
Places == {"main", "debug", "worker"}

\* A thread that handles a signal does nothing else.
MainAt(step) == main = step /\ handler["main"] = "none"
DebugAt(step) == debug = step /\ handler["debug"] = "none"

\* ConcurrentDeque, under its mutex.
EmplaceBack(deque, action) == Append(deque, action)
PopFront(deque) == IF deque = <<>> THEN deque ELSE Tail(deque)

Init ==
  /\ use_state = [u \in Uses |-> "unregistered"]
  /\ task_state = [t \in Tasks |-> "pending"]
  /\ registered_uses = {} /\ running_tasks = {}
  /\ state_mutex = FALSE
  /\ actions = <<>> /\ empty_queue_actions = <<>> /\ deque_mutex = "nobody"
  /\ handler = [p \in Places |-> "none"] /\ makes = [p \in Places |-> 0]
  /\ debug = "unborn" /\ stopping = FALSE
  /\ request = 0 /\ seen = {} /\ reading = {} /\ printed = {}
  /\ signals = 0
  /\ main = "spawn"

-----------------------------------------------------------------------------
(* The program: register_use, release_use and ReadyTaskOperation::run       *)

Running == main = "run"

\* register_use makes the use known before it has its flows.
RegisterUse(u) ==
  /\ Running
  /\ use_state[u] = "unregistered"
  /\ ~state_mutex
  /\ use_state' = [use_state EXCEPT ![u] = "flowless"]
  /\ registered_uses' = registered_uses \cup {u}
  /\ UNCHANGED <<task_state, running_tasks, state_mutex, queueVars, debug, stopping, printVars, main>>

SetFlows(u) ==
  /\ use_state[u] = "flowless"
  /\ use_state' = [use_state EXCEPT ![u] = "registered"]
  /\ UNCHANGED <<task_state, registered_uses, running_tasks, state_mutex, queueVars, debug, stopping,
                 printVars, main>>

\* A use is captured by at most one task, which may release it while it runs.
MayRelease(u) == \A t \in Tasks : u \in UsesOf[t] => task_state[t] # "pending"

ReleaseUse(u) ==
  /\ Running
  /\ use_state[u] = "registered"
  /\ MayRelease(u)
  /\ ~state_mutex
  /\ use_state' = [use_state EXCEPT ![u] = "released"]
  /\ registered_uses' = registered_uses \ {u}
  /\ UNCHANGED <<task_state, running_tasks, state_mutex, queueVars, debug, stopping, printVars, main>>

DestroyUse(u) ==
  /\ use_state[u] = "released"
  /\ use_state' = [use_state EXCEPT ![u] = "destroyed"]
  /\ UNCHANGED <<task_state, registered_uses, running_tasks, state_mutex, queueVars, debug, stopping,
                 printVars, main>>

StartTask(t) ==
  /\ Running
  /\ task_state[t] = "pending"
  /\ \A u \in UsesOf[t] : use_state[u] = "registered"
  /\ ~state_mutex
  /\ task_state' = [task_state EXCEPT ![t] = "running"]
  /\ running_tasks' = running_tasks \cup {t}
  /\ UNCHANGED <<use_state, registered_uses, state_mutex, queueVars, debug, stopping, printVars, main>>

EndTask(t) ==
  /\ task_state[t] = "running"
  /\ ~state_mutex
  /\ task_state' = [task_state EXCEPT ![t] = "ended"]
  /\ running_tasks' = running_tasks \ {t}
  /\ UNCHANGED <<use_state, registered_uses, state_mutex, queueVars, debug, stopping, printVars, main>>

\* task_ = nullptr
DeleteTask(t) ==
  /\ task_state[t] = "ended"
  /\ task_state' = [task_state EXCEPT ![t] = "deleted"]
  /\ UNCHANGED <<use_state, registered_uses, running_tasks, state_mutex, queueVars, debug, stopping,
                 printVars, main>>

-----------------------------------------------------------------------------
(* The signal handler, and the main thread                                  *)

Alive(place) ==
  CASE place = "main"   -> main \notin {"returned", "aborted"}
    [] place = "debug"  -> debug \notin {"unborn", "exited", "killed"}
    [] place = "worker" -> main = "run"

\* A thread without the signal blocked is chosen, whatever it is doing; it is
\* blocked there until the handler returns.  Within the allocator, what the
\* handler wants of it may never come.
Signal(place) ==
  /\ signals < NSignals
  /\ Alive(place) /\ handler[place] = "none"
  /\ signals' = signals + 1
  /\ \E step \in {"lock", "hung"} : handler' = [handler EXCEPT ![place] = step]
  /\ makes' = [makes EXCEPT ![place] = signals + 1]
  /\ UNCHANGED <<programVars, state_mutex, actions, empty_queue_actions, deque_mutex, debug, stopping,
                 printVars, main>>

\* empty_queue_actions.emplace_back, under a mutex that is not recursive.
HandlerLock(place) ==
  /\ handler[place] = "lock"
  /\ Alive(place)
  /\ deque_mutex = "nobody"
  /\ deque_mutex' = place
  /\ handler' = [handler EXCEPT ![place] = "emplace"]
  /\ UNCHANGED <<programVars, state_mutex, actions, empty_queue_actions, makes, signals, debug, stopping,
                 printVars, main>>

HandlerEmplace(place) ==
  /\ handler[place] = "emplace"
  /\ Alive(place)
  /\ empty_queue_actions' = EmplaceBack(empty_queue_actions, makes[place])
  /\ deque_mutex' = "nobody"
  /\ handler' = [handler EXCEPT ![place] = "none"]
  /\ makes' = [makes EXCEPT ![place] = 0]
  /\ UNCHANGED <<programVars, state_mutex, actions, signals, debug, stopping, printVars, main>>

SpawnWorkLoop ==
  /\ MainAt("spawn")
  /\ debug' = "poll"
  /\ main' = "initialize"
  /\ UNCHANGED <<programVars, state_mutex, queueVars, stopping, printVars>>

\* initialize_top_level_instance: the arguments are parsed, or an assert fails;
\* what was taken of them goes to the application.
Initialize ==
  /\ MainAt("initialize")
  /\ main' = "setup"
  /\ UNCHANGED <<programVars, state_mutex, queueVars, debug, stopping, printVars>>

Abort ==
  /\ MainAt("initialize")
  /\ main' = "aborted"
  /\ debug' = "killed"
  /\ UNCHANGED <<programVars, state_mutex, queueVars, stopping, printVars>>

SetUp ==
  /\ MainAt("setup")
  /\ main' = "run"
  /\ UNCHANGED <<programVars, state_mutex, queueVars, debug, stopping, printVars>>

\* wait_for_top_level_instance_to_shut_down: every task has been deleted, and the
\* workers are joined.
ShutDown ==
  /\ MainAt("run") /\ handler["worker"] = "none"
  /\ \A t \in Tasks : task_state[t] = "deleted"
  /\ main' = "pill"
  /\ UNCHANGED <<programVars, state_mutex, queueVars, debug, stopping, printVars>>

Pill == "pill"

EnqueuePill ==
  /\ MainAt("pill")
  /\ actions' = EmplaceBack(actions, Pill)
  /\ main' = "join"
  /\ UNCHANGED <<programVars, state_mutex, empty_queue_actions, deque_mutex, handler, makes, signals,
                 debug, stopping, printVars>>

Join ==
  /\ MainAt("join")
  /\ debug = "exited"
  /\ main' = "returned"
  /\ UNCHANGED <<programVars, state_mutex, queueVars, debug, stopping, printVars>>

-----------------------------------------------------------------------------
(* run_work_loop                                                            *)

\* Mutant: the pill ends the loop without another look at the requests.
PollThenExit ==
  /\ DebugAt("poll")
  /\ actions' = PopFront(actions)
  /\ debug' = IF actions = <<>> THEN "drain" ELSE "exited"
  /\ stopping' = (actions # <<>>)
  /\ UNCHANGED <<programVars, state_mutex, empty_queue_actions, deque_mutex, handler, makes, signals,
                 printVars, main>>

\* Without an action, or after the pill, the requests to print are next.
Poll ==
  /\ DebugAt("poll")
  /\ actions' = PopFront(actions)
  /\ debug' = "drain"
  /\ stopping' = (actions # <<>>)
  /\ UNCHANGED <<programVars, state_mutex, empty_queue_actions, deque_mutex, handler, makes, signals,
                 printVars, main>>

\* get_and_pop_front takes the mutex of the requests, even if there are none.
LockRequests ==
  /\ DebugAt("drain")
  /\ deque_mutex = "nobody"
  /\ deque_mutex' = "debug"
  /\ debug' = "pop"
  /\ UNCHANGED <<programVars, state_mutex, actions, empty_queue_actions, handler, makes, signals, stopping,
                 printVars, main>>

\* Mutant: the loop over the requests is left for the main loop in any case.
DrainAlwaysPolls ==
  /\ DebugAt("pop")
  /\ IF empty_queue_actions = <<>>
       THEN debug' = "poll" /\ UNCHANGED request
       ELSE debug' = "lock" /\ request' = Head(empty_queue_actions)
  /\ empty_queue_actions' = PopFront(empty_queue_actions)
  /\ deque_mutex' = "nobody"
  /\ UNCHANGED <<programVars, state_mutex, actions, handler, makes, signals, stopping, seen, reading,
                 printed, main>>

Drain ==
  /\ DebugAt("pop")
  /\ IF empty_queue_actions = <<>>
       THEN /\ debug' = IF stopping THEN "exited" ELSE "poll"
            /\ UNCHANGED request
       ELSE /\ debug' = "lock"
            /\ request' = Head(empty_queue_actions)
  /\ empty_queue_actions' = PopFront(empty_queue_actions)
  /\ deque_mutex' = "nobody"
  /\ UNCHANGED <<programVars, state_mutex, actions, handler, makes, signals, stopping, seen, reading,
                 printed, main>>

\* DebugAction::run
LockState ==
  /\ DebugAt("lock")
  /\ ~state_mutex
  /\ state_mutex' = TRUE
  /\ seen' = {}
  /\ debug' = "print"
  /\ UNCHANGED <<programVars, queueVars, stopping, request, reading, printed, main>>

\* Mutant: every dependency of a running task is printed.
PrintTaskUnchecked(t) ==
  /\ DebugAt("print") /\ reading = {} /\ registered_uses \subseteq seen
  /\ t \in running_tasks \ seen
  /\ reading' = {t} \cup UsesOf[t]
  /\ seen' = seen \cup {t}
  /\ UNCHANGED <<programVars, state_mutex, queueVars, debug, stopping, request, printed, main>>

\* print_use, for each of the registered uses.
PrintUse(u) ==
  /\ DebugAt("print") /\ reading = {}
  /\ u \in registered_uses \ seen
  /\ reading' = {u}
  /\ seen' = seen \cup {u}
  /\ UNCHANGED <<programVars, state_mutex, queueVars, debug, stopping, request, printed, main>>

\* print_task: the task, and those of its dependencies that are registered.  Which
\* it has is the frontend's to say, while it runs as before.
PrintTask(t) ==
  /\ DebugAt("print") /\ reading = {} /\ registered_uses \subseteq seen
  /\ t \in running_tasks \ seen
  /\ reading' = {t} \cup (UsesOf[t] \cap registered_uses)
  /\ seen' = seen \cup {t}
  /\ UNCHANGED <<programVars, state_mutex, queueVars, debug, stopping, request, printed, main>>

EndRead ==
  /\ DebugAt("print") /\ reading # {}
  /\ reading' = {}
  /\ UNCHANGED <<programVars, state_mutex, queueVars, debug, stopping, request, seen, printed, main>>

Printed ==
  /\ DebugAt("print") /\ reading = {}
  /\ registered_uses \cup running_tasks \subseteq seen
  /\ printed' = printed \cup {request}
  /\ state_mutex' = FALSE
  /\ debug' = "drain"
  /\ UNCHANGED <<programVars, queueVars, stopping, request, seen, reading, main>>

-----------------------------------------------------------------------------
Program ==
  \/ \E u \in Uses : RegisterUse(u) \/ SetFlows(u) \/ ReleaseUse(u) \/ DestroyUse(u)
  \/ \E t \in Tasks : StartTask(t) \/ EndTask(t) \/ DeleteTask(t)

MainStep == SpawnWorkLoop \/ Initialize \/ Abort \/ SetUp \/ ShutDown \/ EnqueuePill \/ Join

DebugStep ==
  \/ Poll \/ LockRequests \/ Drain \/ LockState
  \/ \E u \in Uses : PrintUse(u)
  \/ \E t \in Tasks : PrintTask(t)
  \/ EndRead \/ Printed

HandlerStep(place) == HandlerLock(place) \/ HandlerEmplace(place)

Signals == \E place \in Places : Signal(place) \/ HandlerStep(place)

Next == Program \/ Signals \/ MainStep \/ DebugStep

\* The threads are scheduled, and of the handlers that wait for the mutex, which
\* is free between any two polls, one gets it in the end; what the program does,
\* and whether it ends, is its own affair.
Spec ==
  /\ Init /\ [][Next]_vars
  /\ WF_vars(MainStep) /\ WF_vars(DebugStep)
  /\ SF_vars(\E place \in Places : HandlerStep(place))

-----------------------------------------------------------------------------
\* What is printed exists: no use or task is destroyed while it is read, though
\* a task that is running may have released uses that it still lists.
PrintsLive ==
  /\ \A u \in reading \cap Uses : use_state[u] # "destroyed"
  /\ \A t \in reading \cap Tasks : task_state[t] # "deleted"

\* The debug worker was interrupted while it held the mutex that the handler,
\* on top of it, waits for.
Caught == handler["debug"] = "lock" /\ deque_mutex = "debug"

\* A handler waits for an allocator that its own thread was interrupted in.
Hung == \E place \in Places : handler[place] = "hung"

\* Whoever sent the signal before the program was over gets an answer, whether
\* or not the program ends, whichever thread handled it and in spite of the
\* pill: nothing but a handler that locks out its own thread comes between.
RequestsServed ==
  \A r \in 1..NSignals : (signals >= r /\ main = "run") ~> (r \in printed \/ Caught \/ Hung)

\* The pill ends the debug worker, and the program with it, but for such a handler.
ProgramEnds == main = "pill" ~> (main = "returned" \/ Caught \/ Hung)

\* What main prints: "Send signal SIGUSR2 to process ... to introspect state."
\* The signal is answered, if only the allocator lets the handler in.
StateIntrospected ==
  \A r \in 1..NSignals : (signals >= r /\ main = "run") ~> (r \in printed \/ Hung)
=============================================================================
