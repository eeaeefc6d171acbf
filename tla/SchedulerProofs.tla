--------------------------- MODULE SchedulerProofs ---------------------------
(***************************************************************************)
(* The scheduler's safety for any number of workers and any program: the    *)
(* shutdown counter counts the unfinished work, every registered task has   *)
(* one home, nobody leaves early, and every step is one that the abstract   *)
(* pool of TaskPool.tla may take.                                           *)
(***************************************************************************)
EXTENDS Scheduler, Integers, FiniteSetTheorems, TLAPS

Labels == {"unborn", "spawn", "loop", "steal", "task", "alias", "join", "all_tasks_done",
           "release", "notify", "retire", "shutdown", "broadcast", "joining", "exited",
           "returned"}

Types ==
  /\ ready_tasks \in [Workers -> Seq(Operations)]
  /\ shutdown_counter \in Int
  /\ status \in [Tasks -> {"unregistered", "registered", "running", "done"}]
  /\ need \in [Pendable -> SUBSET Tasks]
  /\ out_count \in [Tasks -> Int]
  /\ pc \in [Workers -> Labels]
  /\ op \in [Workers -> Operations]
  /\ notify \in [Workers -> SUBSET Pendable]
  /\ collecting \in [Workers -> BOOLEAN]
  /\ indices \in [Workers -> SUBSET Tasks]
  /\ spawned \in 1..NWorkers
  /\ sent \in 0..NWorkers
  /\ quiesced \in BOOLEAN
  /\ region \in BOOLEAN

\* The steps of a worker that is running an operation, by the operation's kind.
TaskSteps == {"task", "release", "retire"}

Control ==
  \A w \in Workers :
    /\ pc[w] \in TaskSteps => op[w].kind = "task"
    /\ pc[w] = "alias" => op[w].kind = "alias"
    /\ pc[w] = "notify" => op[w].kind \in {"task", "alias"}
    /\ collecting[w] => pc[w] = "task"
    /\ w >= spawned => pc[w] = "unborn"

OnQueue(o) == \E w \in Workers : \E i \in 1..Len(ready_tasks[w]) : ready_tasks[w][i] = o

Once(o) ==
  \A w1, w2 \in Workers :
    \A i1 \in 1..Len(ready_tasks[w1]), i2 \in 1..Len(ready_tasks[w2]) :
      ready_tasks[w1][i1] = o /\ ready_tasks[w2][i2] = o => w1 = w2 /\ i1 = i2

\* A worker has o in hand: it has taken it from a queue and is not done with it.
InHand(w, o) == op[w] = o /\ pc[w] \in {"task", "alias", "release", "notify", "retire"}

\* An operation is in one place: on a queue, pending, or in a worker's hands.
Placed(o) ==
  /\ Once(o)
  /\ OnQueue(o) => need[o] = {}
  /\ \A w \in Workers : InHand(w, o) => ~OnQueue(o) /\ need[o] = {}
  /\ \A w1, w2 \in Workers : InHand(w1, o) /\ InHand(w2, o) => w1 = w2

\* Where a task's operations are says where it is in its life.
Life(t) ==
  /\ status[t] = "registered" <=> OnQueue(TaskOp(t)) \/ need[TaskOp(t)] # {}
  /\ status[t] = "running" <=> \E w \in Workers : op[w] = TaskOp(t) /\ pc[w] = "task"
  /\ \A w \in Workers : InHand(w, TaskOp(t)) => status[t] \in {"running", "done"}
  /\ OnQueue(AliasOp(t)) \/ need[AliasOp(t)] # {} => status[t] = "done"
  /\ \A w \in Workers : InHand(w, AliasOp(t)) => status[t] = "done"

Homes == (\A o \in Pendable : Placed(o)) /\ (\A t \in Tasks : Life(t))

\* Whoever is on the way out has seen the counter at zero, and so has every message.
Closing ==
  (\/ sent > 0
   \/ \E w \in Workers : pc[w] \in {"shutdown", "broadcast", "all_tasks_done", "join",
                                    "joining", "exited", "returned"}
   \/ OnQueue(JoinOp) \/ OnQueue(AllTasksDone))
  => shutdown_counter = 0

\* The worker that brought the counter to zero sends every message.
Closer ==
  shutdown_counter = 0 =>
    \/ \E w \in Workers : pc[w] \in {"shutdown", "broadcast"}
    \/ sent = NWorkers /\ quiesced

\* In a region, worker 0 has a message to join the others before the one that
\* ends its loop.
JoinBefore(n) == \E j \in 1..Len(ready_tasks[Main]) : j < n /\ ready_tasks[Main][j] = JoinOp
JoinsBefore(n) == OthersExited \/ pc[Main] = "join" \/ JoinBefore(n)

JoinFirst ==
  region =>
    /\ \A i \in 1..Len(ready_tasks[Main]) : ready_tasks[Main][i] = AllTasksDone => JoinsBefore(i)
    /\ sent = 0 /\ (\E w \in Workers : pc[w] = "broadcast")
         => JoinsBefore(Len(ready_tasks[Main]) + 1)
    /\ pc[Main] = "all_tasks_done" => OthersExited

MainLeaves == pc[Main] = "returned" => OthersExited

\* The units of an out flow's ready trigger: the task's own and its alias's.
HasOwnUnit(t) == status[t] # "done" \/ \E w \in Workers : op[w] = TaskOp(t) /\ pc[w] = "release"
HasAliasUnit(t) ==
  \/ OnQueue(AliasOp(t))
  \/ need[AliasOp(t)] # {}
  \/ \E w \in Workers : op[w] = AliasOp(t) /\ pc[w] = "alias"
Units(t) == (IF HasOwnUnit(t) THEN 1 ELSE 0) + (IF HasAliasUnit(t) THEN 1 ELSE 0)

\* What is left to wait for is what is not ready.
Awaits(t) ==
  /\ need[AliasOp(t)] \subseteq {Alias[t]}
  /\ status[t] = "done" /\ Aliased(t) => out_count[Alias[t]] = 0 \/ need[AliasOp(t)] # {}
  /\ status[t] = "registered" =>
       \A d \in DependsOn[t] : out_count[d] = 0 \/ d \in need[TaskOp(t)]

Outputs ==
  /\ \A t \in Tasks : out_count[t] = Units(t) /\ Awaits(t)
  /\ \A w \in Workers : pc[w] = "notify" => out_count[op[w].task] = 0


-----------------------------------------------------------------------------
(* Operations and queues                                                    *)

\* Operations are told apart by their kind and task.
LEMMA Ops ==
  /\ \A t \in Tasks :
       /\ TaskOp(t) \in Pendable /\ TaskOp(t).kind = "task" /\ TaskOp(t).task = t
       /\ AliasOp(t) \in Pendable /\ AliasOp(t).kind = "alias" /\ AliasOp(t).task = t
  /\ \A t, u \in Tasks :
       /\ TaskOp(t) # AliasOp(u)
       /\ TaskOp(t) = TaskOp(u) \/ AliasOp(t) = AliasOp(u) => t = u
  /\ \A o \in Pendable :
       /\ o \in Operations /\ o # JoinOp /\ o # AllTasksDone /\ o.task \in Tasks
       /\ \/ o.kind = "task" /\ o = TaskOp(o.task)
          \/ o.kind = "alias" /\ o = AliasOp(o.task)
  /\ \A o \in Operations :
       /\ o.kind \in {"task", "alias", "join", "all_tasks_done"}
       /\ o.kind \in {"task", "alias"} => o \in Pendable
       /\ o.kind = "join" => o = JoinOp
       /\ o.kind = "all_tasks_done" => o = AllTasksDone
  /\ JoinOp \in Operations /\ JoinOp.kind = "join"
  /\ AllTasksDone \in Operations /\ AllTasksDone.kind = "all_tasks_done"
  /\ JoinOp # AllTasksDone
<1>1. \A t \in Tasks :
        /\ TaskOp(t) \in Pendable /\ TaskOp(t).kind = "task" /\ TaskOp(t).task = t
        /\ AliasOp(t) \in Pendable /\ AliasOp(t).kind = "alias" /\ AliasOp(t).task = t
  BY DEF TaskOp, AliasOp, Pendable
<1>2. \A t, u \in Tasks :
        /\ TaskOp(t) # AliasOp(u)
        /\ TaskOp(t) = TaskOp(u) \/ AliasOp(t) = AliasOp(u) => t = u
  BY DEF TaskOp, AliasOp
<1>3. \A o \in Pendable :
        /\ o \in Operations /\ o.task \in Tasks
        /\ \/ o.kind = "task" /\ o = TaskOp(o.task)
           \/ o.kind = "alias" /\ o = AliasOp(o.task)
  BY <1>1 DEF Pendable, Operations
<1>4. /\ JoinOp \in Operations /\ JoinOp.kind = "join"
      /\ AllTasksDone \in Operations /\ AllTasksDone.kind = "all_tasks_done"
      /\ JoinOp # AllTasksDone
  BY DEF JoinOp, AllTasksDone, Operations
<1>5. \A o \in Operations : o \in Pendable \/ o = JoinOp \/ o = AllTasksDone
  BY DEF Operations
<1>6. \A o \in Pendable : o # JoinOp /\ o # AllTasksDone
  BY <1>3, <1>4
<1> QED BY <1>1, <1>2, <1>3, <1>4, <1>5, <1>6

LEMMA WorkerFacts ==
  /\ NWorkers \in Nat \ {0} /\ Main = 0 /\ Main \in Workers
  /\ \A w \in Workers : w \in Nat /\ w < NWorkers
  /\ \A n \in Nat : n < NWorkers => n \in Workers
BY ProgramAssumption DEF Main, Workers

Dequeue(v) == ready_tasks[v] # <<>> /\ ready_tasks' = [ready_tasks EXCEPT ![v] = Tail(@)]

\* What a queue loses with its head.
LEMMA TakeQueue ==
  ASSUME Types, NEW v \in Workers, Dequeue(v), NEW h, h = Head(ready_tasks[v])
  PROVE  /\ h \in Operations /\ OnQueue(h)
         /\ Once(h) => ~OnQueue(h)'
         /\ \A o : /\ OnQueue(o)' => OnQueue(o)
                   /\ OnQueue(o) /\ o # h => OnQueue(o)'
                   /\ Once(o) => Once(o)'
<1> DEFINE q == ready_tasks[v]
<1>1. /\ q \in Seq(Operations) /\ Len(q) \in Nat /\ Len(q) > 0 /\ h = q[1] /\ h \in Operations
  BY DEF Types, Dequeue
<1>2. /\ Len(ready_tasks'[v]) = Len(q) - 1
      /\ \A i \in 1..(Len(q) - 1) : ready_tasks'[v][i] = q[i + 1]
  BY <1>1 DEF Types, Dequeue
<1>3. \A w \in Workers : w # v => ready_tasks'[w] = ready_tasks[w]
  BY DEF Types, Dequeue
<1>4. \A w \in Workers : Len(ready_tasks[w]) \in Nat
  BY DEF Types
<1>5. OnQueue(h)
  BY <1>1 DEF OnQueue
<1>6. ASSUME NEW o, OnQueue(o)' PROVE OnQueue(o)
  <2>1. PICK w \in Workers : \E i \in 1..Len(ready_tasks'[w]) : ready_tasks'[w][i] = o
    BY <1>6 DEF OnQueue
  <2>2. PICK i \in 1..Len(ready_tasks'[w]) : ready_tasks'[w][i] = o
    BY <2>1
  <2>3. CASE w = v
    <3>1. i + 1 \in 1..Len(q) /\ q[i + 1] = o
      <4>1. i \in 1..(Len(q) - 1) /\ ready_tasks'[v][i] = o
        BY <1>2, <2>2, <2>3
      <4>2. i + 1 \in 1..Len(q)
        BY <1>1, <4>1
      <4> QED BY <1>2, <4>1, <4>2
    <3> QED BY <3>1 DEF OnQueue
  <2>4. CASE w # v
    BY <1>3, <2>2, <2>4 DEF OnQueue
  <2> QED BY <2>3, <2>4
<1>7. ASSUME NEW o, OnQueue(o), o # h PROVE OnQueue(o)'
  <2>1. PICK w \in Workers : \E i \in 1..Len(ready_tasks[w]) : ready_tasks[w][i] = o
    BY <1>7 DEF OnQueue
  <2>2. PICK i \in 1..Len(ready_tasks[w]) : ready_tasks[w][i] = o
    BY <2>1
  <2>3. CASE w = v
    <3>1. i # 1 /\ i - 1 \in 1..(Len(q) - 1)
      BY <1>1, <1>7, <2>2, <2>3
    <3>2. ready_tasks'[v][i - 1] = o
      <4>1. ready_tasks'[v][i - 1] = q[(i - 1) + 1]
        BY <1>2, <3>1
      <4>2. (i - 1) + 1 = i
        BY <1>4, <2>2
      <4> QED BY <2>2, <2>3, <4>1, <4>2
    <3> QED BY <1>2, <3>1, <3>2 DEF OnQueue
  <2>4. CASE w # v
    BY <1>3, <2>2, <2>4 DEF OnQueue
  <2> QED BY <2>3, <2>4
<1>8. ASSUME NEW o, Once(o) PROVE Once(o)'
  <2>1. ASSUME NEW x \in Workers, NEW y \in Workers,
               NEW i \in 1..Len(ready_tasks'[x]), NEW j \in 1..Len(ready_tasks'[y]),
               ready_tasks'[x][i] = o, ready_tasks'[y][j] = o
        PROVE  x = y /\ i = j
    <3>0. ASSUME NEW z \in Workers, NEW n \in 1..Len(ready_tasks'[z]), ready_tasks'[z][n] = o
          PROVE  \E k \in 1..Len(ready_tasks[z]) :
                   ready_tasks[z][k] = o /\ k = IF z = v THEN n + 1 ELSE n
      <4>1. CASE z = v
        <5>1. n \in 1..(Len(q) - 1) /\ ready_tasks'[v][n] = o
          BY <1>2, <3>0, <4>1
        <5>2. n + 1 \in 1..Len(q)
          BY <1>1, <5>1
        <5>3. q[n + 1] = o
          BY <1>2, <5>1
        <5> QED BY <4>1, <5>2, <5>3
      <4>2. CASE z # v
        BY <1>3, <3>0, <4>2
      <4> QED BY <4>1, <4>2
    <3>1. PICK k \in 1..Len(ready_tasks[x]) :
            ready_tasks[x][k] = o /\ k = IF x = v THEN i + 1 ELSE i
      BY <2>1, <3>0
    <3>2. PICK l \in 1..Len(ready_tasks[y]) :
            ready_tasks[y][l] = o /\ l = IF y = v THEN j + 1 ELSE j
      BY <2>1, <3>0
    <3>3. x = y /\ k = l
      BY <1>8, <3>1, <3>2 DEF Once
    <3> QED BY <1>4, <3>1, <3>2, <3>3
  <2> QED BY <2>1 DEF Once
<1>9. ASSUME Once(h), OnQueue(h)' PROVE FALSE
  <2>1. PICK w \in Workers : \E i \in 1..Len(ready_tasks'[w]) : ready_tasks'[w][i] = h
    BY <1>9 DEF OnQueue
  <2>2. PICK i \in 1..Len(ready_tasks'[w]) : ready_tasks'[w][i] = h
    BY <2>1
  <2>3. CASE w = v
    <3>1. i + 1 \in 1..Len(q) /\ 1 \in 1..Len(q) /\ q[i + 1] = h /\ q[1] = h
      <4>1. i \in 1..(Len(q) - 1) /\ ready_tasks'[v][i] = h
        BY <1>2, <2>2, <2>3
      <4>2. i + 1 \in 1..Len(q) /\ 1 \in 1..Len(q)
        BY <1>1, <4>1
      <4> QED BY <1>1, <1>2, <4>1, <4>2
    <3>2. i + 1 = 1
      BY <1>9, <3>1 DEF Once
    <3> QED BY <1>2, <1>4, <2>3, <3>2
  <2>4. CASE w # v
    BY <1>1, <1>3, <1>9, <2>2, <2>4 DEF Once
  <2> QED BY <2>3, <2>4
<1> QED BY <1>1, <1>5, <1>6, <1>7, <1>8, <1>9

\* What a queue gains at its end.
LEMMA PutQueue ==
  ASSUME Types, NEW v \in Workers, NEW x \in Operations, Enqueue(v, x)
  PROVE  /\ OnQueue(x)'
         /\ ~OnQueue(x) => Once(x)'
         /\ \A o : o # x => (OnQueue(o)' <=> OnQueue(o)) /\ (Once(o) => Once(o)')
<1> DEFINE q == ready_tasks[v]
           n == Len(q) + 1
<1>1. q \in Seq(Operations) /\ Len(q) \in Nat
  BY DEF Types
<1>2. /\ Len(ready_tasks'[v]) = n /\ ready_tasks'[v][n] = x
      /\ \A i \in 1..Len(q) : ready_tasks'[v][i] = q[i]
  BY <1>1 DEF Types, Enqueue
<1>3. \A w \in Workers : w # v => ready_tasks'[w] = ready_tasks[w]
  BY DEF Types, Enqueue
<1>4. \A w \in Workers : Len(ready_tasks[w]) \in Nat
  BY DEF Types
<1>5. \A w \in Workers : \A i \in 1..Len(ready_tasks[w]) :
        i \in 1..Len(ready_tasks'[w]) /\ ready_tasks'[w][i] = ready_tasks[w][i]
  BY <1>1, <1>2, <1>3, <1>4
<1>6. \A w \in Workers : \A i \in 1..Len(ready_tasks'[w]) :
        ~(w = v /\ i = n) => i \in 1..Len(ready_tasks[w]) /\ ready_tasks'[w][i] = ready_tasks[w][i]
  BY <1>1, <1>2, <1>3, <1>4
<1>7. n \in 1..Len(ready_tasks'[v])
  BY <1>1, <1>2
<1>8. OnQueue(x)'
  BY <1>2, <1>7 DEF OnQueue
<1>9. ASSUME NEW o, o # x PROVE OnQueue(o)' <=> OnQueue(o)
  <2>1. OnQueue(o) => OnQueue(o)'
    BY <1>5 DEF OnQueue
  <2>2. OnQueue(o)' => OnQueue(o)
    BY <1>2, <1>6, <1>9 DEF OnQueue
  <2> QED BY <2>1, <2>2
<1>10. ASSUME NEW o, o # x, Once(o) PROVE Once(o)'
  <2>1. ASSUME NEW y \in Workers, NEW z \in Workers,
               NEW i \in 1..Len(ready_tasks'[y]), NEW j \in 1..Len(ready_tasks'[z]),
               ready_tasks'[y][i] = o, ready_tasks'[z][j] = o
        PROVE  y = z /\ i = j
    <3>1. /\ i \in 1..Len(ready_tasks[y]) /\ ready_tasks[y][i] = o
          /\ j \in 1..Len(ready_tasks[z]) /\ ready_tasks[z][j] = o
      BY <1>2, <1>6, <1>10, <2>1
    <3> QED BY <1>10, <3>1 DEF Once
  <2> QED BY <2>1 DEF Once
<1>11. ASSUME ~OnQueue(x) PROVE Once(x)'
  <2>1. ASSUME NEW w \in Workers, NEW i \in 1..Len(ready_tasks'[w]), ready_tasks'[w][i] = x
        PROVE  w = v /\ i = n
    BY <1>6, <1>11, <2>1 DEF OnQueue
  <2>2. ASSUME NEW y \in Workers, NEW z \in Workers,
               NEW i \in 1..Len(ready_tasks'[y]), NEW j \in 1..Len(ready_tasks'[z]),
               ready_tasks'[y][i] = x, ready_tasks'[z][j] = x
        PROVE  y = z /\ i = j
    BY <2>1, <2>2
  <2> QED BY <2>2 DEF Once
<1> QED BY <1>8, <1>9, <1>10, <1>11

LEMMA SameQueue ==
  ASSUME UNCHANGED ready_tasks
  PROVE  \A o : (OnQueue(o)' <=> OnQueue(o)) /\ (Once(o)' <=> Once(o))
BY DEF OnQueue, Once

-----------------------------------------------------------------------------
(* Types and control                                                        *)

\* A worker takes the operation at the head of its own queue or, if it can be
\* stolen, of another's.
Take(w, v) ==
  /\ pc[w] \in {"loop", "steal"}
  /\ w = v \/ Stealable(Head(ready_tasks[v]))
  /\ Begin(w, Head(ready_tasks[v]))
  /\ Dequeue(v)
  /\ UNCHANGED <<shutdown_counter, need, out_count, notify, collectionVars, shutdownVars>>

StealFails(w) ==
  /\ pc[w] = "steal"
  /\ Goto(w, "loop")
  /\ UNCHANGED <<queueVars, shutdown_counter, taskVars, op, collectionVars, shutdownVars>>

\* The steps of the loop and of the shutdown that touch no operation.
Moves(w) ==
  \/ w = spawned /\ Spawn
  \/ w = Main /\ (RunMainLoop \/ WaitForShutDown)
  \/ PopFails(w) \/ StealFails(w)
  \/ CallQuiescenceCallbacks(w) \/ Join(w) \/ Exit(w)

Registers(w, t) == RegisterTask(w, t) \/ RegisterIndex(w, t)

\* A step is one of these.
LEMMA StepKinds ==
  ASSUME Types, Next
  PROVE  \/ \E w, v \in Workers : Take(w, v)
         \/ \E w \in Workers : Moves(w)
         \/ \E w \in Workers, t \in Tasks : Registers(w, t)
         \/ \E w \in Workers, C \in Collections : BeginCollection(w, C)
         \/ \E w \in Workers : EndCollection(w)
         \/ \E w \in Workers : Finish(w)
         \/ \E w \in Workers : ReleaseOut(w) \/ RunAlias(w)
         \/ \E w \in Workers, o \in Pendable : Notify(w, o)
         \/ \E w \in Workers : NotifiedAll(w)
         \/ \E w \in Workers : Retire(w)
         \/ \E w \in Workers : SendJoin(w) \/ SendAllTasksDone(w)
         \/ UNCHANGED vars
<1>1. CASE MainStep
  <2>1. Spawn => spawned \in Workers
    BY WorkerFacts DEF Types, Spawn
  <2> QED BY <1>1, <2>1, WorkerFacts DEF MainStep, Moves
<1>2. ASSUME NEW w \in Workers, Step(w)
      PROVE  \/ \E v \in Workers : Take(w, v)
             \/ Moves(w)
             \/ \E t \in Tasks : Registers(w, t)
             \/ \E C \in Collections : BeginCollection(w, C)
             \/ EndCollection(w) \/ Finish(w) \/ ReleaseOut(w) \/ RunAlias(w)
             \/ \E o \in Pendable : Notify(w, o)
             \/ NotifiedAll(w) \/ Retire(w) \/ SendJoin(w) \/ SendAllTasksDone(w)
  <2>1. Pop(w) => Take(w, w)
    BY DEF Pop, Take, Dequeue
  <2>2. ASSUME NEW v \in Workers, Steal(w, v) PROVE Take(w, v) \/ StealFails(w)
    BY <2>2 DEF Steal, Take, Dequeue, StealFails, queueVars, taskVars
  <2> QED BY <1>2, <2>1, <2>2 DEF Step, Moves, Registers
<1>3. Returned => UNCHANGED vars
  BY DEF Returned
<1> QED BY <1>1, <1>2, <1>3 DEF Next

\* What the loop's steps leave alone.
LEMMA MovesFrame ==
  ASSUME Types, Control, NEW w \in Workers, Moves(w)
  PROVE  /\ UNCHANGED <<queueVars, shutdown_counter, taskVars, op, collectionVars, region>>
         /\ pc[w] \in {"unborn", "spawn", "loop", "steal", "join", "all_tasks_done", "broadcast",
                       "joining"}
         /\ \E l \in {"spawn", "loop", "steal", "joining", "exited", "returned"} :
              pc' = [pc EXCEPT ![w] = l]
<1>1. Spawn /\ w = spawned => pc[w] = "unborn"
  BY DEF Control, Types
<1> QED BY <1>1 DEF Moves, Spawn, RunMainLoop, WaitForShutDown, PopFails, StealFails,
       CallQuiescenceCallbacks, Join, Exit, Goto, Resume, shutdownVars

LEMMA InitTypes == Init => Types /\ Control
<1> SUFFICES ASSUME Init PROVE Types /\ Control
  OBVIOUS
<1>1. /\ \A w \in Workers : op[w] \in Operations /\ (RunsCallback(w) => op[w] = TaskOp(Root))
      /\ Root \in Tasks
  BY Ops, ProgramAssumption DEF Init
<1>2. \A w \in Workers : ready_tasks[w] \in Seq(Operations)
  BY Ops, ProgramAssumption DEF Init
<1>3. ready_tasks \in [Workers -> Seq(Operations)] /\ op \in [Workers -> Operations]
  BY <1>1, <1>2 DEF Init
<1>5. pc \in [Workers -> Labels] /\ region \in BOOLEAN
  BY DEF Init, Labels
<1>6. status \in [Tasks -> {"unregistered", "registered", "running", "done"}]
  BY DEF Init
<1>7. /\ need \in [Pendable -> SUBSET Tasks] /\ out_count \in [Tasks -> Int]
      /\ notify \in [Workers -> SUBSET Pendable] /\ indices \in [Workers -> SUBSET Tasks]
      /\ collecting \in [Workers -> BOOLEAN]
  BY DEF Init
<1>8. spawned \in 1..NWorkers /\ sent \in 0..NWorkers /\ quiesced \in BOOLEAN
  <2>1. spawned = 1 /\ sent = 0 /\ quiesced = FALSE
    BY DEF Init
  <2>2. NWorkers \in Nat \ {0}
    BY WorkerFacts
  <2>3. 1 \in 1..NWorkers /\ 0 \in 0..NWorkers
    BY <2>2
  <2> QED BY <2>1, <2>3
<1>9. Types
  BY <1>3, <1>5, <1>6, <1>7, <1>8 DEF Init, Types
<1>4. Control
  BY <1>1, Ops, WorkerFacts DEF Init, Control, TaskSteps, RunsCallback, Workers
<1> QED BY <1>4, <1>9

\* The queues stay sequences of operations.
LEMMA QueueTypes ==
  ASSUME Types, NEW v \in Workers,
         \/ Dequeue(v)
         \/ \E o \in Operations : Enqueue(v, o)
         \/ UNCHANGED ready_tasks
  PROVE  ready_tasks' \in [Workers -> Seq(Operations)]
<1>1. ready_tasks \in [Workers -> Seq(Operations)]
  BY DEF Types
<1>2. CASE Dequeue(v)
  <2>1. Tail(ready_tasks[v]) \in Seq(Operations)
    BY <1>1, <1>2 DEF Dequeue
  <2> QED BY <1>1, <1>2, <2>1 DEF Dequeue
<1>3. ASSUME NEW o \in Operations, Enqueue(v, o)
      PROVE  ready_tasks' \in [Workers -> Seq(Operations)]
  <2>1. Append(ready_tasks[v], o) \in Seq(Operations)
    BY <1>1
  <2> QED BY <1>1, <1>3, <2>1 DEF Enqueue
<1> QED BY <1>1, <1>2, <1>3

LEMMA PendingTypes ==
  ASSUME Types, NEW w \in Workers, NEW o \in Pendable, NEW flows \in SUBSET Tasks,
         MakePending(w, o, flows)
  PROVE  /\ ready_tasks' \in [Workers -> Seq(Operations)]
         /\ need' \in [Pendable -> SUBSET Tasks]
<1>1. o \in Operations
  BY Ops
<1>2. Enqueue(w, o) \/ UNCHANGED ready_tasks
  BY DEF MakePending
<1>3. ready_tasks' \in [Workers -> Seq(Operations)]
  BY <1>1, <1>2, QueueTypes
<1>4. need' \in [Pendable -> SUBSET Tasks]
  <2>1. PICK unmet : unmet = {d \in flows : out_count[d] # 0}
    OBVIOUS
  <2>2. unmet \in SUBSET Tasks
    BY <2>1
  <2>3. need' = need \/ need' = [need EXCEPT ![o] = unmet]
    BY <2>1 DEF MakePending
  <2>4. need \in [Pendable -> SUBSET Tasks]
    BY DEF Types
  <2> QED BY <2>2, <2>3, <2>4
<1> QED BY <1>3, <1>4

\* The registering of a task, the task ends, and the counter is given back: the
\* labels that a worker goes through are those of its operation's kind.
LEMMA TypesStep == ASSUME Types, Control, [Next]_vars PROVE Types' /\ Control'
<1>1. ASSUME NEW w \in Workers, NEW v \in Workers, Take(w, v) PROVE Types' /\ Control'
  <2> DEFINE h == Head(ready_tasks[v])
  <2>1. h \in Operations /\ h.kind \in {"task", "alias", "join", "all_tasks_done"}
        /\ (h.kind = "task" => h.task \in Tasks)
    BY <1>1, TakeQueue, Ops DEF Take
  <2>2. ready_tasks' \in [Workers -> Seq(Operations)]
    BY <1>1, QueueTypes DEF Take
  <2>3. /\ op' = [op EXCEPT ![w] = h] /\ pc' = [pc EXCEPT ![w] = h.kind]
        /\ status' = IF h.kind = "task" THEN [status EXCEPT ![h.task] = "running"] ELSE status
        /\ UNCHANGED <<shutdown_counter, need, out_count, notify, collecting, indices, spawned,
                       sent, quiesced, region>>
    BY <1>1 DEF Take, Begin, Goto, collectionVars, shutdownVars
  <2>4. Types'
    BY <2>1, <2>2, <2>3 DEF Types, Labels
  <2>5. pc[w] \in {"loop", "steal"}
    BY <1>1 DEF Take
  <2>6. Control'
    BY <2>1, <2>3, <2>5 DEF Types, Control, TaskSteps
  <2> QED BY <2>4, <2>6
<1>2. ASSUME NEW w \in Workers, Moves(w) PROVE Types' /\ Control'
  <2>1. PICK l \in {"spawn", "loop", "steal", "joining", "exited", "returned"} :
          pc' = [pc EXCEPT ![w] = l]
    BY <1>2, MovesFrame
  <2>2. /\ UNCHANGED <<queueVars, shutdown_counter, taskVars, op, collectionVars, region>>
        /\ pc[w] \in {"unborn", "spawn", "loop", "steal", "join", "all_tasks_done", "broadcast",
                      "joining"}
    BY <1>2, MovesFrame
  <2>3. UNCHANGED <<ready_tasks, need, shutdown_counter, status, out_count, notify, op, collecting,
                    indices, region>>
    BY <2>2 DEF queueVars, taskVars, collectionVars
  <2>4. /\ spawned' \in 1..NWorkers /\ sent' \in 0..NWorkers /\ quiesced' \in BOOLEAN
        /\ spawned' >= spawned /\ (w >= spawned => spawned' = w + 1)
    <3>1. CASE w = spawned /\ Spawn
      BY <3>1, WorkerFacts DEF Spawn, Types
    <3>2. CASE ~(w = spawned /\ Spawn)
      <4>1. UNCHANGED <<spawned, sent>> /\ quiesced' \in BOOLEAN /\ pc[w] # "unborn"
        BY <1>2, <3>2 DEF Moves, RunMainLoop, WaitForShutDown, PopFails, StealFails,
             CallQuiescenceCallbacks, Join, Exit, Types, shutdownVars
      <4> QED BY <4>1, WorkerFacts DEF Types, Control
    <3> QED BY <3>1, <3>2
  <2>5. Types'
    BY <2>1, <2>3, <2>4 DEF Types, Labels
  <2>6. Control'
    BY <2>1, <2>2, <2>3, <2>4, WorkerFacts DEF Types, Control, TaskSteps
  <2> QED BY <2>5, <2>6
<1>3. ASSUME NEW w \in Workers, NEW t \in Tasks, Registers(w, t) PROVE Types' /\ Control'
  <2>1. Register(w, t) /\ collecting' = collecting /\ indices' \in [Workers -> SUBSET Tasks]
    BY <1>3 DEF Registers, RegisterTask, RegisterIndex, collectionVars, Types
  <2>2. /\ ready_tasks' \in [Workers -> Seq(Operations)]
        /\ need' \in [Pendable -> SUBSET Tasks]
    <3>1. DependsOn[t] \in SUBSET Tasks
      BY ProgramAssumption
    <3> QED BY <2>1, <3>1, Ops, PendingTypes DEF Register
  <2>3. Types'
    BY <2>1, <2>2 DEF Register, Types, shutdownVars
  <2>4. Control'
    BY <2>1 DEF Register, Types, Control, shutdownVars
  <2> QED BY <2>3, <2>4
<1>4. ASSUME NEW w \in Workers, NEW C \in Collections, BeginCollection(w, C)
      PROVE  Types' /\ Control'
  <2>1. C \in SUBSET Tasks
    BY ProgramAssumption
  <2>2. Types'
    BY <1>4, <2>1 DEF BeginCollection, Types, queueVars, taskVars, shutdownVars
  <2>3. Control'
    BY <1>4 DEF BeginCollection, Types, Control, shutdownVars
  <2> QED BY <2>2, <2>3
<1>5. ASSUME NEW w \in Workers, EndCollection(w) \/ Retire(w) PROVE Types' /\ Control'
  <2>1. \E l \in {"shutdown", "spawn", "loop", "task"} :
          /\ pc' = [pc EXCEPT ![w] = l]
          /\ l = "task" => pc[w] = "task"
    BY <1>5 DEF EndCollection, Retire, DecrementShutdown, Goto, Resume, Control
  <2>2. Types'
    <3>1. /\ UNCHANGED <<ready_tasks, need, status, out_count, notify, op, indices, spawned, sent,
                         quiesced, region>>
          /\ collecting' = collecting \/ collecting' = [collecting EXCEPT ![w] = FALSE]
          /\ shutdown_counter' = shutdown_counter - 1
      BY <1>5 DEF EndCollection, Retire, DecrementShutdown, queueVars, taskVars,
         collectionVars, shutdownVars
    <3>2. pc' \in [Workers -> Labels]
      BY <2>1 DEF Types, Labels
    <3>3. collecting \in [Workers -> BOOLEAN] /\ shutdown_counter' \in Int
      BY <3>1 DEF Types
    <3>4. collecting' \in [Workers -> BOOLEAN]
      BY <3>1, <3>3, Zenon
    <3> QED BY <3>1, <3>2, <3>3, <3>4 DEF Types
  <2>3. Control'
    BY <1>5, <2>1 DEF EndCollection, Retire, Types, Control, TaskSteps, collectionVars, shutdownVars
  <2> QED BY <2>2, <2>3
<1>6. ASSUME NEW w \in Workers, Finish(w) PROVE Types' /\ Control'
  <2> DEFINE t == op[w].task
  <2>1. t \in Tasks /\ pc[w] = "task" /\ op[w].kind = "task"
    BY <1>6, Ops DEF Finish, Types, Control, TaskSteps
  <2>2. /\ ready_tasks' \in [Workers -> Seq(Operations)]
        /\ need' \in [Pendable -> SUBSET Tasks]
        /\ out_count' \in [Tasks -> Int]
    <3>1. CASE ~Aliased(t)
      BY <1>6, <3>1 DEF Finish, queueVars, Types
    <3>2. CASE Aliased(t)
      <4>1. {Alias[t]} \in SUBSET Tasks
        BY <2>1, <3>2, ProgramAssumption DEF Aliased
      <4>2. MakePending(w, AliasOp(t), {Alias[t]}) /\ out_count' = [out_count EXCEPT ![t] = @ + 1]
        BY <1>6, <3>2 DEF Finish
      <4> QED BY <2>1, <4>1, <4>2, Ops, PendingTypes DEF Types
    <3> QED BY <3>1, <3>2
  <2>3. Types'
    BY <1>6, <2>1, <2>2 DEF Finish, Goto, Types, Labels, collectionVars, shutdownVars
  <2>4. Control'
    BY <1>6, <2>1 DEF Finish, Goto, Types, Control, TaskSteps, collectionVars, shutdownVars
  <2> QED BY <2>3, <2>4
<1>7. ASSUME NEW w \in Workers, ReleaseOut(w) \/ RunAlias(w) PROVE Types' /\ Control'
  <2>1. op[w].task \in Tasks
    <3>1. op[w] \in Operations /\ op[w].kind \in {"task", "alias"}
      BY <1>7 DEF ReleaseOut, RunAlias, Types, Control, TaskSteps
    <3>2. op[w] \in Pendable
      BY <3>1, Ops
    <3> QED BY <3>2, Ops
  <2>2. \E l \in {"notify", "retire", "spawn", "loop"} : pc' = [pc EXCEPT ![w] = l]
    BY <1>7 DEF ReleaseOut, RunAlias, DecrementOut, Goto, Resume
  <2>3. notify' \in [Workers -> SUBSET Pendable] /\ out_count' \in [Tasks -> Int]
    <3>1. /\ \/ notify' = notify
             \/ \E S \in SUBSET Pendable : notify' = [notify EXCEPT ![w] = S]
          /\ out_count' = [out_count EXCEPT ![op[w].task] = @ - 1]
      BY <1>7 DEF ReleaseOut, RunAlias, DecrementOut
    <3>2. notify \in [Workers -> SUBSET Pendable] /\ out_count \in [Tasks -> Int]
      BY DEF Types
    <3>3. notify' \in [Workers -> SUBSET Pendable]
      BY <3>1, <3>2
    <3>4. out_count[op[w].task] - 1 \in Int
      BY <2>1, <3>2
    <3> QED BY <2>1, <3>1, <3>2, <3>3, <3>4
  <2>4. UNCHANGED <<ready_tasks, need, shutdown_counter, status, op, collecting, indices, spawned,
                    sent, quiesced, region>>
    BY <1>7 DEF ReleaseOut, RunAlias, queueVars, collectionVars, shutdownVars
  <2>5. Types'
    BY <2>2, <2>3, <2>4 DEF Types, Labels
  <2>6. Control'
    BY <1>7 DEF ReleaseOut, RunAlias, DecrementOut, Goto, Resume, Types, Control, TaskSteps,
       collectionVars, shutdownVars
  <2> QED BY <2>5, <2>6
<1>8. ASSUME NEW w \in Workers, NEW o \in Pendable, Notify(w, o) PROVE Types' /\ Control'
  <2>1. ready_tasks' \in [Workers -> Seq(Operations)]
    <3>1. o \in Operations
      BY Ops
    <3> QED BY <1>8, <3>1, QueueTypes DEF Notify
  <2>2. Types'
    BY <1>8, <2>1 DEF Notify, Types, collectionVars, shutdownVars
  <2>3. Control'
    BY <1>8 DEF Notify, Control, collectionVars, shutdownVars
  <2> QED BY <2>2, <2>3
<1>9. ASSUME NEW w \in Workers, NotifiedAll(w) PROVE Types' /\ Control'
  BY <1>9 DEF NotifiedAll, Goto, Resume, Types, Control, Labels, TaskSteps, queueVars, taskVars,
     collectionVars, shutdownVars
<1>10. ASSUME NEW w \in Workers, SendJoin(w) \/ SendAllTasksDone(w) PROVE Types' /\ Control'
  <2>1. ready_tasks' \in [Workers -> Seq(Operations)]
    <3>1. SendAllTasksDone(w) => sent \in Workers
      BY WorkerFacts DEF SendAllTasksDone, Types
    <3>2. JoinOp \in Operations /\ AllTasksDone \in Operations
      BY Ops
    <3> QED BY <1>10, <3>1, <3>2, QueueTypes, WorkerFacts DEF SendJoin, SendAllTasksDone
  <2>2. \/ pc' = pc
        \/ pc' = [pc EXCEPT ![w] = "broadcast"]
    BY <1>10 DEF SendJoin, SendAllTasksDone, Goto
  <2>3. sent' \in 0..NWorkers
    BY <1>10, WorkerFacts DEF SendJoin, SendAllTasksDone, Types, shutdownVars
  <2>4. UNCHANGED <<need, shutdown_counter, status, out_count, notify, op, collecting, indices,
                    spawned, quiesced, region>>
    BY <1>10 DEF SendJoin, SendAllTasksDone, taskVars, collectionVars, shutdownVars
  <2>5. Types'
    BY <2>1, <2>2, <2>3, <2>4 DEF Types, Labels
  <2>6. Control'
    BY <1>10 DEF SendJoin, SendAllTasksDone, Goto, Types, Control, TaskSteps, taskVars,
       collectionVars, shutdownVars
  <2> QED BY <2>5, <2>6
<1>11. UNCHANGED vars => Types' /\ Control'
  BY DEF Types, Control, vars
<1> QED BY <1>1, <1>2, <1>3, <1>4, <1>5, <1>6, <1>7, <1>8, <1>9, <1>10, <1>11, StepKinds

-----------------------------------------------------------------------------
(* Every operation has one home                                             *)

\* A step that gives no worker an operation, registers nothing and ends no task
\* moves no operation.
LEMMA HomesFrame ==
  ASSUME Homes, UNCHANGED <<need, status>>,
         \A o \in Pendable : (OnQueue(o)' <=> OnQueue(o)) /\ (Once(o) => Once(o)'),
         \A w \in Workers, o \in Pendable :
           /\ InHand(w, o)' => InHand(w, o)
           /\ op'[w] = o /\ pc'[w] = "task" <=> op[w] = o /\ pc[w] = "task"
  PROVE  Homes'
<1>1. ASSUME NEW o \in Pendable PROVE Placed(o)'
  <2>1. Placed(o)
    BY DEF Homes
  <2> QED BY <2>1 DEF Placed
<1>2. ASSUME NEW t \in Tasks PROVE Life(t)'
  <2>1. Life(t) /\ TaskOp(t) \in Pendable /\ AliasOp(t) \in Pendable
    BY Ops DEF Homes
  <2> QED BY <2>1 DEF Life
<1> QED BY <1>1, <1>2 DEF Homes

\* An operation that is nowhere is put in one place.
LEMMA PlaceNew ==
  ASSUME Types, NEW w \in Workers, NEW o \in Pendable, NEW flows \in SUBSET Tasks,
         MakePending(w, o, flows), ~OnQueue(o), need[o] = {}
  PROVE  /\ Once(o)' /\ (OnQueue(o)' <=> need'[o] = {})
         /\ need'[o] = {d \in flows : out_count[d] # 0}
         /\ \A p \in Pendable : p # o =>
              (OnQueue(p)' <=> OnQueue(p)) /\ (Once(p) => Once(p)') /\ need'[p] = need[p]
<1> DEFINE unmet == {d \in flows : out_count[d] # 0}
<1>1. o \in Operations
  BY Ops
<1>2. CASE unmet = {}
  <2>1. Enqueue(w, o) /\ need' = need
    BY <1>2 DEF MakePending
  <2> QED BY <1>1, <1>2, <2>1, PutQueue
<1>3. CASE unmet # {}
  <2>1. ready_tasks' = ready_tasks /\ need' = [need EXCEPT ![o] = unmet]
    BY <1>3 DEF MakePending
  <2>2. Once(o)
    BY DEF Once, OnQueue
  <2> QED BY <1>3, <2>1, <2>2, SameQueue DEF Types
<1> QED BY <1>2, <1>3

LEMMA TakeHomes ==
  ASSUME Types, Control, Homes, NEW w \in Workers, NEW v \in Workers, Take(w, v)
  PROVE  Homes'
<1>0. PICK h : h = Head(ready_tasks[v])
  OBVIOUS
<1>1. /\ h \in Operations /\ OnQueue(h)
      /\ Once(h) => ~OnQueue(h)'
      /\ \A o : /\ OnQueue(o)' => OnQueue(o)
                /\ OnQueue(o) /\ o # h => OnQueue(o)'
                /\ Once(o) => Once(o)'
  BY <1>0, TakeQueue DEF Take
<1>2. /\ pc[w] \in {"loop", "steal"}
      /\ op' = [op EXCEPT ![w] = h] /\ pc' = [pc EXCEPT ![w] = h.kind]
      /\ status' = IF h.kind = "task" THEN [status EXCEPT ![h.task] = "running"] ELSE status
      /\ need' = need
  BY <1>0 DEF Take, Begin, Goto
<1>3. /\ op'[w] = h /\ pc'[w] = h.kind /\ h.kind \in {"task", "alias", "join", "all_tasks_done"}
      /\ \A x \in Workers : x # w => op'[x] = op[x] /\ pc'[x] = pc[x]
      /\ pc[w] \notin {"task", "alias", "release", "notify", "retire"}
  BY <1>1, <1>2, Ops DEF Types
<1>4. \A x \in Workers : \A o :
        /\ x # w => /\ InHand(x, o)' <=> InHand(x, o)
                    /\ op'[x] = o /\ pc'[x] = "task" <=> op[x] = o /\ pc[x] = "task"
        /\ ~InHand(w, o) /\ ~(op[w] = o /\ pc[w] = "task")
        /\ InHand(w, o)' <=> o = h /\ h.kind \in {"task", "alias"}
  BY <1>3 DEF InHand
<1>5. CASE h \notin Pendable
  <2>1. h.kind \notin {"task", "alias"}
    BY <1>1, <1>5, Ops
  <2>2. status' = status
    BY <1>2, <2>1
  <2>3. \A o \in Pendable : (OnQueue(o)' <=> OnQueue(o)) /\ (Once(o) => Once(o)')
    BY <1>1, <1>5
  <2>4. \A x \in Workers, o \in Pendable :
           /\ InHand(x, o)' => InHand(x, o)
           /\ op'[x] = o /\ pc'[x] = "task" <=> op[x] = o /\ pc[x] = "task"
    BY <1>3, <1>4, <2>1
  <2> QED BY <1>2, <2>2, <2>3, <2>4, HomesFrame
<1>6. CASE h \in Pendable
  <2>0. /\ h.kind \in {"task", "alias"} /\ h.task \in Tasks
        /\ h.kind = "task" => h = TaskOp(h.task)
        /\ h.kind = "alias" => h = AliasOp(h.task)
    BY <1>6, Ops
  <2>1. /\ Placed(h) /\ need[h] = {} /\ \A x \in Workers : ~InHand(x, h)
    BY <1>1, <1>6 DEF Homes, Placed
  <2>2. ~OnQueue(h)'
    BY <1>1, <2>1 DEF Placed
  <2>3. ASSUME NEW o \in Pendable PROVE Placed(o)'
    <3>1. Placed(o)
      BY DEF Homes
    <3>2. CASE o = h
      <4>1. Once(o)'
        BY <1>1, <3>1 DEF Placed
      <4>2. \A x \in Workers : InHand(x, o)' => x = w
        BY <1>4, <2>1, <3>2
      <4> QED BY <1>2, <2>1, <2>2, <3>2, <4>1, <4>2 DEF Placed
    <3>3. CASE o # h
      <4>1. \A x \in Workers : InHand(x, o)' => InHand(x, o)
        BY <1>4, <3>3
      <4> QED BY <1>1, <1>2, <3>1, <3>3, <4>1 DEF Placed
    <3> QED BY <3>2, <3>3
  <2>4. ASSUME NEW t \in Tasks PROVE Life(t)'
    <3>1. Life(t) /\ TaskOp(t) \in Pendable /\ AliasOp(t) \in Pendable /\ TaskOp(t) # AliasOp(t)
      BY Ops DEF Homes
    <3>2. CASE h = TaskOp(t)
      <4>1. h.kind = "task" /\ h.task = t
        BY <3>2, Ops
      <4>2. status'[t] = "running" /\ status[t] = "registered"
        BY <1>1, <1>2, <3>1, <3>2, <4>1 DEF Types, Life
      <4>3. op'[w] = TaskOp(t) /\ pc'[w] = "task"
        BY <1>3, <3>2, <4>1
      <4>4. /\ ~OnQueue(AliasOp(t))' /\ need'[AliasOp(t)] = {}
            /\ \A x \in Workers : ~InHand(x, AliasOp(t))'
        BY <1>1, <1>2, <1>4, <3>1, <3>2, <4>2 DEF Life
      <4> QED BY <1>2, <2>1, <2>2, <3>2, <4>2, <4>3, <4>4 DEF Life
    <3>3. CASE h = AliasOp(t)
      <4>1. h.kind = "alias" /\ h.task = t /\ status' = status /\ status[t] = "done"
        BY <1>1, <1>2, <3>1, <3>3, Ops DEF Life
      <4>2. /\ OnQueue(TaskOp(t))' <=> OnQueue(TaskOp(t))
            /\ \A x \in Workers : InHand(x, TaskOp(t))' <=> InHand(x, TaskOp(t))
            /\ \A x \in Workers : op'[x] = TaskOp(t) /\ pc'[x] = "task"
                                    <=> op[x] = TaskOp(t) /\ pc[x] = "task"
        BY <1>1, <1>3, <1>4, <3>1, <3>3
      <4> QED BY <1>2, <3>1, <4>1, <4>2 DEF Life
    <3>4. CASE h # TaskOp(t) /\ h # AliasOp(t)
      <4>1. status'[t] = status[t]
        BY <1>2, <2>0, <3>4 DEF Types
      <4>2. /\ OnQueue(TaskOp(t))' <=> OnQueue(TaskOp(t))
            /\ OnQueue(AliasOp(t))' <=> OnQueue(AliasOp(t))
            /\ \A x \in Workers : InHand(x, TaskOp(t))' <=> InHand(x, TaskOp(t))
            /\ \A x \in Workers : InHand(x, AliasOp(t))' <=> InHand(x, AliasOp(t))
            /\ \A x \in Workers : op'[x] = TaskOp(t) /\ pc'[x] = "task"
                                    <=> op[x] = TaskOp(t) /\ pc[x] = "task"
        BY <1>1, <1>3, <1>4, <3>4
      <4> QED BY <1>2, <3>1, <4>1, <4>2 DEF Life
    <3> QED BY <3>2, <3>3, <3>4
  <2> QED BY <2>3, <2>4 DEF Homes
<1> QED BY <1>5, <1>6

\* A task that holds a unit keeps the counter above zero; one that is registering
\* a collection keeps it above one.
LEMMA WorkCounted ==
  ASSUME Types, Control, Homes, CounterCountsWork
  PROVE  /\ IsFiniteSet(Holding) /\ IsFiniteSet({w \in Workers : collecting[w]})
         /\ Cardinality(Holding) \in Nat /\ Cardinality({w \in Workers : collecting[w]}) \in Nat
         /\ \A t \in Holding : shutdown_counter > 0
         /\ \A w \in Workers :
              /\ pc[w] \in TaskSteps => op[w].task \in Holding
              /\ collecting[w] => shutdown_counter > 1
<1> DEFINE Collecting == {w \in Workers : collecting[w]}
<1>1. IsFiniteSet(Tasks) /\ IsFiniteSet(Workers)
  BY ProgramAssumption, FS_Interval DEF Workers
<1>2. IsFiniteSet(Holding) /\ Cardinality(Holding) \in Nat
  <2>1. Holding \subseteq Tasks
    BY DEF Holding
  <2> QED BY <1>1, <2>1, FS_Subset, FS_CardinalityType
<1>3. IsFiniteSet(Collecting) /\ Cardinality(Collecting) \in Nat
  <2>1. Collecting \subseteq Workers
    OBVIOUS
  <2> QED BY <1>1, <2>1, FS_Subset, FS_CardinalityType
<1>4. ASSUME NEW t \in Holding PROVE Cardinality(Holding) > 0
  BY <1>2, FS_EmptySet
<1>5. ASSUME NEW w \in Workers, pc[w] \in TaskSteps PROVE op[w].task \in Holding
  <2>1. op[w] = TaskOp(op[w].task) /\ op[w].task \in Tasks
    BY <1>5, Ops DEF Types, Control
  <2>2. CASE pc[w] = "task"
    <3>1. status[op[w].task] = "running"
      BY <2>1, <2>2 DEF Homes, Life
    <3> QED BY <2>1, <3>1 DEF Holding
  <2>3. CASE pc[w] \in {"release", "retire"}
    BY <2>1, <2>3 DEF Holding
  <2> QED BY <1>5, <2>2, <2>3 DEF TaskSteps
<1>6. ASSUME NEW w \in Workers, collecting[w] PROVE shutdown_counter > 1
  <2>1. op[w].task \in Holding
    BY <1>5, <1>6 DEF Control, TaskSteps
  <2>2. Cardinality(Collecting) > 0
    BY <1>3, <1>6, FS_EmptySet
  <2> QED BY <1>2, <1>3, <1>4, <2>1, <2>2 DEF CounterCountsWork
<1>7. ASSUME NEW t \in Holding PROVE shutdown_counter > 0
  BY <1>2, <1>3, <1>4 DEF CounterCountsWork
<1> QED BY <1>2, <1>3, <1>5, <1>6, <1>7

LEMMA RegisterHomes ==
  ASSUME Types, Control, Homes, NEW w \in Workers, NEW t \in Tasks, Register(w, t)
  PROVE  Homes'
<1> DEFINE x == TaskOp(t)
<1>1. /\ status[t] = "unregistered" /\ status' = [status EXCEPT ![t] = "registered"]
      /\ MakePending(w, x, DependsOn[t]) /\ pc' = pc /\ op' = op
  BY DEF Register, CanRegister
<1>2. Life(t) /\ x \in Pendable /\ DependsOn[t] \in SUBSET Tasks
  BY Ops, ProgramAssumption DEF Homes
<1>3. ~OnQueue(x) /\ need[x] = {} /\ \A v \in Workers : ~InHand(v, x)
  BY <1>1, <1>2 DEF Life
<1>4. /\ Once(x)' /\ (OnQueue(x)' <=> need'[x] = {})
      /\ \A p \in Pendable : p # x =>
           (OnQueue(p)' <=> OnQueue(p)) /\ (Once(p) => Once(p)') /\ need'[p] = need[p]
  BY <1>1, <1>2, <1>3, PlaceNew
<1>5. \A v \in Workers : \A o : InHand(v, o)' <=> InHand(v, o)
  BY <1>1 DEF InHand
<1>6. ASSUME NEW o \in Pendable PROVE Placed(o)'
  <2>1. Placed(o)
    BY DEF Homes
  <2> QED BY <1>3, <1>4, <1>5, <2>1 DEF Placed
<1>7. ASSUME NEW u \in Tasks PROVE Life(u)'
  <2>1. Life(u) /\ TaskOp(u) \in Pendable /\ AliasOp(u) \in Pendable /\ AliasOp(u) # x
    BY Ops DEF Homes
  <2>2. CASE u = t
    BY <1>1, <1>2, <1>3, <1>4, <1>5, <2>1, <2>2 DEF Life, Types
  <2>3. CASE u # t
    <3>1. TaskOp(u) # x
      BY <2>3, Ops
    <3>2. status'[u] = status[u]
      BY <1>1, <2>3 DEF Types
    <3> QED BY <1>1, <1>4, <1>5, <2>1, <3>1, <3>2 DEF Life
  <2> QED BY <2>2, <2>3
<1> QED BY <1>6, <1>7 DEF Homes

LEMMA FinishHomes ==
  ASSUME Types, Control, Homes, NEW w \in Workers, Finish(w)
  PROVE  Homes'
<1>. op[w] \in Operations /\ op[w].kind = "task"
  BY DEF Finish, Types, Control, TaskSteps
<1>0. PICK t \in Tasks : t = op[w].task /\ op[w] = TaskOp(t)
  BY Ops
<1>1. /\ pc[w] = "task" /\ pc' = [pc EXCEPT ![w] = "release"] /\ op' = op
      /\ status' = [status EXCEPT ![t] = "done"]
  BY <1>0 DEF Finish, Goto
<1>2. /\ Life(t) /\ status[t] = "running" /\ TaskOp(t) \in Pendable /\ AliasOp(t) \in Pendable
      /\ TaskOp(t) # AliasOp(t) /\ Placed(TaskOp(t))
  <2>1. /\ TaskOp(t) \in Pendable /\ AliasOp(t) \in Pendable /\ TaskOp(t) # AliasOp(t)
    BY Ops
  <2>2. Life(t) /\ Placed(TaskOp(t))
    BY <2>1 DEF Homes
  <2>3. status[t] = "running"
    BY <1>0, <1>1, <2>2 DEF Life
  <2> QED BY <2>1, <2>2, <2>3
<1>3. /\ ~OnQueue(AliasOp(t)) /\ need[AliasOp(t)] = {} /\ \A v \in Workers : ~InHand(v, AliasOp(t))
      /\ Placed(AliasOp(t))
  BY <1>2 DEF Life, Homes
<1>4. /\ Once(AliasOp(t))' /\ (OnQueue(AliasOp(t))' => need'[AliasOp(t)] = {})
      /\ \A p \in Pendable : p # AliasOp(t) =>
           (OnQueue(p)' <=> OnQueue(p)) /\ (Once(p) => Once(p)') /\ need'[p] = need[p]
  <2>1. CASE Aliased(t)
    <3>1. MakePending(w, AliasOp(t), {Alias[t]}) /\ {Alias[t]} \in SUBSET Tasks
      BY <1>0, <2>1, ProgramAssumption DEF Finish, Aliased
    <3> QED BY <1>2, <1>3, <3>1, PlaceNew
  <2>2. CASE ~Aliased(t)
    <3>1. ready_tasks' = ready_tasks /\ need' = need
      BY <1>0, <2>2 DEF Finish, queueVars
    <3> QED BY <1>3, <3>1, SameQueue DEF Placed
  <2> QED BY <2>1, <2>2
<1>5. \A v \in Workers : \A o : InHand(v, o)' <=> InHand(v, o)
  BY <1>1 DEF InHand, Types
<1>6. ASSUME NEW o \in Pendable PROVE Placed(o)'
  <2>1. Placed(o)
    BY DEF Homes
  <2> QED BY <1>3, <1>4, <1>5, <2>1 DEF Placed
<1>7. ASSUME NEW u \in Tasks PROVE Life(u)'
  <2>1. /\ Life(u) /\ TaskOp(u) \in Pendable /\ AliasOp(u) \in Pendable
        /\ AliasOp(t) # TaskOp(u)
    BY Ops DEF Homes
  <2>2. CASE u = t
    <3>1. status'[t] = "done"
      BY <1>1 DEF Types
    <3>2. \A v \in Workers : ~(op'[v] = TaskOp(t) /\ pc'[v] = "task")
      <4> SUFFICES ASSUME NEW v \in Workers, op'[v] = TaskOp(t), pc'[v] = "task" PROVE FALSE
        OBVIOUS
      <4>1. InHand(v, TaskOp(t)) /\ InHand(w, TaskOp(t)) /\ v # w
        BY <1>0, <1>1 DEF InHand, Types
      <4> QED BY <1>2, <4>1 DEF Placed
    <3>3. ~OnQueue(TaskOp(t))' /\ need'[TaskOp(t)] = {}
      BY <1>2, <1>4 DEF Life
    <3> QED BY <2>2, <3>1, <3>2, <3>3 DEF Life
  <2>3. CASE u # t
    <3>1. TaskOp(u) # TaskOp(t) /\ AliasOp(u) # AliasOp(t)
      BY <2>3, Ops
    <3>3. status'[u] = status[u]
      BY <1>1, <2>3 DEF Types
    <3>2. \A v \in Workers : op'[v] = TaskOp(u) /\ pc'[v] = "task"
                               <=> op[v] = TaskOp(u) /\ pc[v] = "task"
      BY <1>0, <1>1, <3>1 DEF Types
    <3> QED BY <1>4, <1>5, <2>1, <3>1, <3>2, <3>3 DEF Life
  <2> QED BY <2>2, <2>3
<1> QED BY <1>6, <1>7 DEF Homes

LEMMA NotifyHomes ==
  ASSUME Types, Control, Homes, NEW w \in Workers, NEW o \in Pendable, Notify(w, o)
  PROVE  Homes'
<1>0. /\ need' = [need EXCEPT ![o] = @ \ {op[w].task}] /\ UNCHANGED <<status, pc, op>>
      /\ IF need[o] = {op[w].task} THEN Enqueue(w, o) ELSE UNCHANGED ready_tasks
  BY DEF Notify
<1>1. /\ \A v \in Workers : \A p : InHand(v, p)' <=> InHand(v, p)
      /\ \A p \in Pendable : p # o => need'[p] = need[p]
      /\ need'[o] = need[o] \ {op[w].task}
  BY <1>0 DEF InHand, Types
<1>2. CASE need[o] # {op[w].task}
  <2>1. \A p : (OnQueue(p)' <=> OnQueue(p)) /\ (Once(p) => Once(p)')
    BY <1>0, <1>2, SameQueue
  <2>2. need'[o] = {} <=> need[o] = {}
    BY <1>1, <1>2
  <2>3. ASSUME NEW p \in Pendable PROVE Placed(p)'
    <3>1. Placed(p)
      BY DEF Homes
    <3> QED BY <1>1, <2>1, <2>2, <3>1 DEF Placed
  <2>4. ASSUME NEW t \in Tasks PROVE Life(t)'
    <3>1. Life(t) /\ TaskOp(t) \in Pendable /\ AliasOp(t) \in Pendable
      BY Ops DEF Homes
    <3> QED BY <1>0, <1>1, <2>1, <2>2, <3>1 DEF Life
  <2> QED BY <2>3, <2>4 DEF Homes
<1>3. CASE need[o] = {op[w].task}
  <2>1. Placed(o) /\ ~OnQueue(o) /\ \A v \in Workers : ~InHand(v, o)
    BY <1>3 DEF Homes, Placed
  <2>2. /\ OnQueue(o)' /\ Once(o)'
        /\ \A p : p # o => (OnQueue(p)' <=> OnQueue(p)) /\ (Once(p) => Once(p)')
    <3>1. o \in Operations
      BY Ops
    <3> QED BY <1>0, <1>3, <2>1, <3>1, PutQueue
  <2>3. need'[o] = {}
    BY <1>1, <1>3
  <2>4. ASSUME NEW p \in Pendable PROVE Placed(p)'
    <3>1. Placed(p)
      BY DEF Homes
    <3> QED BY <1>1, <2>1, <2>2, <2>3, <3>1 DEF Placed
  <2>5. ASSUME NEW t \in Tasks PROVE Life(t)'
    <3>1. Life(t) /\ TaskOp(t) \in Pendable /\ AliasOp(t) \in Pendable
      BY Ops DEF Homes
    <3>2. OnQueue(TaskOp(t))' \/ need'[TaskOp(t)] # {} <=> OnQueue(TaskOp(t)) \/ need[TaskOp(t)] # {}
      BY <1>1, <1>3, <2>2, <3>1
    <3>3. OnQueue(AliasOp(t))' \/ need'[AliasOp(t)] # {}
            <=> OnQueue(AliasOp(t)) \/ need[AliasOp(t)] # {}
      BY <1>1, <1>3, <2>2, <3>1
    <3> QED BY <1>0, <1>1, <3>1, <3>2, <3>3 DEF Life
  <2> QED BY <2>4, <2>5 DEF Homes
<1> QED BY <1>2, <1>3

\* A step that takes nothing from a queue, registers nothing, ends no task and
\* tells nobody: the workers' hands, and the places of operations, are the same
\* or empty.
LEMMA OtherHomes ==
  ASSUME Types, Control, Homes, CounterCountsWork, NEW w \in Workers,
         \/ Moves(w) \/ (\E C \in Collections : BeginCollection(w, C)) \/ EndCollection(w)
         \/ ReleaseOut(w) \/ RunAlias(w) \/ NotifiedAll(w) \/ Retire(w)
         \/ SendJoin(w) \/ SendAllTasksDone(w)
  PROVE  /\ Homes'
         /\ UNCHANGED <<need, status, op>>
         /\ \A o \in Pendable : OnQueue(o)' <=> OnQueue(o)
<1>1. UNCHANGED <<need, status, op>>
  <2>1. Moves(w) => UNCHANGED <<need, status, op>>
    BY MovesFrame DEF queueVars, taskVars
  <2> QED BY <2>1 DEF BeginCollection, EndCollection, ReleaseOut, RunAlias, NotifiedAll, Retire,
       SendJoin, SendAllTasksDone, queueVars, taskVars
<1>2. \A o \in Pendable : (OnQueue(o)' <=> OnQueue(o)) /\ (Once(o) => Once(o)')
  <2>1. CASE SendJoin(w) \/ SendAllTasksDone(w)
    <3>1. \A o \in Pendable : o # JoinOp /\ o # AllTasksDone
      BY Ops
    <3>2. \/ ready_tasks' = ready_tasks
          \/ Enqueue(Main, JoinOp)
          \/ sent \in Workers /\ Enqueue(sent, AllTasksDone)
      BY <2>1, WorkerFacts DEF SendJoin, SendAllTasksDone, Types
    <3>3. Main \in Workers /\ JoinOp \in Operations /\ AllTasksDone \in Operations
      BY Ops, WorkerFacts
    <3>4. CASE ready_tasks' = ready_tasks
      BY <3>4, SameQueue
    <3>5. CASE Enqueue(Main, JoinOp)
      BY <3>1, <3>3, <3>5, PutQueue
    <3>6. CASE sent \in Workers /\ Enqueue(sent, AllTasksDone)
      BY <3>1, <3>3, <3>6, PutQueue
    <3> QED BY <3>2, <3>4, <3>5, <3>6
  <2>2. CASE ~(SendJoin(w) \/ SendAllTasksDone(w))
    <3>1. Moves(w) => ready_tasks' = ready_tasks
      BY MovesFrame DEF queueVars
    <3>2. ready_tasks' = ready_tasks
      BY <2>2, <3>1 DEF BeginCollection, EndCollection, ReleaseOut, RunAlias, NotifiedAll, Retire,
         queueVars
    <3> QED BY <3>2, SameQueue
  <2> QED BY <2>1, <2>2
<1>3. \/ pc' = pc
      \/ /\ pc[w] # "task"
         /\ \E l \in Labels \ {"task", "alias"} :
              /\ pc' = [pc EXCEPT ![w] = l]
              /\ l \in {"release", "notify", "retire"} =>
                   pc[w] \in {"task", "alias", "release", "notify", "retire"}
  <2>1. Moves(w) => /\ pc[w] # "task"
                    /\ \E l \in Labels \ {"task", "alias", "release", "notify", "retire"} :
                         pc' = [pc EXCEPT ![w] = l]
    BY MovesFrame DEF Labels
  <2>2. EndCollection(w) => pc' = pc
    <3> SUFFICES ASSUME EndCollection(w) PROVE pc' = pc
      OBVIOUS
    <3>1. shutdown_counter # 1 /\ pc[w] = "task"
      BY WorkCounted DEF EndCollection, Control
    <3> QED BY <3>1 DEF EndCollection, DecrementShutdown, Goto, Types
  <2>3. CASE ReleaseOut(w) \/ RunAlias(w)
    <3>1. /\ pc[w] \in {"release", "alias"}
          /\ \E l \in {"notify", "retire", "spawn", "loop"} : pc' = [pc EXCEPT ![w] = l]
      BY <2>3 DEF ReleaseOut, RunAlias, DecrementOut, Goto, Resume
    <3> QED BY <3>1 DEF Labels
  <2>4. CASE NotifiedAll(w) \/ Retire(w)
    <3>1. /\ pc[w] \in {"notify", "retire"}
          /\ \E l \in {"shutdown", "retire", "spawn", "loop"} : pc' = [pc EXCEPT ![w] = l]
      BY <2>4 DEF NotifiedAll, Retire, DecrementShutdown, Goto, Resume
    <3> QED BY <3>1 DEF Labels
  <2>5. CASE SendJoin(w) \/ SendAllTasksDone(w)
    BY <2>5 DEF SendJoin, SendAllTasksDone, Goto, Labels
  <2>6. (\E C \in Collections : BeginCollection(w, C)) => pc' = pc
    BY DEF BeginCollection
  <2> QED BY <2>1, <2>2, <2>3, <2>4, <2>5, <2>6
<1>4. \A v \in Workers, o \in Pendable :
        /\ InHand(v, o)' => InHand(v, o)
        /\ op'[v] = o /\ pc'[v] = "task" <=> op[v] = o /\ pc[v] = "task"
  BY <1>1, <1>3 DEF InHand, Types
<1>5. Homes'
  BY <1>1, <1>2, <1>4, HomesFrame
<1> QED BY <1>1, <1>2, <1>5

LEMMA HomesStep ==
  ASSUME Types, Control, Homes, CounterCountsWork, [Next]_vars PROVE Homes'
<1>1. ASSUME NEW w \in Workers, NEW t \in Tasks, Registers(w, t) PROVE Homes'
  <2>1. Register(w, t)
    BY <1>1 DEF Registers, RegisterTask, RegisterIndex
  <2> QED BY <2>1, RegisterHomes
<1>2. UNCHANGED vars => Homes'
  <2> SUFFICES ASSUME UNCHANGED vars PROVE Homes'
    OBVIOUS
  <2>1. UNCHANGED <<ready_tasks, need, status, op, pc>>
    BY DEF vars
  <2> QED BY <2>1, SameQueue, HomesFrame DEF InHand
<1> QED BY <1>1, <1>2, StepKinds, TakeHomes, FinishHomes, NotifyHomes, OtherHomes

LEMMA InitHomes == Init => Homes
<1> SUFFICES ASSUME Init PROVE Homes
  OBVIOUS
<1>1. Types /\ Control
  BY InitTypes
<1>2. \A o \in Pendable : need[o] = {}
  BY DEF Init
<1>3. \A w \in Workers : \A i \in 1..Len(ready_tasks[w]) :
        ~region /\ w = Main /\ i = 1 /\ ready_tasks[w][i] = TaskOp(Root)
  BY DEF Init
<1>4. \A o \in Pendable : OnQueue(o) <=> o = TaskOp(Root) /\ ~region
  <2>1. ~region => Len(ready_tasks[Main]) = 1 /\ ready_tasks[Main][1] = TaskOp(Root)
    BY WorkerFacts DEF Init
  <2> QED BY <1>3, <2>1, WorkerFacts DEF OnQueue
<1>5. \A w \in Workers, o \in Pendable : InHand(w, o) <=> region /\ w = Main /\ o = TaskOp(Root)
  BY Ops DEF Init, InHand, RunsCallback
<1>6. ASSUME NEW o \in Pendable PROVE Placed(o)
  <2>1. Once(o)
    BY <1>3 DEF Once
  <2> QED BY <1>2, <1>4, <1>5, <2>1 DEF Placed
<1>7. ASSUME NEW t \in Tasks PROVE Life(t)
  <2>1. /\ TaskOp(t) \in Pendable /\ AliasOp(t) \in Pendable /\ AliasOp(t) # TaskOp(Root)
        /\ TaskOp(t) = TaskOp(Root) <=> t = Root
    BY Ops, ProgramAssumption
  <2>2. status[t] = IF t # Root THEN "unregistered" ELSE IF region THEN "running" ELSE "registered"
    BY DEF Init
  <2>3. (\E w \in Workers : op[w] = TaskOp(t) /\ pc[w] = "task") <=> region /\ t = Root
    <3>1. \A w \in Workers : pc[w] = "task" => RunsCallback(w) /\ op[w] = TaskOp(Root)
      BY DEF Init
    <3>2. region => pc[Main] = "task" /\ op[Main] = TaskOp(Root)
      BY WorkerFacts DEF Init, RunsCallback
    <3> QED BY <2>1, <3>1, <3>2, WorkerFacts DEF RunsCallback
  <2> QED BY <1>2, <1>4, <1>5, <2>1, <2>2, <2>3 DEF Life
<1> QED BY <1>6, <1>7 DEF Homes

-----------------------------------------------------------------------------
(* shutdown_counter counts the work                                         *)

\* A task leaves Holding when it is retired, and enters it when it is registered.
HoldsUnit(t) ==
  \/ status[t] \in {"registered", "running"}
  \/ \E w \in Workers : op[w] = TaskOp(t) /\ pc[w] \in {"release", "notify", "retire"}

LEMMA HoldingSame ==
  ASSUME \A t \in Tasks : HoldsUnit(t)' <=> HoldsUnit(t)
  PROVE  Holding' = Holding
BY DEF Holding, HoldsUnit

\* Where a step changes no more of a task than its way through run(), it holds its
\* unit as before.
LEMMA HoldsFrame ==
  ASSUME Types, NEW w \in Workers, NEW t \in Tasks,
         status'[t] = status[t],
         \A v \in Workers : v # w => op'[v] = op[v] /\ pc'[v] = pc[v],
         op'[w] = TaskOp(t) /\ pc'[w] \in {"release", "notify", "retire"}
           <=> op[w] = TaskOp(t) /\ pc[w] \in {"release", "notify", "retire"}
  PROVE  HoldsUnit(t)' <=> HoldsUnit(t)
BY DEF HoldsUnit

LEMMA CounterStep ==
  ASSUME Types, Control, Homes, CounterCountsWork, [Next]_vars PROVE CounterCountsWork'
<1> DEFINE Collecting == {w \in Workers : collecting[w]}
<1>0. /\ IsFiniteSet(Holding) /\ IsFiniteSet(Collecting)
      /\ Cardinality(Holding) \in Nat /\ Cardinality(Collecting) \in Nat
  BY WorkCounted
<1>f. ASSUME UNCHANGED <<shutdown_counter, collecting>>, Holding' = Holding PROVE CounterCountsWork'
  BY <1>f DEF CounterCountsWork
<1>1. ASSUME NEW w \in Workers, NEW v \in Workers, Take(w, v) PROVE CounterCountsWork'
  <2>1. PICK h : h = Head(ready_tasks[v])
    OBVIOUS
  <2>2. h \in Operations /\ OnQueue(h)
    BY <1>1, <2>1, TakeQueue DEF Take
  <2>3. /\ pc[w] \in {"loop", "steal"}
        /\ op' = [op EXCEPT ![w] = h] /\ pc' = [pc EXCEPT ![w] = h.kind]
        /\ status' = IF h.kind = "task" THEN [status EXCEPT ![h.task] = "running"] ELSE status
        /\ UNCHANGED <<shutdown_counter, collecting>>
    BY <1>1, <2>1 DEF Take, Begin, Goto, collectionVars
  <2>4. h.kind \in {"task", "alias", "join", "all_tasks_done"}
    BY <2>2, Ops
  <2>5. ASSUME NEW t \in Tasks PROVE HoldsUnit(t)' <=> HoldsUnit(t)
    <3>1. CASE h = TaskOp(t)
      <4>1. h.kind = "task" /\ h.task = t /\ Life(t)
        BY <3>1, Ops DEF Homes
      <4>2. status[t] = "registered" /\ status'[t] = "running"
        BY <2>2, <2>3, <3>1, <4>1 DEF Types, Life
      <4> QED BY <4>2 DEF HoldsUnit
    <3>2. CASE h # TaskOp(t)
      <4>1. h.kind = "task" => h = TaskOp(h.task) /\ h.task \in Tasks
        BY <2>2, Ops
      <4>2. status'[t] = status[t]
        BY <2>3, <3>2, <4>1 DEF Types
      <4> QED BY <2>3, <2>4, <4>2, HoldsFrame DEF Types
    <3> QED BY <3>1, <3>2
  <2> QED BY <1>f, <2>3, <2>5, HoldingSame
<1>2. ASSUME NEW w \in Workers, Moves(w) PROVE CounterCountsWork'
  <2>1. /\ UNCHANGED <<shutdown_counter, collecting, status, op>>
        /\ pc[w] \notin {"release", "notify", "retire"}
        /\ \E l \in Labels \ {"release", "notify", "retire"} : pc' = [pc EXCEPT ![w] = l]
    BY <1>2, MovesFrame DEF taskVars, collectionVars, Labels
  <2>2. \A t \in Tasks : HoldsUnit(t)' <=> HoldsUnit(t)
    BY <2>1, HoldsFrame DEF Types
  <2> QED BY <1>f, <2>1, <2>2, HoldingSame
<1>3. ASSUME NEW w \in Workers, NEW t \in Tasks, Registers(w, t) PROVE CounterCountsWork'
  <2>1. /\ shutdown_counter' = shutdown_counter + 1 /\ status[t] = "unregistered"
        /\ status' = [status EXCEPT ![t] = "registered"] /\ UNCHANGED <<op, pc, collecting>>
    BY <1>3 DEF Registers, RegisterTask, RegisterIndex, Register, CanRegister, collectionVars
  <2>2. t \notin Holding
    <3>1. Life(t) /\ status[t] \notin {"running", "done", "registered"}
      BY <2>1 DEF Homes
    <3> QED BY <3>1 DEF Life, InHand, Holding
  <2>3. Holding' = Holding \cup {t}
    BY <2>1 DEF Holding, Types
  <2>4. Cardinality(Holding') = Cardinality(Holding) + 1
    BY <1>0, <2>2, <2>3, FS_AddElement
  <2> QED BY <1>0, <2>1, <2>4 DEF CounterCountsWork
<1>4. ASSUME NEW w \in Workers, NEW C \in Collections, BeginCollection(w, C)
      PROVE  CounterCountsWork'
  <2>1. /\ shutdown_counter' = shutdown_counter + 1 /\ ~collecting[w]
        /\ collecting' = [collecting EXCEPT ![w] = TRUE] /\ UNCHANGED <<op, pc, status>>
    BY <1>4 DEF BeginCollection, taskVars
  <2>2. Collecting' = Collecting \cup {w} /\ w \notin Collecting
    BY <2>1 DEF Types
  <2>3. Holding' = Holding
    BY <2>1 DEF Holding
  <2>4. Cardinality(Collecting') = Cardinality(Collecting) + 1
    BY <1>0, <2>2, FS_AddElement
  <2> QED BY <1>0, <2>1, <2>3, <2>4 DEF CounterCountsWork
<1>5. ASSUME NEW w \in Workers, EndCollection(w) PROVE CounterCountsWork'
  <2>1. pc[w] = "task" /\ shutdown_counter # 1
    BY <1>5, WorkCounted DEF EndCollection, Control
  <2>2. /\ shutdown_counter' = shutdown_counter - 1 /\ collecting[w]
        /\ collecting' = [collecting EXCEPT ![w] = FALSE] /\ UNCHANGED <<op, pc, status>>
    BY <1>5, <2>1 DEF EndCollection, DecrementShutdown, Goto, taskVars, Types
  <2>3. Collecting' = Collecting \ {w} /\ w \in Collecting
    BY <2>2 DEF Types
  <2>4. Holding' = Holding
    BY <2>2 DEF Holding
  <2>5. Cardinality(Collecting') = Cardinality(Collecting) - 1
    BY <1>0, <2>3, FS_RemoveElement
  <2> QED BY <1>0, <2>2, <2>4, <2>5 DEF CounterCountsWork
<1>6. ASSUME NEW w \in Workers, Finish(w) PROVE CounterCountsWork'
  <2>0. op[w] \in Operations /\ op[w].kind = "task"
    BY <1>6 DEF Finish, Types, Control, TaskSteps
  <2>1. PICK t \in Tasks : t = op[w].task /\ op[w] = TaskOp(t)
    BY <2>0, Ops
  <2>2. /\ pc[w] = "task" /\ pc' = [pc EXCEPT ![w] = "release"] /\ op' = op
        /\ status' = [status EXCEPT ![t] = "done"] /\ UNCHANGED <<shutdown_counter, collecting>>
    BY <1>6, <2>1 DEF Finish, Goto, collectionVars
  <2>3. ASSUME NEW u \in Tasks PROVE HoldsUnit(u)' <=> HoldsUnit(u)
    <3>1. CASE u = t
      <4>1. status[t] = "running"
        BY <2>1, <2>2 DEF Homes, Life
      <4>2. op'[w] = TaskOp(t) /\ pc'[w] = "release"
        BY <2>1, <2>2 DEF Types
      <4> QED BY <3>1, <4>1, <4>2 DEF HoldsUnit
    <3>2. CASE u # t
      <4>1. TaskOp(u) # op[w]
        BY <2>1, <3>2, Ops
      <4>2. status'[u] = status[u]
        BY <2>2, <3>2 DEF Types
      <4> QED BY <2>2, <4>1, <4>2, HoldsFrame DEF Types
    <3> QED BY <3>1, <3>2
  <2> QED BY <1>f, <2>2, <2>3, HoldingSame
<1>7. ASSUME NEW w \in Workers, ReleaseOut(w) \/ RunAlias(w) \/ NotifiedAll(w)
      PROVE  CounterCountsWork'
  <2>1. UNCHANGED <<shutdown_counter, collecting, status, op>>
    BY <1>7 DEF ReleaseOut, RunAlias, NotifiedAll, taskVars, collectionVars
  <2>2. \E l \in {"notify", "retire", "spawn", "loop"} :
          /\ pc' = [pc EXCEPT ![w] = l]
          /\ op[w].kind = "task" =>
               pc[w] \in {"release", "notify"} /\ l \in {"notify", "retire"}
    BY <1>7 DEF ReleaseOut, RunAlias, DecrementOut, NotifiedAll, Goto, Resume, Control
  <2>3. ASSUME NEW t \in Tasks PROVE HoldsUnit(t)' <=> HoldsUnit(t)
    <3>1. op[w] = TaskOp(t) => op[w].kind = "task"
      BY Ops
    <3> QED BY <2>1, <2>2, <3>1, HoldsFrame DEF Types
  <2> QED BY <1>f, <2>1, <2>3, HoldingSame
<1>8. ASSUME NEW w \in Workers, NEW o \in Pendable, Notify(w, o) PROVE CounterCountsWork'
  <2>1. UNCHANGED <<shutdown_counter, collecting, status, op, pc>>
    BY <1>8 DEF Notify, collectionVars
  <2> QED BY <1>f, <2>1 DEF Holding
<1>9. ASSUME NEW w \in Workers, Retire(w) PROVE CounterCountsWork'
  <2>0. op[w] \in Operations /\ op[w].kind = "task" /\ pc[w] = "retire"
    BY <1>9 DEF Retire, Types, Control, TaskSteps
  <2>1. PICK t \in Tasks : t = op[w].task /\ op[w] = TaskOp(t)
    BY <2>0, Ops
  <2>2. /\ UNCHANGED <<collecting, status, op>> /\ shutdown_counter' = shutdown_counter - 1
        /\ \E l \in {"shutdown", "spawn", "loop"} : pc' = [pc EXCEPT ![w] = l]
    BY <1>9 DEF Retire, DecrementShutdown, Goto, Resume, taskVars, collectionVars
  <2>3. HoldsUnit(t) /\ ~HoldsUnit(t)'
    <3>1. HoldsUnit(t)
      BY <2>0, <2>1 DEF HoldsUnit
    <3>2. InHand(w, TaskOp(t)) /\ TaskOp(t) \in Pendable
      BY <2>0, <2>1, Ops DEF InHand
    <3>3. Placed(TaskOp(t)) /\ Life(t)
      BY <3>2 DEF Homes
    <3>4. status[t] = "done"
      <4>1. status[t] \in {"running", "done"}
        BY <3>2, <3>3 DEF Life
      <4>2. ASSUME status[t] = "running" PROVE FALSE
        <5>1. PICK v \in Workers : op[v] = TaskOp(t) /\ pc[v] = "task"
          BY <3>3, <4>2 DEF Life
        <5>2. v = w
          BY <3>2, <3>3, <5>1 DEF InHand, Placed
        <5> QED BY <2>0, <5>1, <5>2
      <4> QED BY <4>1, <4>2
    <3>5. ASSUME NEW v \in Workers, op'[v] = TaskOp(t), pc'[v] \in {"release", "notify", "retire"}
          PROVE FALSE
      <4>1. v # w /\ InHand(v, TaskOp(t))
        BY <2>2, <3>5 DEF Types, InHand
      <4> QED BY <3>2, <3>3, <4>1 DEF Placed
    <3> QED BY <2>2, <3>1, <3>4, <3>5 DEF HoldsUnit
  <2>4. ASSUME NEW u \in Tasks, u # t PROVE HoldsUnit(u)' <=> HoldsUnit(u)
    <3>1. TaskOp(u) # op[w]
      BY <2>1, <2>4, Ops
    <3> QED BY <2>2, <3>1, HoldsFrame DEF Types
  <2>5. Holding' = Holding \ {t} /\ t \in Holding
    BY <2>3, <2>4 DEF Holding, HoldsUnit
  <2>6. Cardinality(Holding') = Cardinality(Holding) - 1
    BY <1>0, <2>5, FS_RemoveElement
  <2> QED BY <1>0, <2>2, <2>6 DEF CounterCountsWork
<1>10. ASSUME NEW w \in Workers, SendJoin(w) \/ SendAllTasksDone(w) PROVE CounterCountsWork'
  <2>1. /\ UNCHANGED <<shutdown_counter, collecting, status, op>>
        /\ \/ pc' = pc
           \/ pc[w] = "shutdown" /\ pc' = [pc EXCEPT ![w] = "broadcast"]
    <3>1. CASE SendJoin(w)
      BY <3>1 DEF SendJoin, Goto, taskVars, collectionVars
    <3>2. CASE SendAllTasksDone(w)
      BY <3>2 DEF SendAllTasksDone, taskVars, collectionVars
    <3> QED BY <1>10, <3>1, <3>2
  <2>2. \A t \in Tasks : HoldsUnit(t)' <=> HoldsUnit(t)
    BY <2>1, HoldsFrame DEF Types
  <2> QED BY <1>f, <2>1, <2>2, HoldingSame
<1>11. UNCHANGED vars => CounterCountsWork'
  BY DEF vars, CounterCountsWork, Holding
<1> QED BY <1>1, <1>2, <1>3, <1>4, <1>5, <1>6, <1>7, <1>8, <1>9, <1>10, <1>11, StepKinds

LEMMA InitCounter == Init => CounterCountsWork
<1> SUFFICES ASSUME Init PROVE CounterCountsWork
  OBVIOUS
<1>1. Holding = {Root}
  <2>1. \A w \in Workers : pc[w] \notin {"release", "notify", "retire"}
    BY DEF Init
  <2>2. \A t \in Tasks : status[t] \in {"registered", "running"} <=> t = Root
    BY DEF Init
  <2> QED BY <2>1, <2>2, ProgramAssumption DEF Holding
<1>2. {w \in Workers : collecting[w]} = {}
  BY DEF Init
<1>3. Cardinality(Holding) = 1 /\ Cardinality({w \in Workers : collecting[w]}) = 0
  BY <1>1, <1>2, FS_EmptySet, FS_Singleton
<1>4. shutdown_counter = 1
  BY DEF Init
<1> QED BY <1>3, <1>4 DEF CounterCountsWork

-----------------------------------------------------------------------------
(* Shutdown                                                                 *)

Leaving == {"shutdown", "broadcast", "all_tasks_done", "join", "joining", "exited", "returned"}

\* While a worker runs a task or gives back what a task held, the counter is not zero.
LEMMA TaskStepsCounted ==
  ASSUME Types, Control, Homes, CounterCountsWork, NEW w \in Workers, pc[w] \in TaskSteps
  PROVE  shutdown_counter > 0
BY WorkCounted

LEMMA ClosingStep ==
  ASSUME Types, Control, Homes, CounterCountsWork, Closing, Closer, [Next]_vars
  PROVE  Closing' /\ Closer'
<1>0. /\ shutdown_counter = 0 => \A w \in Workers : pc[w] \notin TaskSteps
      /\ shutdown_counter \in Int
  BY TaskStepsCounted DEF Types
<1>1. ASSUME NEW w \in Workers, NEW v \in Workers, Take(w, v) PROVE Closing' /\ Closer'
  <2>1. PICK h : h = Head(ready_tasks[v])
    OBVIOUS
  <2>2. /\ h \in Operations /\ OnQueue(h) /\ \A o : OnQueue(o)' => OnQueue(o)
    BY <1>1, <2>1, TakeQueue DEF Take
  <2>3. /\ pc[w] \in {"loop", "steal"} /\ pc' = [pc EXCEPT ![w] = h.kind]
        /\ UNCHANGED <<shutdown_counter, sent, quiesced>>
    BY <1>1, <2>1 DEF Take, Begin, Goto, shutdownVars
  <2>4. /\ h.kind \in {"task", "alias", "join", "all_tasks_done"}
        /\ h.kind \in {"join", "all_tasks_done"} => h = JoinOp \/ h = AllTasksDone
    BY <2>2, Ops
  <2>5. Closing'
    BY <2>2, <2>3, <2>4 DEF Closing, Types
  <2>6. Closer'
    BY <2>3 DEF Closer, Types
  <2> QED BY <2>5, <2>6
<1>2. ASSUME NEW w \in Workers, Moves(w) PROVE Closing' /\ Closer'
  <2>1. UNCHANGED <<ready_tasks, shutdown_counter>> /\ pc[w] # "shutdown"
    BY <1>2, MovesFrame DEF queueVars
  <2>2. /\ sent' = sent
        /\ pc[w] = "broadcast" => sent = NWorkers /\ quiesced'
        /\ quiesced => quiesced'
    <3>1. CASE CallQuiescenceCallbacks(w)
      BY <3>1 DEF CallQuiescenceCallbacks
    <3>2. CASE ~CallQuiescenceCallbacks(w)
      <4>1. UNCHANGED <<sent, quiesced>>
        BY <1>2, <3>2 DEF Moves, Spawn, RunMainLoop, WaitForShutDown, PopFails, StealFails, Join,
           Exit, shutdownVars
      <4>2. pc[w] # "broadcast"
        <5>1. w = spawned => pc[w] = "unborn"
          BY DEF Control, Types
        <5> QED BY <1>2, <3>2, <5>1 DEF Moves, Spawn, RunMainLoop, WaitForShutDown, PopFails,
             StealFails, Join, Exit
      <4> QED BY <4>1, <4>2
    <3> QED BY <3>1, <3>2
  <2>3. PICK l \in {"spawn", "loop", "steal", "joining", "exited", "returned"} :
          pc' = [pc EXCEPT ![w] = l]
    BY <1>2, MovesFrame
  <2>4. l \in {"joining", "exited", "returned"} => pc[w] \in {"all_tasks_done", "joining"}
    BY <1>2, <2>3, MovesFrame DEF Moves, Spawn, RunMainLoop, WaitForShutDown, PopFails, StealFails,
       CallQuiescenceCallbacks, Join, Exit, Goto, Resume, Types
  <2>5. Closing'
    BY <2>1, <2>2, <2>3, <2>4, SameQueue DEF Closing, Types
  <2>6. Closer'
    BY <2>1, <2>2, <2>3 DEF Closer, Types
  <2> QED BY <2>5, <2>6
<1>3. ASSUME NEW w \in Workers, NEW t \in Tasks, Registers(w, t) PROVE Closing' /\ Closer'
  <2>1. /\ shutdown_counter' = shutdown_counter + 1 /\ pc[w] = "task"
        /\ UNCHANGED <<pc, sent>> /\ MakePending(w, TaskOp(t), DependsOn[t])
    BY <1>3 DEF Registers, RegisterTask, RegisterIndex, Register, CanRegister, shutdownVars
  <2>2. shutdown_counter > 0
    BY <2>1, TaskStepsCounted DEF TaskSteps
  <2>3. \A o : o # TaskOp(t) => (OnQueue(o)' <=> OnQueue(o))
    <3>1. Enqueue(w, TaskOp(t)) \/ ready_tasks' = ready_tasks
      BY <2>1 DEF MakePending
    <3> QED BY <3>1, Ops, PutQueue, SameQueue
  <2>4. OnQueue(JoinOp)' => OnQueue(JoinOp)
    BY <2>3, Ops
  <2>5. OnQueue(AllTasksDone)' => OnQueue(AllTasksDone)
    BY <2>3, Ops
  <2> QED BY <1>0, <2>1, <2>2, <2>4, <2>5 DEF Closing, Closer
<1>4. ASSUME NEW w \in Workers, NEW C \in Collections, BeginCollection(w, C)
      PROVE  Closing' /\ Closer'
  <2>1. /\ shutdown_counter' = shutdown_counter + 1 /\ pc[w] = "task"
        /\ UNCHANGED <<pc, sent, ready_tasks>>
    BY <1>4 DEF BeginCollection, queueVars, shutdownVars
  <2>2. shutdown_counter > 0
    BY <2>1, TaskStepsCounted DEF TaskSteps
  <2> QED BY <1>0, <2>1, <2>2, SameQueue DEF Closing, Closer
<1>5. ASSUME NEW w \in Workers, EndCollection(w) \/ Retire(w) PROVE Closing' /\ Closer'
  <2>1. pc[w] \in TaskSteps /\ shutdown_counter > 0
    BY <1>5, TaskStepsCounted DEF EndCollection, Retire, Control, TaskSteps
  <2>2. /\ shutdown_counter' = shutdown_counter - 1
        /\ \E l \in {"shutdown", "spawn", "loop", "task"} :
             /\ pc' = [pc EXCEPT ![w] = l]
             /\ l = "shutdown" <=> shutdown_counter = 1
    BY <1>5 DEF EndCollection, Retire, DecrementShutdown, Goto, Resume
  <2>3. UNCHANGED <<ready_tasks, sent>>
    BY <1>5 DEF EndCollection, Retire, queueVars, shutdownVars
  <2>4. Closing'
    BY <1>0, <2>1, <2>2, <2>3, SameQueue DEF Closing, Types
  <2>5. Closer'
    BY <1>0, <2>1, <2>2 DEF Closer, Types
  <2> QED BY <2>4, <2>5
<1>6. ASSUME NEW w \in Workers, Finish(w) PROVE Closing' /\ Closer'
  <2>1. pc[w] = "task" /\ shutdown_counter > 0
    BY <1>6, TaskStepsCounted DEF Finish, TaskSteps
  <2>2. op[w].task \in Tasks
    <3>1. op[w] \in Operations /\ op[w].kind = "task"
      BY <2>1 DEF Types, Control, TaskSteps
    <3>2. op[w] \in Pendable
      BY <3>1, Ops
    <3> QED BY <3>2, Ops
  <2>3. /\ UNCHANGED <<shutdown_counter, sent>> /\ pc' = [pc EXCEPT ![w] = "release"]
        /\ Enqueue(w, AliasOp(op[w].task)) \/ ready_tasks' = ready_tasks
    BY <1>6 DEF Finish, MakePending, Goto, queueVars, shutdownVars
  <2>4. PICK x \in Pendable : x = AliasOp(op[w].task)
    BY <2>2, Ops
  <2>5. \A o : o # x => (OnQueue(o)' <=> OnQueue(o))
    BY <2>3, <2>4, Ops, PutQueue, SameQueue
  <2>6. (OnQueue(JoinOp)' => OnQueue(JoinOp)) /\ (OnQueue(AllTasksDone)' => OnQueue(AllTasksDone))
    <3>1. x # JoinOp /\ x # AllTasksDone
      BY Ops
    <3> QED BY <2>5, <3>1
  <2>7. Closing'
    BY <2>1, <2>3, <2>6 DEF Closing, Types
  <2> QED BY <2>1, <2>3, <2>7 DEF Closer
<1>7. ASSUME NEW w \in Workers, ReleaseOut(w) \/ RunAlias(w) \/ NotifiedAll(w)
      PROVE  Closing' /\ Closer'
  <2>1. UNCHANGED <<shutdown_counter, ready_tasks, sent, quiesced>>
    BY <1>7 DEF ReleaseOut, RunAlias, NotifiedAll, queueVars, shutdownVars
  <2>2. /\ pc[w] \in {"release", "alias", "notify"}
        /\ \E l \in {"notify", "retire", "spawn", "loop"} : pc' = [pc EXCEPT ![w] = l]
    BY <1>7 DEF ReleaseOut, RunAlias, DecrementOut, NotifiedAll, Goto, Resume
  <2>3. Closing'
    BY <2>1, <2>2, SameQueue DEF Closing, Types
  <2>4. Closer'
    BY <2>1, <2>2 DEF Closer, Types
  <2> QED BY <2>3, <2>4
<1>8. ASSUME NEW w \in Workers, NEW o \in Pendable, Notify(w, o) PROVE Closing' /\ Closer'
  <2>1. /\ UNCHANGED <<shutdown_counter, pc, sent, quiesced>>
        /\ Enqueue(w, o) \/ ready_tasks' = ready_tasks
    BY <1>8 DEF Notify, shutdownVars
  <2>2. \A p : p # o => (OnQueue(p)' <=> OnQueue(p))
    BY <2>1, Ops, PutQueue, SameQueue
  <2>3. (OnQueue(JoinOp)' => OnQueue(JoinOp)) /\ (OnQueue(AllTasksDone)' => OnQueue(AllTasksDone))
    <3>1. o # JoinOp /\ o # AllTasksDone
      BY Ops
    <3> QED BY <2>2, <3>1
  <2> QED BY <2>1, <2>3 DEF Closing, Closer
<1>9. ASSUME NEW w \in Workers, SendJoin(w) \/ SendAllTasksDone(w) PROVE Closing' /\ Closer'
  <2>1. pc[w] \in {"shutdown", "broadcast"} /\ shutdown_counter' = shutdown_counter
    BY <1>9 DEF SendJoin, SendAllTasksDone
  <2>2. shutdown_counter = 0
    BY <2>1 DEF Closing
  <2>3. pc'[w] = "broadcast"
    BY <1>9 DEF SendJoin, SendAllTasksDone, Goto, Types
  <2> QED BY <2>1, <2>2, <2>3 DEF Closing, Closer
<1>10. UNCHANGED vars => Closing' /\ Closer'
  BY SameQueue DEF vars, Closing, Closer
<1> QED BY <1>1, <1>2, <1>3, <1>4, <1>5, <1>6, <1>7, <1>8, <1>9, <1>10, StepKinds

LEMMA InitClosing == Init => Closing /\ Closer
<1> SUFFICES ASSUME Init PROVE Closing /\ Closer
  OBVIOUS
<1>1. ~OnQueue(JoinOp) /\ ~OnQueue(AllTasksDone)
  <2>1. \A w \in Workers : \A i \in 1..Len(ready_tasks[w]) : ready_tasks[w][i] = TaskOp(Root)
    BY DEF Init
  <2>2. TaskOp(Root) # JoinOp /\ TaskOp(Root) # AllTasksDone
    BY Ops, ProgramAssumption
  <2> QED BY <2>1, <2>2 DEF OnQueue
<1> QED BY <1>1 DEF Init, Closing, Closer

\* Nobody comes back from "exited", and worker 0 stays at the join until then.
LEMMA ExitedStays ==
  ASSUME Types, Control, [Next]_vars
  PROVE  /\ OthersExited => OthersExited'
         /\ pc[Main] = "join" => OthersExited' \/ pc'[Main] = "join"
<1> DEFINE Stays(w) == /\ \A v \in Workers : v # w => pc'[v] = pc[v]
                       /\ pc[w] # "exited"
                       /\ pc[w] = "join" => OthersExited
<1>0. ASSUME NEW w \in Workers, Stays(w)
      PROVE  /\ OthersExited => OthersExited'
             /\ pc[Main] = "join" => OthersExited' \/ pc'[Main] = "join"
  <2>1. OthersExited => OthersExited'
    BY <1>0 DEF OthersExited
  <2> QED BY <1>0, <2>1, WorkerFacts
<1>1. pc' = pc => /\ OthersExited => OthersExited'
                  /\ pc[Main] = "join" => OthersExited' \/ pc'[Main] = "join"
  BY DEF OthersExited
<1>2. ASSUME NEW w \in Workers, NEW v \in Workers, Take(w, v) PROVE Stays(w)
  BY <1>2 DEF Take, Begin, Goto, Types
<1>3. ASSUME NEW w \in Workers, Moves(w) PROVE Stays(w)
  <2>1. /\ \A v \in Workers : v # w => pc'[v] = pc[v]
        /\ pc[w] # "exited"
    BY <1>3, MovesFrame DEF Types
  <2>2. pc[w] = "join" => OthersExited
    <3>1. w = spawned => pc[w] = "unborn"
      BY DEF Control, Types
    <3> QED BY <1>3, <3>1 DEF Moves, Spawn, RunMainLoop, WaitForShutDown, PopFails, StealFails,
         CallQuiescenceCallbacks, Join, Exit
  <2> QED BY <2>1, <2>2
<1>4. ASSUME NEW w \in Workers, EndCollection(w) \/ Retire(w) PROVE Stays(w)
  BY <1>4 DEF EndCollection, Retire, DecrementShutdown, Goto, Types, Control
<1>5. ASSUME NEW w \in Workers, Finish(w) \/ ReleaseOut(w) \/ RunAlias(w) \/ NotifiedAll(w)
      PROVE  Stays(w)
  BY <1>5 DEF Finish, ReleaseOut, RunAlias, DecrementOut, NotifiedAll, Goto, Types
<1>6. ASSUME NEW w \in Workers, SendJoin(w) PROVE Stays(w)
  BY <1>6 DEF SendJoin, Goto, Types
<1>7. ASSUME NEW w \in Workers,
             \/ \E t \in Tasks : Registers(w, t)
             \/ \E C \in Collections : BeginCollection(w, C)
             \/ \E o \in Pendable : Notify(w, o)
             \/ SendAllTasksDone(w)
      PROVE  pc' = pc
  BY <1>7 DEF Registers, RegisterTask, RegisterIndex, Register, BeginCollection, Notify,
     SendAllTasksDone
<1>8. UNCHANGED vars => pc' = pc
  BY DEF vars
<1> HIDE DEF Stays
<1> QED BY <1>0, <1>1, <1>2, <1>3, <1>4, <1>5, <1>6, <1>7, <1>8, StepKinds

\* The queue of worker 0 after something is put on a queue.
LEMMA MainQueueGrows ==
  ASSUME Types, NEW v \in Workers, NEW o \in Operations, Enqueue(v, o) \/ UNCHANGED ready_tasks
  PROVE  /\ Len(ready_tasks[Main]) \in Nat /\ Len(ready_tasks'[Main]) \in Nat
         /\ Len(ready_tasks[Main]) <= Len(ready_tasks'[Main])
         /\ \A i \in 1..Len(ready_tasks[Main]) : ready_tasks'[Main][i] = ready_tasks[Main][i]
         /\ \A i \in 1..Len(ready_tasks'[Main]) :
              i > Len(ready_tasks[Main]) =>
                v = Main /\ Enqueue(v, o) /\ i = Len(ready_tasks[Main]) + 1
                /\ ready_tasks'[Main][i] = o
         /\ Enqueue(v, o) /\ v = Main =>
              /\ Len(ready_tasks'[Main]) = Len(ready_tasks[Main]) + 1
              /\ ready_tasks'[Main][Len(ready_tasks[Main]) + 1] = o
<1>1. ready_tasks[Main] \in Seq(Operations) /\ Len(ready_tasks[Main]) \in Nat
  BY WorkerFacts DEF Types
<1>2. CASE ready_tasks' = ready_tasks /\ ~Enqueue(v, o)
  BY <1>1, <1>2
<1>3. CASE Enqueue(v, o) /\ v # Main
  <2>1. ready_tasks'[Main] = ready_tasks[Main]
    BY <1>3, WorkerFacts DEF Enqueue, Types
  <2> QED BY <1>1, <1>3, <2>1
<1>4. CASE Enqueue(v, o) /\ v = Main
  <2>1. ready_tasks'[Main] = Append(ready_tasks[Main], o)
    BY <1>4 DEF Enqueue, Types
  <2> QED BY <1>1, <1>4, <2>1
<1> QED BY <1>2, <1>3, <1>4

\* What is before a message of worker 0's queue stays there.
LEMMA GrownJoins ==
  ASSUME Types, Control, [Next]_vars, NEW v \in Workers, NEW o \in Operations,
         Enqueue(v, o) \/ UNCHANGED ready_tasks, NEW m \in Nat, JoinsBefore(m)
  PROVE  JoinsBefore(m)'
<1>1. CASE OthersExited \/ pc[Main] = "join"
  BY <1>1, ExitedStays DEF JoinsBefore
<1>2. CASE JoinBefore(m)
  <2>1. PICK j \in 1..Len(ready_tasks[Main]) : j < m /\ ready_tasks[Main][j] = JoinOp
    BY <1>2 DEF JoinBefore
  <2>2. j \in 1..Len(ready_tasks'[Main]) /\ ready_tasks'[Main][j] = JoinOp
    BY <2>1, MainQueueGrows
  <2> QED BY <2>1, <2>2 DEF JoinBefore, JoinsBefore
<1> QED BY <1>1, <1>2 DEF JoinsBefore

\* A step that sends no message keeps the order.
LEMMA OthersKeepJoin ==
  ASSUME Types, Control, JoinFirst, [Next]_vars, UNCHANGED <<region, sent>>,
         NEW v \in Workers, NEW o \in Operations, o # AllTasksDone,
         Enqueue(v, o) \/ UNCHANGED ready_tasks,
         (\E w \in Workers : pc'[w] = "broadcast") => (\E w \in Workers : pc[w] = "broadcast"),
         pc'[Main] = "all_tasks_done" => pc[Main] = "all_tasks_done"
  PROVE  JoinFirst'
<1> SUFFICES ASSUME region PROVE JoinFirst'
  BY DEF JoinFirst
<1> DEFINE n == Len(ready_tasks[Main])
<1>1. ASSUME NEW i \in 1..Len(ready_tasks'[Main]), ready_tasks'[Main][i] = AllTasksDone
      PROVE  JoinsBefore(i)'
  <2>1. i \in 1..n /\ ready_tasks[Main][i] = AllTasksDone
    BY <1>1, MainQueueGrows
  <2>2. JoinsBefore(i)
    BY <2>1 DEF JoinFirst
  <2> QED BY <2>2, GrownJoins
<1>2. ASSUME sent' = 0, \E w \in Workers : pc'[w] = "broadcast"
      PROVE  JoinsBefore(Len(ready_tasks[Main]) + 1)'
  <2>1. n \in Nat /\ Len(ready_tasks'[Main]) \in Nat /\ n <= Len(ready_tasks'[Main])
    BY MainQueueGrows
  <2>2. PICK m \in Nat : m = n + 1
    BY <2>1
  <2>3. JoinsBefore(m)
    BY <1>2, <2>2 DEF JoinFirst
  <2>4. JoinsBefore(m)'
    BY <2>3, GrownJoins
  <2> QED BY <2>1, <2>2, <2>4 DEF JoinsBefore, JoinBefore
<1>3. pc'[Main] = "all_tasks_done" => OthersExited'
  BY ExitedStays DEF JoinFirst
<1> QED BY <1>1, <1>2, <1>3 DEF JoinFirst

LEMMA TakeKeepsJoin ==
  ASSUME Types, Control, JoinFirst, [Next]_vars, NEW w \in Workers, NEW v \in Workers, Take(w, v)
  PROVE  JoinFirst'
<1> DEFINE n == Len(ready_tasks[Main])
<1>0. PICK h : h = Head(ready_tasks[v])
  OBVIOUS
<1>1. /\ pc[w] \in {"loop", "steal"} /\ pc' = [pc EXCEPT ![w] = h.kind]
      /\ UNCHANGED <<region, sent>> /\ h \in Operations
      /\ w = v \/ h.kind \in {"task", "alias"}
  BY <1>0, TakeQueue DEF Take, Begin, Goto, Stealable, shutdownVars
<1>2. /\ ready_tasks[Main] \in Seq(Operations) /\ n \in Nat
      /\ v # Main => ready_tasks'[Main] = ready_tasks[Main]
  BY WorkerFacts DEF Take, Dequeue, Types
<1>3. ASSUME v = Main
      PROVE  /\ n > 0 /\ ready_tasks[Main][1] = h /\ Len(ready_tasks'[Main]) = n - 1
             /\ \A i \in 1..(n - 1) : ready_tasks'[Main][i] = ready_tasks[Main][i + 1]
  <2>1. ready_tasks'[Main] = Tail(ready_tasks[Main]) /\ ready_tasks[Main] # <<>>
    BY <1>3 DEF Take, Dequeue, Types
  <2> QED BY <1>0, <1>2, <1>3, <2>1
<1>4. ASSUME NEW m \in Nat, JoinsBefore(IF v = Main THEN m + 1 ELSE m) PROVE JoinsBefore(m)'
  <2>1. CASE OthersExited \/ pc[Main] = "join"
    BY <2>1, ExitedStays DEF JoinsBefore
  <2>2. CASE v # Main /\ JoinBefore(m)
    BY <1>2, <2>2 DEF JoinsBefore, JoinBefore
  <2>3. CASE v = Main /\ JoinBefore(m + 1)
    <3>1. PICK j \in 1..n : j < m + 1 /\ ready_tasks[Main][j] = JoinOp
      BY <2>3 DEF JoinBefore
    <3>2. CASE j = 1
      <4>1. h = JoinOp /\ h.kind = "join" /\ w = Main
        BY <1>1, <1>3, <2>3, <3>1, <3>2, Ops
      <4>2. pc'[Main] = "join"
        BY <1>1, <4>1 DEF Types
      <4> QED BY <4>2 DEF JoinsBefore
    <3>3. CASE j # 1
      <4>1. /\ j - 1 \in 1..Len(ready_tasks'[Main]) /\ j - 1 < m
            /\ ready_tasks'[Main][j - 1] = JoinOp
        BY <1>2, <1>3, <2>3, <3>1, <3>3
      <4> QED BY <4>1 DEF JoinsBefore, JoinBefore
    <3> QED BY <3>2, <3>3
  <2> QED BY <1>4, <2>1, <2>2, <2>3 DEF JoinsBefore
<1> SUFFICES ASSUME region PROVE JoinFirst'
  BY <1>1 DEF JoinFirst
<1>5. ASSUME NEW i \in 1..Len(ready_tasks'[Main]), ready_tasks'[Main][i] = AllTasksDone
      PROVE  JoinsBefore(i)'
  <2>1. PICK k \in 1..n : k = (IF v = Main THEN i + 1 ELSE i) /\ ready_tasks[Main][k] = AllTasksDone
    BY <1>2, <1>3, <1>5
  <2>2. JoinsBefore(k)
    BY <2>1 DEF JoinFirst
  <2> QED BY <1>4, <2>1, <2>2
<1>6. ASSUME sent' = 0, \E x \in Workers : pc'[x] = "broadcast"
      PROVE  JoinsBefore(Len(ready_tasks[Main]) + 1)'
  <2>1. \E x \in Workers : pc[x] = "broadcast"
    <3>1. h.kind # "broadcast"
      BY <1>1, Ops
    <3> QED BY <1>1, <1>6, <3>1 DEF Types
  <2>2. JoinsBefore(n + 1)
    BY <1>1, <1>6, <2>1 DEF JoinFirst
  <2>3. PICK m \in Nat : m = Len(ready_tasks'[Main]) + 1 /\ n + 1 = IF v = Main THEN m + 1 ELSE m
    BY <1>2, <1>3
  <2>4. JoinsBefore(m)'
    BY <1>4, <2>2, <2>3
  <2> QED BY <2>3, <2>4
<1>7. ASSUME pc'[Main] = "all_tasks_done" PROVE OthersExited'
  <2>1. CASE w # Main
    <3>1. pc[Main] = "all_tasks_done"
      BY <1>1, <1>7, <2>1, WorkerFacts DEF Types
    <3> QED BY <3>1, ExitedStays DEF JoinFirst
  <2>2. CASE w = Main
    <3>1. h.kind = "all_tasks_done"
      BY <1>1, <1>7, <2>2 DEF Types
    <3>2. h = AllTasksDone /\ v = Main
      BY <1>1, <2>2, <3>1, Ops
    <3>3. JoinsBefore(1) /\ ~JoinBefore(1)
      BY <1>2, <1>3, <3>2 DEF JoinFirst, JoinBefore
    <3>4. OthersExited
      BY <1>1, <2>2, <3>3 DEF JoinsBefore
    <3> QED BY <3>4, ExitedStays
  <2> QED BY <2>1, <2>2
<1> QED BY <1>5, <1>6, <1>7 DEF JoinFirst

LEMMA JoinStep ==
  ASSUME Types, Control, JoinFirst, MainLeaves, [Next]_vars PROVE JoinFirst' /\ MainLeaves'
<1>0. \A w \in Workers : w = spawned => w # Main
  BY WorkerFacts DEF Types
<1>1. ASSUME NEW w \in Workers, NEW v \in Workers, Take(w, v) PROVE JoinFirst' /\ MainLeaves'
  <2>1. pc'[Main] = "returned" => pc[Main] = "returned"
    <3>1. PICK h \in Operations : h = Head(ready_tasks[v])
      BY <1>1, TakeQueue DEF Take
    <3>2. pc' = [pc EXCEPT ![w] = h.kind] /\ h.kind # "returned"
      BY <1>1, <3>1, Ops DEF Take, Begin, Goto
    <3> QED BY <3>2, WorkerFacts DEF Types
  <2> QED BY <1>1, <2>1, TakeKeepsJoin, ExitedStays DEF MainLeaves
<1>2. ASSUME NEW w \in Workers, Moves(w) PROVE JoinFirst' /\ MainLeaves'
  <2>1. /\ UNCHANGED <<region, ready_tasks>>
        /\ \E l \in {"spawn", "loop", "steal", "joining", "exited", "returned"} :
             pc' = [pc EXCEPT ![w] = l]
    BY <1>2, MovesFrame DEF queueVars
  <2>2. sent' = sent
    BY <1>2 DEF Moves, Spawn, RunMainLoop, WaitForShutDown, PopFails, StealFails,
       CallQuiescenceCallbacks, Join, Exit, shutdownVars
  <2>3. /\ (\E x \in Workers : pc'[x] = "broadcast") => (\E x \in Workers : pc[x] = "broadcast")
        /\ pc'[Main] = "all_tasks_done" => pc[Main] = "all_tasks_done"
    BY <2>1, WorkerFacts DEF Types
  <2>4. JoinFirst'
    BY <2>1, <2>2, <2>3, OthersKeepJoin, WorkerFacts, Ops
  <2>5. pc'[Main] = "returned" => pc[Main] = "returned" \/ OthersExited
    <3>1. CASE w = Main
      <4>1. Moves(w) => \/ RunMainLoop \/ WaitForShutDown \/ PopFails(w) \/ StealFails(w)
                        \/ CallQuiescenceCallbacks(w) \/ Join(w) \/ Exit(w)
        BY <1>0, <3>1 DEF Moves
      <4>2. pc'[w] = "returned" => WaitForShutDown \/ (Exit(w) /\ region)
        BY <1>2, <3>1, <4>1 DEF RunMainLoop, PopFails, StealFails, CallQuiescenceCallbacks, Join,
           Exit, Goto, Resume, Types
      <4> QED BY <3>1, <4>2 DEF WaitForShutDown, Exit, JoinFirst
    <3>2. CASE w # Main
      BY <2>1, <3>2, WorkerFacts DEF Types
    <3> QED BY <3>1, <3>2
  <2> QED BY <2>4, <2>5, ExitedStays DEF MainLeaves
<1>3. ASSUME NEW w \in Workers, SendJoin(w) PROVE JoinFirst' /\ MainLeaves'
  <2>1. /\ pc' = [pc EXCEPT ![w] = "broadcast"] /\ UNCHANGED <<region, sent>>
        /\ region => Enqueue(Main, JoinOp)
    BY <1>3 DEF SendJoin, Goto, shutdownVars
  <2>2. JoinFirst'
    <3> SUFFICES ASSUME region PROVE JoinFirst'
      BY <2>1 DEF JoinFirst
    <3> DEFINE n == Len(ready_tasks[Main])
    <3>0. Enqueue(Main, JoinOp) /\ JoinOp \in Operations /\ JoinOp # AllTasksDone
      BY <2>1, Ops
    <3>1. ASSUME NEW i \in 1..Len(ready_tasks'[Main]), ready_tasks'[Main][i] = AllTasksDone
          PROVE  JoinsBefore(i)'
      <4>1. i \in 1..n /\ ready_tasks[Main][i] = AllTasksDone
        BY <3>0, <3>1, MainQueueGrows, WorkerFacts
      <4>2. JoinsBefore(i)
        BY <4>1 DEF JoinFirst
      <4> QED BY <3>0, <4>2, GrownJoins, WorkerFacts
    <3>2. JoinsBefore(Len(ready_tasks[Main]) + 1)'
      <4>1. /\ n \in Nat /\ Len(ready_tasks'[Main]) = n + 1
            /\ ready_tasks'[Main][n + 1] = JoinOp
        BY <3>0, MainQueueGrows, WorkerFacts
      <4>2. n + 1 \in 1..Len(ready_tasks'[Main]) /\ n + 1 < Len(ready_tasks'[Main]) + 1
        BY <4>1
      <4> QED BY <4>1, <4>2 DEF JoinsBefore, JoinBefore
    <3>3. pc'[Main] = "all_tasks_done" => OthersExited'
      BY <2>1, ExitedStays, WorkerFacts DEF JoinFirst, Types
    <3> QED BY <3>1, <3>2, <3>3 DEF JoinFirst
  <2>3. pc'[Main] = "returned" => pc[Main] = "returned"
    BY <2>1, WorkerFacts DEF Types
  <2> QED BY <2>2, <2>3, ExitedStays DEF MainLeaves
<1>4. ASSUME NEW w \in Workers, SendAllTasksDone(w) PROVE JoinFirst' /\ MainLeaves'
  <2>1. /\ pc[w] = "broadcast" /\ sent' = sent + 1 /\ UNCHANGED <<pc, region>>
        /\ sent \in Workers /\ Enqueue(sent, AllTasksDone) /\ AllTasksDone \in Operations
    BY <1>4, Ops, WorkerFacts DEF SendAllTasksDone, Types
  <2>2. JoinFirst'
    <3> SUFFICES ASSUME region PROVE JoinFirst'
      BY <2>1 DEF JoinFirst
    <3> DEFINE n == Len(ready_tasks[Main])
    <3>1. ASSUME NEW i \in 1..Len(ready_tasks'[Main]), ready_tasks'[Main][i] = AllTasksDone
          PROVE  JoinsBefore(i)'
      <4>1. CASE i > n
        <5>1. sent = 0 /\ i = n + 1
          BY <2>1, <3>1, <4>1, MainQueueGrows, WorkerFacts
        <5>2. JoinsBefore(i)
          BY <2>1, <5>1 DEF JoinFirst
        <5> QED BY <2>1, <5>2, GrownJoins
      <4>2. CASE ~(i > n)
        <5>1. i \in 1..n /\ ready_tasks[Main][i] = AllTasksDone
          BY <2>1, <3>1, <4>2, MainQueueGrows
        <5>2. JoinsBefore(i)
          BY <5>1 DEF JoinFirst
        <5> QED BY <2>1, <5>2, GrownJoins
      <4> QED BY <4>1, <4>2
    <3>2. sent' # 0
      BY <2>1, WorkerFacts
    <3>3. pc'[Main] = "all_tasks_done" => OthersExited'
      BY <2>1, ExitedStays DEF JoinFirst
    <3> QED BY <3>1, <3>2, <3>3 DEF JoinFirst
  <2> QED BY <2>1, <2>2, ExitedStays DEF MainLeaves
<1>5. ASSUME NEW w \in Workers,
             \/ \E t \in Tasks : Registers(w, t)
             \/ \E C \in Collections : BeginCollection(w, C)
             \/ EndCollection(w) \/ Finish(w) \/ ReleaseOut(w) \/ RunAlias(w)
             \/ \E o \in Pendable : Notify(w, o)
             \/ NotifiedAll(w) \/ Retire(w)
      PROVE  JoinFirst' /\ MainLeaves'
  <2>1. UNCHANGED <<region, sent>>
    BY <1>5 DEF Registers, RegisterTask, RegisterIndex, Register, BeginCollection, EndCollection,
       Finish, ReleaseOut, RunAlias, Notify, NotifiedAll, Retire, shutdownVars
  <2>2. \/ pc' = pc
        \/ \E l \in {"release", "notify", "retire", "spawn", "loop", "task", "shutdown"} :
             pc' = [pc EXCEPT ![w] = l]
    BY <1>5 DEF Registers, RegisterTask, RegisterIndex, Register, BeginCollection, EndCollection,
       Finish, ReleaseOut, RunAlias, DecrementOut, DecrementShutdown, Notify, NotifiedAll, Retire,
       Goto, Resume
  <2>3. \E o \in Operations : o # AllTasksDone /\ (Enqueue(w, o) \/ UNCHANGED ready_tasks)
    <3>1. ASSUME NEW t \in Tasks, Registers(w, t)
          PROVE  Enqueue(w, TaskOp(t)) \/ UNCHANGED ready_tasks
      BY <3>1 DEF Registers, RegisterTask, RegisterIndex, Register, MakePending
    <3>2. ASSUME Finish(w) PROVE \E t \in Tasks : Enqueue(w, AliasOp(t)) \/ UNCHANGED ready_tasks
      <4>1. op[w] \in Operations /\ op[w].kind = "task"
        BY <3>2 DEF Finish, Types, Control, TaskSteps
      <4>2. op[w].task \in Tasks
        BY <4>1, Ops
      <4>3. Enqueue(w, AliasOp(op[w].task)) \/ UNCHANGED ready_tasks
        BY <3>2 DEF Finish, MakePending, queueVars
      <4> QED BY <4>2, <4>3
    <3>3. ASSUME NEW o \in Pendable, Notify(w, o) PROVE Enqueue(w, o) \/ UNCHANGED ready_tasks
      BY <3>3 DEF Notify
    <3>4. (\/ \E C \in Collections : BeginCollection(w, C)
           \/ EndCollection(w) \/ ReleaseOut(w) \/ RunAlias(w) \/ NotifiedAll(w) \/ Retire(w))
            => UNCHANGED ready_tasks
      BY DEF BeginCollection, EndCollection, ReleaseOut, RunAlias, NotifiedAll, Retire, queueVars
    <3> QED BY <1>5, <3>1, <3>2, <3>3, <3>4, Ops
  <2>4. /\ (\E x \in Workers : pc'[x] = "broadcast") => (\E x \in Workers : pc[x] = "broadcast")
        /\ pc'[Main] = "all_tasks_done" => pc[Main] = "all_tasks_done"
        /\ pc'[Main] = "returned" => pc[Main] = "returned"
    BY <2>2, WorkerFacts DEF Types
  <2>5. JoinFirst'
    BY <2>1, <2>3, <2>4, OthersKeepJoin
  <2> QED BY <2>4, <2>5, ExitedStays DEF MainLeaves
<1>6. UNCHANGED vars => JoinFirst' /\ MainLeaves'
  BY DEF vars, JoinFirst, JoinsBefore, JoinBefore, MainLeaves, OthersExited
<1> QED BY <1>1, <1>2, <1>3, <1>4, <1>5, <1>6, StepKinds

LEMMA InitJoin == Init => JoinFirst /\ MainLeaves
<1> SUFFICES ASSUME Init PROVE JoinFirst /\ MainLeaves
  OBVIOUS
<1>1. pc[Main] \notin {"all_tasks_done", "returned"} /\ \A w \in Workers : pc[w] # "broadcast"
  BY WorkerFacts DEF Init
<1>2. region => ready_tasks[Main] = <<>>
  BY WorkerFacts DEF Init
<1> QED BY <1>1, <1>2 DEF JoinFirst, MainLeaves

-----------------------------------------------------------------------------
(* The theorems on the counter, the homes and the shutdown                  *)

IInv ==
  /\ Types /\ Control /\ Homes /\ CounterCountsWork /\ Closing /\ Closer
  /\ JoinFirst /\ MainLeaves

LEMMA IInvHolds == SafeSpec => []IInv
<1>1. Init => IInv
  BY InitTypes, InitHomes, InitCounter, InitClosing, InitJoin DEF IInv
<1>2. IInv /\ [Next]_vars => IInv'
  BY TypesStep, HomesStep, CounterStep, ClosingStep, JoinStep DEF IInv
<1> QED BY <1>1, <1>2, PTL DEF SafeSpec

\* What a worker holds and which step it performs fit together, whatever the
\* workers do (run_work_loop, run_operation).
THEOREM SchedulerTypes == SafeSpec => [](Types /\ Control)
<1>1. IInv => Types /\ Control
  BY DEF IInv
<1> QED BY <1>1, IInvHolds, PTL

\* shutdown_counter is never short of a unit for a task that is not retired or a
\* collection that is being registered, nor has it one too many.
THEOREM CounterIsExact == SafeSpec => []CounterCountsWork
<1>1. IInv => CounterCountsWork
  BY DEF IInv
<1> QED BY <1>1, IInvHolds, PTL

LEMMA QueuedOnce ==
  ASSUME Types, NEW o, Once(o)
  PROVE  Cardinality(Queued(o)) = IF OnQueue(o) THEN 1 ELSE 0
<1>1. \A p : p \in Queued(o) <=>
        \E w \in Workers : \E i \in DOMAIN ready_tasks[w] : p = <<w, i>> /\ ready_tasks[w][i] = o
  BY DEF Queued
<1>2. \A w \in Workers : DOMAIN ready_tasks[w] = 1..Len(ready_tasks[w])
  BY DEF Types
<1>3. CASE OnQueue(o)
  <2>1. PICK w \in Workers : \E i \in 1..Len(ready_tasks[w]) : ready_tasks[w][i] = o
    BY <1>3 DEF OnQueue
  <2>2. PICK i \in 1..Len(ready_tasks[w]) : ready_tasks[w][i] = o
    BY <2>1
  <2>3. <<w, i>> \in Queued(o)
    BY <1>1, <1>2, <2>2
  <2>4. ASSUME NEW p \in Queued(o) PROVE p = <<w, i>>
    <3>1. PICK v \in Workers : \E j \in 1..Len(ready_tasks[v]) :
            p = <<v, j>> /\ ready_tasks[v][j] = o
      BY <1>1, <1>2, <2>4
    <3>2. PICK j \in 1..Len(ready_tasks[v]) : p = <<v, j>> /\ ready_tasks[v][j] = o
      BY <3>1
    <3>3. v = w /\ j = i
      BY <2>2, <3>2 DEF Once
    <3> QED BY <3>2, <3>3
  <2>5. Queued(o) = {<<w, i>>}
    BY <2>3, <2>4
  <2> QED BY <1>3, <2>5, FS_Singleton
<1>4. CASE ~OnQueue(o)
  <2>1. Queued(o) = {}
    BY <1>1, <1>2, <1>4 DEF OnQueue
  <2> QED BY <1>4, <2>1, FS_EmptySet
<1> QED BY <1>3, <1>4

\* However workers pop, steal, register and notify, a registered task is pending
\* or on one queue, and a running one is with one worker.
THEOREM EveryTaskHasOneHome == SafeSpec => []OneHome
<1>1. IInv => OneHome
  <2> SUFFICES ASSUME IInv, NEW t \in Tasks
               PROVE  LET homes == Cardinality(Queued(TaskOp(t)))
                                     + IF need[TaskOp(t)] # {} THEN 1 ELSE 0
                      IN  /\ homes = IF status[t] = "registered" THEN 1 ELSE 0
                          /\ Cardinality(RunBy(TaskOp(t))) = IF status[t] = "running" THEN 1 ELSE 0
    BY DEF OneHome
  <2> DEFINE o == TaskOp(t)
  <2>1. Types /\ Homes /\ o \in Pendable /\ o.kind = "task"
    BY Ops DEF IInv
  <2>2. Placed(o) /\ Life(t)
    BY <2>1 DEF Homes
  <2>3. Cardinality(Queued(o)) = IF OnQueue(o) THEN 1 ELSE 0
    BY <2>1, <2>2, QueuedOnce DEF Placed
  <2>4. Cardinality(Queued(o)) + (IF need[o] # {} THEN 1 ELSE 0)
          = IF status[t] = "registered" THEN 1 ELSE 0
    <3>1. OnQueue(o) => need[o] = {}
      BY <2>2 DEF Placed
    <3>2. status[t] = "registered" <=> OnQueue(o) \/ need[o] # {}
      BY <2>2 DEF Life
    <3> QED BY <2>3, <3>1, <3>2
  <2>5. Cardinality(RunBy(o)) = IF status[t] = "running" THEN 1 ELSE 0
    <3>1. \A w : w \in RunBy(o) <=> w \in Workers /\ op[w] = o /\ pc[w] = "task"
      BY <2>1 DEF RunBy
    <3>2. status[t] = "running" <=> \E w \in Workers : w \in RunBy(o)
      BY <2>2, <3>1 DEF Life
    <3>3. \A v, w \in RunBy(o) : v = w
      BY <2>2, <3>1 DEF Placed, InHand
    <3>4. CASE status[t] = "running"
      <4>1. PICK w \in Workers : w \in RunBy(o)
        BY <3>2, <3>4
      <4>2. RunBy(o) = {w}
        BY <3>3, <4>1
      <4> QED BY <3>4, <4>2, FS_Singleton
    <3>5. CASE status[t] # "running"
      <4>1. RunBy(o) = {}
        BY <3>1, <3>2, <3>5
      <4> QED BY <3>5, <4>1, FS_EmptySet
    <3> QED BY <3>4, <3>5
  <2> QED BY <2>4, <2>5
<1> QED BY <1>1, IInvHolds, PTL

\* No message of the shutdown is sent, and no worker has left, while a task is
\* registered or runs: no task is left behind on a queue.
THEOREM NobodyLeavesEarly == SafeSpec => []NoEarlyShutdown
<1>1. IInv => NoEarlyShutdown
  <2> SUFFICES ASSUME IInv, NEW t \in Tasks, status[t] \in {"registered", "running"},
                      sent > 0 \/ \E w \in Workers : pc[w] \in {"shutdown", "broadcast", "exited"}
               PROVE  FALSE
    BY DEF NoEarlyShutdown
  <2>1. t \in Holding
    BY DEF Holding
  <2>2. shutdown_counter > 0
    BY <2>1, WorkCounted DEF IInv
  <2>3. shutdown_counter = 0
    BY DEF IInv, Closing
  <2> QED BY <2>2, <2>3
<1> QED BY <1>1, IInvHolds, PTL

\* When the main thread returns, nobody is left in the loop, every worker was sent
\* its message and the quiescence callbacks were called.
THEOREM MainReturnsQuiescent == SafeSpec => []ReturnsQuiescent
<1>1. IInv => ReturnsQuiescent
  <2> SUFFICES ASSUME IInv, pc[Main] = "returned"
               PROVE  OthersExited /\ sent = NWorkers /\ quiesced
    BY DEF ReturnsQuiescent
  <2>1. OthersExited
    BY DEF IInv, MainLeaves
  <2>2. shutdown_counter = 0
    BY WorkerFacts DEF IInv, Closing
  <2>3. \A w \in Workers : pc[w] \notin {"shutdown", "broadcast"}
    BY <2>1, WorkerFacts DEF OthersExited
  <2> QED BY <2>1, <2>2, <2>3 DEF IInv, Closer
<1> QED BY <1>1, IInvHolds, PTL

-----------------------------------------------------------------------------
(* The out flows, and the pool that the scheduler implements                *)

LEMMA SameUnits ==
  ASSUME Outputs, UNCHANGED <<need, out_count>>,
         \A t \in Tasks :
           /\ HasOwnUnit(t)' <=> HasOwnUnit(t)
           /\ HasAliasUnit(t)' <=> HasAliasUnit(t)
           /\ status'[t] = "done" <=> status[t] = "done"
           /\ status'[t] = "unregistered" <=> status[t] = "unregistered"
           /\ status'[t] = "registered" => status[t] = "registered",
         \A w \in Workers : pc'[w] = "notify" => pc[w] = "notify" /\ op'[w] = op[w]
  PROVE  Outputs'
<1>1. ASSUME NEW t \in Tasks PROVE out_count'[t] = Units(t)'
  BY DEF Outputs, Units
<1>2. ASSUME NEW t \in Tasks PROVE Awaits(t)'
  <2>1. Aliased(t)' => Aliased(t)
    BY ProgramAssumption DEF Aliased, Subtasks
  <2>2. Awaits(t)
    BY DEF Outputs
  <2> QED BY <2>1, <2>2 DEF Awaits
<1>3. \A w \in Workers : pc'[w] = "notify" => out_count'[op'[w].task] = 0
  BY DEF Outputs
<1> QED BY <1>1, <1>2, <1>3 DEF Outputs

\* An out flow is not ready before its task has released it, nor while an alias
\* is pending or runs.
LEMMA UnreadyOut ==
  ASSUME Outputs, NEW t \in Tasks
  PROVE  /\ HasOwnUnit(t) \/ HasAliasUnit(t) <=> out_count[t] # 0
         /\ out_count[t] \in 0..2
BY DEF Outputs, Units

LEMMA TakeOutputs ==
  ASSUME Types, Control, Homes, Outputs, NEW w \in Workers, NEW v \in Workers, Take(w, v)
  PROVE  Outputs'
<1>0. PICK h : h = Head(ready_tasks[v])
  OBVIOUS
<1>1. /\ h \in Operations /\ OnQueue(h)
      /\ \A o : /\ OnQueue(o)' => OnQueue(o)
                /\ OnQueue(o) /\ o # h => OnQueue(o)'
  BY <1>0, TakeQueue DEF Take
<1>2. /\ pc[w] \in {"loop", "steal"}
      /\ op' = [op EXCEPT ![w] = h] /\ pc' = [pc EXCEPT ![w] = h.kind]
      /\ status' = IF h.kind = "task" THEN [status EXCEPT ![h.task] = "running"] ELSE status
      /\ UNCHANGED <<need, out_count>>
  BY <1>0 DEF Take, Begin, Goto
<1>3. /\ h.kind \in {"task", "alias", "join", "all_tasks_done"}
      /\ h.kind = "task" => h.task \in Tasks /\ h = TaskOp(h.task)
  BY <1>1, Ops
<1>4. ASSUME h.kind = "task" PROVE status[h.task] = "registered"
  BY <1>1, <1>3, <1>4 DEF Homes, Life
<1>5. ASSUME NEW t \in Tasks
      PROVE  /\ status'[t] = "done" <=> status[t] = "done"
             /\ status'[t] = "unregistered" <=> status[t] = "unregistered"
             /\ status'[t] = "registered" => status[t] = "registered"
  BY <1>2, <1>3, <1>4 DEF Types
<1>6. ASSUME NEW t \in Tasks PROVE HasOwnUnit(t)' <=> HasOwnUnit(t)
  <2>1. \A x \in Workers : op'[x] = TaskOp(t) /\ pc'[x] = "release"
                             <=> op[x] = TaskOp(t) /\ pc[x] = "release"
    BY <1>2, <1>3 DEF Types
  <2> QED BY <1>5, <2>1 DEF HasOwnUnit
<1>7. ASSUME NEW t \in Tasks PROVE HasAliasUnit(t)' <=> HasAliasUnit(t)
  <2>1. \A x \in Workers : x # w => (op'[x] = AliasOp(t) /\ pc'[x] = "alias"
                                       <=> op[x] = AliasOp(t) /\ pc[x] = "alias")
    BY <1>2 DEF Types
  <2>2. /\ pc[w] # "alias"
        /\ op'[w] = h /\ pc'[w] = h.kind
    BY <1>2 DEF Types
  <2>3. AliasOp(t).kind = "alias"
    BY Ops
  <2>4. CASE h = AliasOp(t)
    BY <1>1, <2>2, <2>3, <2>4 DEF HasAliasUnit
  <2>5. CASE h # AliasOp(t)
    BY <1>1, <1>2, <2>1, <2>2, <2>5 DEF HasAliasUnit
  <2> QED BY <2>4, <2>5
<1>8. \A x \in Workers : pc'[x] = "notify" => pc[x] = "notify" /\ op'[x] = op[x]
  BY <1>2, <1>3 DEF Types
<1> QED BY <1>2, <1>5, <1>6, <1>7, <1>8, SameUnits

LEMMA OtherOutputs ==
  ASSUME Types, Control, Homes, CounterCountsWork, Outputs, NEW w \in Workers,
         \/ Moves(w) \/ (\E C \in Collections : BeginCollection(w, C)) \/ EndCollection(w)
         \/ NotifiedAll(w) \/ Retire(w) \/ SendJoin(w) \/ SendAllTasksDone(w)
  PROVE  Outputs' /\ UNCHANGED <<status, out_count>>
<1>1. UNCHANGED <<need, status, op>> /\ \A o \in Pendable : OnQueue(o)' <=> OnQueue(o)
  BY OtherHomes
<1>2. out_count' = out_count
  <2>1. Moves(w) => out_count' = out_count
    BY MovesFrame DEF taskVars
  <2> QED BY <2>1 DEF BeginCollection, EndCollection, NotifiedAll, Retire, SendJoin,
       SendAllTasksDone, taskVars
<1>3. \/ pc' = pc
      \/ /\ pc[w] \notin {"release", "alias"}
         /\ \E l \in Labels \ {"release", "alias", "notify"} : pc' = [pc EXCEPT ![w] = l]
  <2>1. Moves(w) => /\ pc[w] \notin {"release", "alias"}
                    /\ \E l \in Labels \ {"release", "alias", "notify"} :
                         pc' = [pc EXCEPT ![w] = l]
    BY MovesFrame DEF Labels
  <2>2. CASE EndCollection(w) \/ Retire(w)
    <3>1. /\ pc[w] \in {"task", "retire"}
          /\ \E l \in {"shutdown", "spawn", "loop", "task"} : pc' = [pc EXCEPT ![w] = l]
      BY <2>2 DEF EndCollection, Retire, DecrementShutdown, Goto, Resume, Control
    <3> QED BY <3>1 DEF Labels
  <2>3. CASE NotifiedAll(w)
    <3>1. /\ pc[w] = "notify"
          /\ \E l \in {"retire", "spawn", "loop"} : pc' = [pc EXCEPT ![w] = l]
      BY <2>3 DEF NotifiedAll, Goto, Resume
    <3> QED BY <3>1 DEF Labels
  <2>4. CASE SendJoin(w) \/ SendAllTasksDone(w)
    BY <2>4 DEF SendJoin, SendAllTasksDone, Goto, Labels
  <2>5. (\E C \in Collections : BeginCollection(w, C)) => pc' = pc
    BY DEF BeginCollection
  <2> QED BY <2>1, <2>2, <2>3, <2>4, <2>5
<1>4. \A x \in Workers : /\ pc'[x] = "release" <=> pc[x] = "release"
                         /\ pc'[x] = "alias" <=> pc[x] = "alias"
                         /\ pc'[x] = "notify" => pc[x] = "notify"
  BY <1>3 DEF Types
<1>5. ASSUME NEW t \in Tasks
      PROVE  (HasOwnUnit(t)' <=> HasOwnUnit(t)) /\ (HasAliasUnit(t)' <=> HasAliasUnit(t))
  <2>1. AliasOp(t) \in Pendable
    BY Ops
  <2> QED BY <1>1, <1>4, <2>1 DEF HasOwnUnit, HasAliasUnit
<1>6. Outputs'
  BY <1>1, <1>2, <1>4, <1>5, SameUnits
<1> QED BY <1>1, <1>2, <1>6

LEMMA RegisterOutputs ==
  ASSUME Types, Control, Homes, Outputs, NEW w \in Workers, NEW t \in Tasks, Register(w, t)
  PROVE  Outputs'
<1> DEFINE x == TaskOp(t)
<1>1. /\ status[t] = "unregistered" /\ status' = [status EXCEPT ![t] = "registered"]
      /\ MakePending(w, x, DependsOn[t]) /\ UNCHANGED <<pc, op, out_count>>
      /\ pc[w] = "task" /\ t \in Subtasks(op[w].task)
  BY DEF Register, CanRegister
<1>2. Life(t) /\ x \in Pendable /\ DependsOn[t] \in SUBSET Tasks
  BY Ops, ProgramAssumption DEF Homes
<1>3. ~OnQueue(x) /\ need[x] = {}
  BY <1>1, <1>2 DEF Life
<1>4. /\ need'[x] = {d \in DependsOn[t] : out_count[d] # 0}
      /\ \A p \in Pendable : p # x => (OnQueue(p)' <=> OnQueue(p)) /\ need'[p] = need[p]
  BY <1>1, <1>2, <1>3, PlaceNew
<1>5. \A u \in Tasks : u # t => status'[u] = status[u]
  BY <1>1 DEF Types
<1>6. status'[t] = "registered"
  BY <1>1 DEF Types
<1>7. ASSUME NEW u \in Tasks PROVE out_count'[u] = Units(u)' /\ Awaits(u)'
  <2>0. AliasOp(u) # x /\ AliasOp(u) \in Pendable /\ TaskOp(u) \in Pendable
    BY Ops
  <2>1. HasOwnUnit(u)' <=> HasOwnUnit(u)
    BY <1>1, <1>5, <1>6 DEF HasOwnUnit
  <2>2. HasAliasUnit(u)' <=> HasAliasUnit(u)
    BY <1>1, <1>4, <2>0 DEF HasAliasUnit
  <2>3. out_count'[u] = Units(u)'
    BY <1>1, <2>1, <2>2 DEF Outputs, Units
  <2>4. Awaits(u) /\ need'[AliasOp(u)] = need[AliasOp(u)]
    BY <1>4, <2>0 DEF Outputs
  <2>5. status'[u] = "done" /\ Aliased(u)' => status[u] = "done" /\ Aliased(u)
    <3> SUFFICES ASSUME status'[u] = "done", Aliased(u)' PROVE status[u] = "done" /\ Aliased(u)
      OBVIOUS
    <3>1. u # t /\ status[u] = "done"
      BY <1>5, <1>6
    <3>2. CASE Alias[u] = t
      <4>1. ParentOf[t] = u /\ ParentOf[t] = op[w].task
        BY <1>1, <3>2, ProgramAssumption DEF Subtasks
      <4>2. op[w] = TaskOp(u)
        <5>1. op[w] \in Operations /\ op[w].kind = "task"
          BY <1>1 DEF Types, Control, TaskSteps
        <5> QED BY <4>1, <5>1, Ops
      <4>3. status[u] = "running"
        BY <1>1, <4>2 DEF Homes, Life
      <4> QED BY <3>1, <4>3
    <3>3. CASE Alias[u] # t
      BY <1>5, <3>1, <3>3, ProgramAssumption DEF Aliased, Subtasks
    <3> QED BY <3>2, <3>3
  <2>6. ASSUME status'[u] = "registered", NEW d \in DependsOn[u]
        PROVE  out_count'[d] = 0 \/ d \in need'[TaskOp(u)]
    <3>1. CASE u = t
      BY <1>1, <1>4, <2>6, <3>1
    <3>2. CASE u # t
      <4>1. TaskOp(u) # x
        BY <3>2, Ops
      <4> QED BY <1>1, <1>4, <1>5, <2>0, <2>4, <2>6, <3>2, <4>1 DEF Awaits
    <3> QED BY <3>1, <3>2
  <2>7. Awaits(u)'
    BY <1>1, <2>4, <2>5, <2>6 DEF Awaits
  <2> QED BY <2>3, <2>7
<1>8. \A v \in Workers : pc'[v] = "notify" => out_count'[op'[v].task] = 0
  BY <1>1 DEF Outputs
<1> QED BY <1>7, <1>8 DEF Outputs

LEMMA FinishOutputs ==
  ASSUME Types, Control, Homes, Outputs, NEW w \in Workers, Finish(w)
  PROVE  /\ Outputs'
         /\ \A t \in Tasks : out_count'[t] = 0 <=> out_count[t] = 0
<1>. op[w] \in Operations /\ op[w].kind = "task"
  BY DEF Finish, Types, Control, TaskSteps
<1>0. PICK t \in Tasks : t = op[w].task /\ op[w] = TaskOp(t)
  BY Ops
<1> DEFINE x == AliasOp(t)
<1>1. /\ pc[w] = "task" /\ pc' = [pc EXCEPT ![w] = "release"] /\ op' = op
      /\ status' = [status EXCEPT ![t] = "done"]
  BY <1>0 DEF Finish, Goto
<1>2. x \in Pendable /\ \A u \in Tasks : TaskOp(u) # x /\ (u # t => AliasOp(u) # x)
  BY Ops
<1>3. status[t] = "running" /\ Life(t)
  BY <1>0, <1>1 DEF Homes, Life
<1>4. ~OnQueue(x) /\ need[x] = {} /\ \A v \in Workers : ~InHand(v, x)
  BY <1>3 DEF Life
<1>5. HasOwnUnit(t) /\ ~HasAliasUnit(t) /\ out_count[t] = 1
  <2>1. HasOwnUnit(t) /\ ~HasAliasUnit(t)
    BY <1>3, <1>4 DEF HasOwnUnit, HasAliasUnit, InHand
  <2> QED BY <2>1 DEF Outputs, Units
<1>6. \A u \in Tasks : u # t => status'[u] = status[u]
  BY <1>1 DEF Types
<1>7. status'[t] = "done" /\ op'[w] = TaskOp(t) /\ pc'[w] = "release"
  BY <1>0, <1>1 DEF Types
<1>8. \A u \in Tasks : Aliased(u)' <=> Aliased(u)
  <2>1. \A u \in Tasks : status'[u] = "unregistered" <=> status[u] = "unregistered"
    BY <1>3, <1>6, <1>7
  <2> QED BY <2>1, ProgramAssumption DEF Aliased, Subtasks
<1>9. /\ \A p \in Pendable : p # x => (OnQueue(p)' <=> OnQueue(p)) /\ need'[p] = need[p]
      /\ \A u \in Tasks : u # t => out_count'[u] = out_count[u]
      /\ Aliased(t) => /\ out_count'[t] = 2
                       /\ need'[x] = {d \in {Alias[t]} : out_count[d] # 0}
                       /\ OnQueue(x)' <=> need'[x] = {}
      /\ ~Aliased(t) => out_count'[t] = 1 /\ need'[x] = {} /\ ~OnQueue(x)'
  <2>1. CASE Aliased(t)
    <3>1. /\ MakePending(w, x, {Alias[t]}) /\ {Alias[t]} \in SUBSET Tasks
          /\ out_count' = [out_count EXCEPT ![t] = @ + 1]
      BY <1>0, <2>1, ProgramAssumption DEF Finish, Aliased
    <3>2. /\ OnQueue(x)' <=> need'[x] = {}
          /\ need'[x] = {d \in {Alias[t]} : out_count[d] # 0}
          /\ \A p \in Pendable : p # x => (OnQueue(p)' <=> OnQueue(p)) /\ need'[p] = need[p]
      BY <1>2, <1>4, <3>1, PlaceNew
    <3>3. /\ \A u \in Tasks : u # t => out_count'[u] = out_count[u]
          /\ out_count'[t] = 2
      BY <1>5, <3>1 DEF Types
    <3> QED BY <2>1, <3>2, <3>3
  <2>2. CASE ~Aliased(t)
    <3>1. UNCHANGED <<out_count, ready_tasks, need>>
      BY <1>0, <2>2 DEF Finish, queueVars
    <3> QED BY <1>4, <1>5, <2>2, <3>1, SameQueue
  <2> QED BY <2>1, <2>2
<1>10. \A u \in Tasks : out_count'[u] = 0 <=> out_count[u] = 0
  BY <1>5, <1>9
<1>11. \A v \in Workers : \A u \in Tasks :
         /\ op'[v] = AliasOp(u) /\ pc'[v] = "alias" <=> op[v] = AliasOp(u) /\ pc[v] = "alias"
         /\ u # t => (op'[v] = TaskOp(u) /\ pc'[v] = "release"
                        <=> op[v] = TaskOp(u) /\ pc[v] = "release")
  <2>1. \A u \in Tasks : u # t => TaskOp(u) # op[w]
    BY <1>0, Ops
  <2> QED BY <1>1, <2>1 DEF Types
<1>12. ASSUME NEW u \in Tasks PROVE out_count'[u] = Units(u)' /\ Awaits(u)'
  <2>0. AliasOp(u) \in Pendable /\ TaskOp(u) \in Pendable
    BY Ops
  <2>1. CASE u = t
    <3>1. HasOwnUnit(t)'
      BY <1>7 DEF HasOwnUnit
    <3>2. HasAliasUnit(t)' <=> Aliased(t)
      BY <1>4, <1>9, <1>11 DEF HasAliasUnit, InHand
    <3>3. out_count'[t] = Units(t)'
      BY <1>9, <3>1, <3>2 DEF Units
    <3>4. Awaits(t)'
      <4>1. need'[x] \subseteq {Alias[t]}
        BY <1>9
      <4>2. Aliased(t)' => out_count'[Alias[t]] = 0 \/ need'[x] # {}
        <5> SUFFICES ASSUME Aliased(t), need'[x] = {} PROVE out_count'[Alias[t]] = 0
          BY <1>8
        <5>1. out_count[Alias[t]] = 0 /\ Alias[t] \in Tasks
          BY <1>9, ProgramAssumption DEF Aliased, Subtasks
        <5> QED BY <1>10, <5>1
      <4> QED BY <1>7, <4>1, <4>2 DEF Awaits
    <3> QED BY <2>1, <3>3, <3>4
  <2>2. CASE u # t
    <3>1. HasOwnUnit(u)' <=> HasOwnUnit(u)
      BY <1>6, <1>11, <2>2 DEF HasOwnUnit
    <3>2. HasAliasUnit(u)' <=> HasAliasUnit(u)
      BY <1>2, <1>9, <1>11, <2>0, <2>2 DEF HasAliasUnit
    <3>3. out_count'[u] = Units(u)'
      BY <1>9, <2>2, <3>1, <3>2 DEF Outputs, Units
    <3>4. /\ Awaits(u) /\ need'[AliasOp(u)] = need[AliasOp(u)]
          /\ need'[TaskOp(u)] = need[TaskOp(u)] /\ status'[u] = status[u]
      BY <1>2, <1>6, <1>9, <2>0, <2>2 DEF Outputs
    <3>5. Awaits(u)'
      <4>1. Aliased(u) => Alias[u] \in Tasks
        BY ProgramAssumption DEF Aliased, Subtasks
      <4>2. DependsOn[u] \subseteq Tasks
        BY ProgramAssumption
      <4> QED BY <1>8, <1>10, <3>4, <4>1, <4>2 DEF Awaits
    <3> QED BY <3>3, <3>5
  <2> QED BY <2>1, <2>2
<1>13. ASSUME NEW v \in Workers, pc'[v] = "notify" PROVE out_count'[op'[v].task] = 0
  <2>1. pc[v] = "notify" /\ op'[v] = op[v]
    BY <1>1, <1>13 DEF Types
  <2>2. op[v].task \in Tasks /\ out_count[op[v].task] = 0
    <3>1. op[v] \in Operations /\ op[v].kind \in {"task", "alias"}
      BY <2>1 DEF Types, Control
    <3> QED BY <2>1, <3>1, Ops DEF Outputs
  <2> QED BY <1>10, <2>1, <2>2
<1> QED BY <1>10, <1>12, <1>13 DEF Outputs

\* A unit is given back by the task itself, at the end, or by its alias, once the
\* subtask's out flow is ready.
LEMMA DecrementOutputs ==
  ASSUME Types, Control, Homes, Outputs, NEW w \in Workers, ReleaseOut(w) \/ RunAlias(w)
  PROVE  /\ Outputs'
         /\ UNCHANGED <<status, need, op>>
         /\ \E t \in Tasks :
              /\ t = op[w].task /\ status[t] = "done" /\ out_count[t] # 0
              /\ out_count' = [out_count EXCEPT ![t] = @ - 1]
<1>. op[w] \in Operations /\ op[w].kind \in {"task", "alias"}
  BY DEF ReleaseOut, RunAlias, Types, Control, TaskSteps
<1>0. PICK t \in Tasks : t = op[w].task /\ op[w] \in {TaskOp(t), AliasOp(t)}
  BY Ops
<1>1. /\ out_count' = [out_count EXCEPT ![t] = @ - 1]
      /\ UNCHANGED <<ready_tasks, need, status, op>>
      /\ \E l \in {"notify", "retire", "spawn", "loop"} :
           /\ pc' = [pc EXCEPT ![w] = l]
           /\ l = "notify" <=> out_count[t] = 1
  BY <1>0 DEF ReleaseOut, RunAlias, DecrementOut, Goto, Resume, queueVars
<1>2. /\ Placed(TaskOp(t)) /\ Placed(AliasOp(t)) /\ Life(t) /\ TaskOp(t) # AliasOp(t)
      /\ TaskOp(t).kind = "task" /\ AliasOp(t).kind = "alias"
  BY Ops DEF Homes
<1>3. \/ pc[w] = "release" /\ op[w] = TaskOp(t)
      \/ pc[w] = "alias" /\ op[w] = AliasOp(t)
  BY <1>0, <1>2 DEF ReleaseOut, RunAlias, Control, TaskSteps
<1>4. InHand(w, op[w])
  BY <1>3 DEF InHand
<1>5. status[t] = "done"
  <2>1. CASE op[w] = AliasOp(t)
    BY <1>2, <1>4, <2>1 DEF Life
  <2>2. CASE op[w] = TaskOp(t)
    <3>1. status[t] \in {"running", "done"}
      BY <1>2, <1>4, <2>2 DEF Life
    <3>2. ASSUME status[t] = "running" PROVE FALSE
      <4>1. PICK v \in Workers : op[v] = TaskOp(t) /\ pc[v] = "task"
        BY <1>2, <3>2 DEF Life
      <4>2. v = w
        BY <1>2, <1>4, <2>2, <4>1 DEF Placed, InHand
      <4> QED BY <1>2, <1>3, <2>2, <4>1, <4>2
    <3> QED BY <3>1, <3>2
  <2> QED BY <1>0, <2>1, <2>2
<1>6. /\ op[w] = TaskOp(t) => /\ HasOwnUnit(t) /\ ~HasOwnUnit(t)'
                              /\ HasAliasUnit(t)' <=> HasAliasUnit(t)
      /\ op[w] = AliasOp(t) => /\ HasAliasUnit(t) /\ ~HasAliasUnit(t)'
                               /\ HasOwnUnit(t)' <=> HasOwnUnit(t)
  <2>1. CASE op[w] = TaskOp(t)
    <3>1. HasOwnUnit(t)
      BY <1>2, <1>3, <2>1 DEF HasOwnUnit
    <3>2. ~HasOwnUnit(t)'
      <4> SUFFICES ASSUME NEW v \in Workers, op'[v] = TaskOp(t), pc'[v] = "release" PROVE FALSE
        BY <1>1, <1>5 DEF HasOwnUnit
      <4>1. v # w /\ InHand(v, TaskOp(t))
        BY <1>1 DEF Types, InHand
      <4> QED BY <1>2, <1>4, <2>1, <4>1 DEF Placed
    <3>3. \A v \in Workers : op'[v] = AliasOp(t) /\ pc'[v] = "alias"
                               <=> op[v] = AliasOp(t) /\ pc[v] = "alias"
      BY <1>1, <1>2, <2>1 DEF Types
    <3>4. HasAliasUnit(t)' <=> HasAliasUnit(t)
      BY <1>1, <3>3, SameQueue DEF HasAliasUnit
    <3> QED BY <1>2, <2>1, <3>1, <3>2, <3>4
  <2>2. CASE op[w] = AliasOp(t)
    <3>1. HasAliasUnit(t)
      BY <1>2, <1>3, <2>2 DEF HasAliasUnit
    <3>2. ~OnQueue(AliasOp(t))' /\ need'[AliasOp(t)] = {}
      BY <1>1, <1>2, <1>4, <2>2, SameQueue DEF Placed
    <3>3. ASSUME NEW v \in Workers, op'[v] = AliasOp(t), pc'[v] = "alias" PROVE FALSE
      <4>1. v # w /\ InHand(v, AliasOp(t))
        BY <1>1, <3>3 DEF Types, InHand
      <4> QED BY <1>2, <1>4, <2>2, <4>1 DEF Placed
    <3>4. \A v \in Workers : op'[v] = TaskOp(t) /\ pc'[v] = "release"
                               <=> op[v] = TaskOp(t) /\ pc[v] = "release"
      BY <1>1, <1>2, <2>2 DEF Types
    <3>5. HasOwnUnit(t)' <=> HasOwnUnit(t)
      BY <1>1, <3>4 DEF HasOwnUnit
    <3> QED BY <1>2, <2>2, <3>1, <3>2, <3>3, <3>5 DEF HasAliasUnit
  <2> QED BY <1>0, <2>1, <2>2
<1>7. out_count[t] # 0 /\ out_count[t] \in Int /\ out_count'[t] = out_count[t] - 1
  BY <1>0, <1>1, <1>6, UnreadyOut DEF Types
<1>8. \A u \in Tasks : (u # t => out_count'[u] = out_count[u])
                       /\ (out_count[u] = 0 => out_count'[u] = 0)
  BY <1>1, <1>7 DEF Types
<1>9. ASSUME NEW u \in Tasks PROVE out_count'[u] = Units(u)' /\ Awaits(u)'
  <2>1. out_count'[u] = Units(u)'
    <3>1. CASE u = t
      <4>1. out_count[t] = Units(t)
        BY DEF Outputs
      <4> QED BY <1>0, <1>6, <1>7, <3>1, <4>1 DEF Units
    <3>2. CASE u # t
      <4>1. op[w] # TaskOp(u) /\ op[w] # AliasOp(u)
        BY <1>0, <3>2, Ops
      <4>2. \A v \in Workers :
              /\ op'[v] = AliasOp(u) /\ pc'[v] = "alias" <=> op[v] = AliasOp(u) /\ pc[v] = "alias"
              /\ op'[v] = TaskOp(u) /\ pc'[v] = "release"
                   <=> op[v] = TaskOp(u) /\ pc[v] = "release"
        BY <1>1, <4>1 DEF Types
      <4>3. (HasOwnUnit(u)' <=> HasOwnUnit(u)) /\ (HasAliasUnit(u)' <=> HasAliasUnit(u))
        BY <1>1, <4>2, SameQueue DEF HasOwnUnit, HasAliasUnit
      <4> QED BY <1>8, <3>2, <4>3 DEF Outputs, Units
    <3> QED BY <3>1, <3>2
  <2>2. Awaits(u)'
    <3>1. Aliased(u) => Alias[u] \in Tasks
      BY ProgramAssumption DEF Aliased, Subtasks
    <3>2. (Aliased(u)' <=> Aliased(u)) /\ DependsOn[u] \subseteq Tasks /\ Awaits(u)
      BY <1>1, ProgramAssumption DEF Aliased, Outputs
    <3> QED BY <1>1, <1>8, <3>1, <3>2 DEF Awaits
  <2> QED BY <2>1, <2>2
<1>10. ASSUME NEW v \in Workers, pc'[v] = "notify" PROVE out_count'[op'[v].task] = 0
  <2>1. CASE v = w
    BY <1>0, <1>1, <1>7, <1>10, <2>1 DEF Types
  <2>2. CASE v # w
    <3>1. pc[v] = "notify" /\ op'[v] = op[v]
      BY <1>1, <1>10, <2>2 DEF Types
    <3>2. op[v] \in Operations /\ op[v].kind \in {"task", "alias"}
      BY <3>1 DEF Types, Control
    <3>3. op[v].task \in Tasks /\ out_count[op[v].task] = 0
      BY <3>1, <3>2, Ops DEF Outputs
    <3> QED BY <1>8, <3>1, <3>3
  <2> QED BY <2>1, <2>2
<1>11. Outputs'
  BY <1>9, <1>10 DEF Outputs
<1> QED BY <1>0, <1>1, <1>5, <1>7, <1>11

LEMMA NotifyOutputs ==
  ASSUME Types, Control, Homes, Outputs, NEW w \in Workers, NEW o \in Pendable, Notify(w, o)
  PROVE  Outputs' /\ UNCHANGED <<status, out_count>>
<1> DEFINE d == op[w].task
<1>0. /\ pc[w] = "notify" /\ UNCHANGED <<status, out_count, pc, op>>
      /\ need' = [need EXCEPT ![o] = @ \ {d}]
      /\ IF need[o] = {d} THEN Enqueue(w, o) ELSE UNCHANGED ready_tasks
  BY DEF Notify
<1>1. out_count[d] = 0
  BY <1>0 DEF Outputs
<1>2. /\ need'[o] = need[o] \ {d}
      /\ \A p \in Pendable : p # o => need'[p] = need[p]
  BY <1>0 DEF Types
<1>3. ASSUME NEW p \in Pendable
      PROVE  OnQueue(p)' \/ need'[p] # {} <=> OnQueue(p) \/ need[p] # {}
  <2>1. CASE need[o] = {d}
    <3>1. OnQueue(o)' /\ \A q : q # o => (OnQueue(q)' <=> OnQueue(q))
      BY <1>0, <2>1, Ops, PutQueue
    <3> QED BY <1>2, <2>1, <3>1
  <2>2. CASE need[o] # {d}
    <3>1. \A q : OnQueue(q)' <=> OnQueue(q)
      BY <1>0, <2>2, SameQueue
    <3>2. need'[o] = {} <=> need[o] = {}
      BY <1>2, <2>2
    <3> QED BY <1>2, <3>1, <3>2
  <2> QED BY <2>1, <2>2
<1>4. ASSUME NEW t \in Tasks PROVE out_count'[t] = Units(t)' /\ Awaits(t)'
  <2>0. AliasOp(t) \in Pendable /\ TaskOp(t) \in Pendable /\ Awaits(t)
    BY Ops DEF Outputs
  <2>1. HasOwnUnit(t)' <=> HasOwnUnit(t)
    BY <1>0 DEF HasOwnUnit
  <2>2. HasAliasUnit(t)' <=> HasAliasUnit(t)
    BY <1>0, <1>3, <2>0 DEF HasAliasUnit
  <2>3. out_count'[t] = Units(t)'
    BY <1>0, <2>1, <2>2 DEF Outputs, Units
  <2>4. Awaits(t)'
    <3>1. /\ need'[AliasOp(t)] \subseteq need[AliasOp(t)]
          /\ \A e \in need[AliasOp(t)] : e # d => e \in need'[AliasOp(t)]
          /\ \A e \in need[TaskOp(t)] : e # d => e \in need'[TaskOp(t)]
      BY <1>2, <2>0
    <3>2. Aliased(t)' <=> Aliased(t)
      BY <1>0 DEF Aliased
    <3>3. ASSUME need[AliasOp(t)] # {} PROVE out_count[Alias[t]] = 0 \/ need'[AliasOp(t)] # {}
      <4>1. PICK e \in need[AliasOp(t)] : TRUE
        BY <3>3
      <4>2. e = Alias[t]
        BY <2>0, <4>1 DEF Awaits
      <4> QED BY <1>1, <3>1, <4>1, <4>2
    <3> QED BY <1>0, <1>1, <2>0, <3>1, <3>2, <3>3 DEF Awaits
  <2> QED BY <2>3, <2>4
<1>5. \A v \in Workers : pc'[v] = "notify" => out_count'[op'[v].task] = 0
  BY <1>0 DEF Outputs
<1> QED BY <1>0, <1>4, <1>5 DEF Outputs

LEMMA OutputsStep ==
  ASSUME Types, Control, Homes, CounterCountsWork, Outputs, [Next]_vars PROVE Outputs'
<1>1. ASSUME NEW w \in Workers, NEW t \in Tasks, Registers(w, t) PROVE Outputs'
  <2>1. Register(w, t)
    BY <1>1 DEF Registers, RegisterTask, RegisterIndex
  <2> QED BY <2>1, RegisterOutputs
<1>2. ASSUME UNCHANGED vars PROVE Outputs'
  <2>1. UNCHANGED <<ready_tasks, need, status, op, pc, out_count>>
    BY <1>2 DEF vars
  <2>2. \A t \in Tasks : /\ HasOwnUnit(t)' <=> HasOwnUnit(t)
                         /\ HasAliasUnit(t)' <=> HasAliasUnit(t)
    BY <2>1, SameQueue DEF HasOwnUnit, HasAliasUnit
  <2> QED BY <2>1, <2>2, SameUnits
<1> QED BY <1>1, <1>2, StepKinds, TakeOutputs, OtherOutputs, FinishOutputs, DecrementOutputs,
     NotifyOutputs

LEMMA InitOutputs == Init => Outputs
<1> SUFFICES ASSUME Init PROVE Outputs
  OBVIOUS
<1>1. ASSUME NEW t \in Tasks PROVE out_count[t] = Units(t) /\ Awaits(t)
  <2>1. /\ out_count[t] = 1 /\ AliasOp(t) \in Pendable /\ TaskOp(t) \in Pendable
        /\ AliasOp(t) # TaskOp(Root) /\ (TaskOp(t) = TaskOp(Root) => t = Root)
    BY Ops, ProgramAssumption DEF Init
  <2>2. status[t] # "done" /\ (status[t] = "registered" => t = Root)
    BY DEF Init
  <2>3. HasOwnUnit(t)
    BY <2>2 DEF HasOwnUnit
  <2>4. ~HasAliasUnit(t)
    <3>1. Homes
      BY InitHomes
    <3> QED BY <2>1, <2>2, <3>1 DEF HasAliasUnit, Homes, Life, InHand
  <2>5. Awaits(t)
    BY <2>1, <2>2, ProgramAssumption DEF Init, Awaits
  <2> QED BY <2>1, <2>3, <2>4, <2>5 DEF Units
<1>2. \A w \in Workers : pc[w] # "notify"
  BY DEF Init
<1> QED BY <1>1, <1>2 DEF Outputs

\* A unit that is given back completes a task's data or shows nothing.
LEMMA DecrementCompletes ==
  ASSUME Types, Control, Homes, Outputs, NEW w \in Workers, ReleaseOut(w) \/ RunAlias(w),
         UNCHANGED shutdown_counter
  PROVE  [Pool!Next]_(Pool!poolVars)
<1> DEFINE complete == {u \in Tasks : out_count[u] = 0}
<1>1. PICK t \in Tasks :
        /\ status[t] = "done" /\ out_count[t] # 0
        /\ out_count' = [out_count EXCEPT ![t] = @ - 1]
  BY DecrementOutputs
<1>2. Outputs' /\ UNCHANGED <<status, need>>
  BY DecrementOutputs
<1>3. CASE out_count'[t] # 0
  <2>1. complete' = complete
    BY <1>1, <1>3 DEF Types
  <2> QED BY <1>2, <2>1 DEF Pool!poolVars
<1>4. CASE out_count'[t] = 0
  <2>1. complete' = complete \cup {t} /\ t \notin complete
    BY <1>1, <1>4 DEF Types
  <2>2. ~HasAliasUnit(t)'
    <3>1. out_count'[t] = Units(t)'
      BY <1>2 DEF Outputs
    <3> QED BY <1>4, <3>1 DEF Units
  <2>3. need'[AliasOp(t)] = {} /\ status'[t] = "done"
    BY <1>1, <1>2, <2>2 DEF HasAliasUnit
  <2>4. Aliased(t) => out_count'[Alias[t]] = 0
    <3>1. Awaits(t)' /\ (Aliased(t)' <=> Aliased(t))
      BY <1>2 DEF Outputs, Aliased
    <3> QED BY <2>3, <3>1 DEF Awaits
  <2>5. \/ Alias[t] = NoTask
        \/ status[Alias[t]] = "unregistered"
        \/ Alias[t] \in complete
    <3> SUFFICES ASSUME Aliased(t) PROVE Alias[t] \in complete
      BY DEF Aliased
    <3>1. Alias[t] \in Tasks /\ out_count'[Alias[t]] = 0
      BY <2>4, ProgramAssumption DEF Aliased, Subtasks
    <3>2. CASE Alias[t] # t
      BY <1>1, <3>1, <3>2 DEF Types
    <3>3. CASE Alias[t] = t
      <4>1. Awaits(t) /\ out_count[t] # 0
        BY <1>1 DEF Outputs
      <4>2. need[AliasOp(t)] # {}
        BY <1>1, <3>3, <4>1 DEF Awaits
      <4> QED BY <1>2, <2>3, <4>2
    <3> QED BY <3>2, <3>3
  <2>6. Pool!Complete(t)
    BY <1>1, <1>2, <2>1, <2>5 DEF Pool!Complete
  <2> QED BY <2>6 DEF Pool!Next
<1> QED BY <1>3, <1>4

\* Every step of the scheduler is one of the pool's, or none.
LEMMA StepRefines ==
  ASSUME Types, Control, Homes, CounterCountsWork, Outputs, [Next]_vars
  PROVE  [Pool!Next]_(Pool!poolVars)
<1> DEFINE complete == {u \in Tasks : out_count[u] = 0}
<1>1. ASSUME NEW w \in Workers, NEW v \in Workers, Take(w, v) PROVE [Pool!Next]_(Pool!poolVars)
  <2>1. PICK h : h = Head(ready_tasks[v])
    OBVIOUS
  <2>2. h \in Operations /\ OnQueue(h)
    BY <1>1, <2>1, TakeQueue DEF Take
  <2>3. /\ UNCHANGED <<out_count, shutdown_counter>>
        /\ status' = IF h.kind = "task" THEN [status EXCEPT ![h.task] = "running"] ELSE status
    BY <1>1, <2>1 DEF Take, Begin
  <2>4. CASE h.kind # "task"
    BY <2>3, <2>4 DEF Pool!poolVars
  <2>5. CASE h.kind = "task"
    <3>1. PICK t \in Tasks : h = TaskOp(t) /\ h.task = t
      BY <2>2, <2>5, Ops
    <3>2. status[t] = "registered"
      BY <2>2, <3>1 DEF Homes, Life
    <3>3. need[TaskOp(t)] = {}
      BY <2>2, <3>1, Ops DEF Homes, Placed
    <3>4. DependsOn[t] \subseteq complete
      BY <3>2, <3>3, ProgramAssumption DEF Outputs, Awaits
    <3>5. Pool!Start(t)
      BY <2>3, <2>5, <3>1, <3>2, <3>4 DEF Pool!Start
    <3> QED BY <3>5 DEF Pool!Next
  <2> QED BY <2>4, <2>5
<1>2. ASSUME NEW w \in Workers, NEW t \in Tasks, Registers(w, t) PROVE [Pool!Next]_(Pool!poolVars)
  <2>1. /\ shutdown_counter' = shutdown_counter + 1 /\ out_count' = out_count
        /\ status[t] = "unregistered" /\ status' = [status EXCEPT ![t] = "registered"]
        /\ pc[w] = "task" /\ t \in Subtasks(op[w].task)
    BY <1>2 DEF Registers, RegisterTask, RegisterIndex, Register, CanRegister
  <2>2. shutdown_counter > 0 /\ shutdown_counter \in Int
    BY <2>1, TaskStepsCounted DEF TaskSteps, Types
  <2>3. op[w] \in Operations /\ op[w].kind = "task"
    BY <2>1 DEF Types, Control, TaskSteps
  <2>4. PICK u \in Tasks : op[w] = TaskOp(u) /\ op[w].task = u
    BY <2>3, Ops
  <2>5. ParentOf[t] = u
    BY <2>1, <2>4 DEF Subtasks
  <2>6. status[u] = "running"
    BY <2>1, <2>4 DEF Homes, Life
  <2>7. Pool!Register(t)
    BY <2>1, <2>2, <2>5, <2>6 DEF Pool!Register
  <2> QED BY <2>7 DEF Pool!Next
<1>3. ASSUME NEW w \in Workers, Finish(w) PROVE [Pool!Next]_(Pool!poolVars)
  <2>1. op[w] \in Operations /\ op[w].kind = "task" /\ pc[w] = "task"
    BY <1>3 DEF Finish, Types, Control, TaskSteps
  <2>2. PICK t \in Tasks : op[w] = TaskOp(t) /\ op[w].task = t
    BY <2>1, Ops
  <2>3. /\ status[t] = "running" /\ status' = [status EXCEPT ![t] = "done"]
        /\ shutdown_counter' = shutdown_counter
    BY <1>3, <2>1, <2>2 DEF Finish, Homes, Life
  <2>4. complete' = complete
    BY <1>3, FinishOutputs
  <2>5. Pool!Finish(t)
    BY <2>3, <2>4 DEF Pool!Finish
  <2> QED BY <2>5 DEF Pool!Next
<1>4. ASSUME NEW w \in Workers, ReleaseOut(w) \/ RunAlias(w) PROVE [Pool!Next]_(Pool!poolVars)
  <2>1. shutdown_counter' = shutdown_counter
    BY <1>4 DEF ReleaseOut, RunAlias
  <2> QED BY <1>4, <2>1, DecrementCompletes
<1>5. ASSUME NEW w \in Workers, NEW o \in Pendable, Notify(w, o) PROVE [Pool!Next]_(Pool!poolVars)
  <2>1. UNCHANGED <<status, out_count, shutdown_counter>>
    BY <1>5 DEF Notify
  <2> QED BY <2>1 DEF Pool!poolVars
<1>6. ASSUME NEW w \in Workers,
             \/ Moves(w) \/ NotifiedAll(w) \/ SendJoin(w) \/ SendAllTasksDone(w)
      PROVE  [Pool!Next]_(Pool!poolVars)
  <2>1. UNCHANGED <<status, out_count>>
    BY <1>6, OtherOutputs
  <2>2. shutdown_counter' = shutdown_counter
    BY <1>6, MovesFrame DEF NotifiedAll, SendJoin, SendAllTasksDone
  <2> QED BY <2>1, <2>2 DEF Pool!poolVars
<1>7. ASSUME NEW w \in Workers, NEW C \in Collections, BeginCollection(w, C)
      PROVE  [Pool!Next]_(Pool!poolVars)
  <2>1. /\ UNCHANGED <<status, out_count>> /\ shutdown_counter' = shutdown_counter + 1
        /\ pc[w] = "task"
    BY <1>7 DEF BeginCollection, taskVars
  <2>2. shutdown_counter > 0 /\ shutdown_counter \in Int
    BY <2>1, TaskStepsCounted DEF TaskSteps, Types
  <2>3. (shutdown_counter' = 0) = (shutdown_counter = 0)
    BY <2>1, <2>2
  <2> QED BY <2>1, <2>3 DEF Pool!poolVars
<1>8. ASSUME NEW w \in Workers, EndCollection(w) PROVE [Pool!Next]_(Pool!poolVars)
  <2>1. /\ UNCHANGED <<status, out_count>> /\ shutdown_counter' = shutdown_counter - 1
    BY <1>8 DEF EndCollection, DecrementShutdown, taskVars
  <2>2. shutdown_counter > 1 /\ shutdown_counter \in Int
    BY <1>8, WorkCounted DEF EndCollection, Types
  <2>3. (shutdown_counter' = 0) = (shutdown_counter = 0)
    BY <2>1, <2>2
  <2> QED BY <2>1, <2>3 DEF Pool!poolVars
<1>9. ASSUME NEW w \in Workers, Retire(w) PROVE [Pool!Next]_(Pool!poolVars)
  <2>1. UNCHANGED <<status, out_count>> /\ shutdown_counter' = shutdown_counter - 1
    BY <1>9 DEF Retire, DecrementShutdown, taskVars
  <2>2. shutdown_counter > 0 /\ shutdown_counter \in Int
    BY <1>9, TaskStepsCounted DEF Retire, TaskSteps, Types
  <2>3. CASE shutdown_counter # 1
    <3>1. (shutdown_counter' = 0) = (shutdown_counter = 0)
      BY <2>1, <2>2, <2>3
    <3> QED BY <2>1, <3>1 DEF Pool!poolVars
  <2>4. CASE shutdown_counter = 1
    <3>1. \A t \in Tasks : status[t] \notin {"registered", "running"}
      <4> SUFFICES ASSUME NEW t \in Tasks, status'[t] \in {"registered", "running"} PROVE FALSE
        BY <2>1
      <4>1. CounterCountsWork' /\ Types' /\ Control' /\ Homes'
        BY CounterStep, TypesStep, HomesStep
      <4>2. t \in Holding'
        BY DEF Holding
      <4>3. Cardinality(Holding') > 0
        <5>1. IsFiniteSet(Holding') /\ Cardinality(Holding') \in Nat
          <6>1. Holding' \subseteq Tasks
            BY DEF Holding
          <6> QED BY <6>1, ProgramAssumption, FS_Subset, FS_CardinalityType
        <5> QED BY <4>2, <5>1, FS_EmptySet
      <4>4. Cardinality({x \in Workers : collecting'[x]}) \in Nat
        <5>1. IsFiniteSet(Workers)
          BY FS_Interval, ProgramAssumption DEF Workers
        <5>2. {x \in Workers : collecting'[x]} \subseteq Workers
          OBVIOUS
        <5> QED BY <5>1, <5>2, FS_Subset, FS_CardinalityType
      <4>5. shutdown_counter' = Cardinality(Holding') + Cardinality({x \in Workers : collecting'[x]})
        BY <4>1 DEF CounterCountsWork
      <4>6. IsFiniteSet(Holding') /\ Cardinality(Holding') \in Nat
        <5>1. Holding' \subseteq Tasks
          BY DEF Holding
        <5> QED BY <5>1, ProgramAssumption, FS_Subset, FS_CardinalityType
      <4>7. shutdown_counter' = 0
        BY <2>1, <2>4
      <4> QED BY <4>3, <4>4, <4>5, <4>6, <4>7
    <3>2. Pool!Close
      BY <2>1, <2>2, <2>4, <3>1 DEF Pool!Close
    <3> QED BY <3>2 DEF Pool!Next
  <2> QED BY <2>3, <2>4
<1>10. UNCHANGED vars => [Pool!Next]_(Pool!poolVars)
  BY DEF vars, Pool!poolVars
<1> QED BY <1>1, <1>2, <1>3, <1>4, <1>5, <1>6, <1>7, <1>8, <1>9, <1>10, StepKinds

\* Tasks start once and after the data they depend on is complete, an alias's data
\* is complete no earlier than the subtask's, and the pool closes when nothing is
\* left to do, whichever workers pop and steal what.
THEOREM ImplementsPoolSafety == SafeSpec => Pool!SafeSpec
<1>1. Init => Pool!Init
  BY ProgramAssumption DEF Init, Pool!Init
<1>2. Init => Outputs
  BY InitOutputs
<1>3. IInv /\ Outputs /\ [Next]_vars => Outputs'
  BY OutputsStep DEF IInv
<1>4. IInv /\ Outputs /\ [Next]_vars => [Pool!Next]_(Pool!poolVars)
  BY StepRefines DEF IInv
<1> QED BY <1>1, <1>2, <1>3, <1>4, IInvHolds, PTL DEF SafeSpec, Pool!SafeSpec
=====
