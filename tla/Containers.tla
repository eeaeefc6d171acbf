----------------------------- MODULE Containers -----------------------------
(***************************************************************************)
(* data_structures/queue.hpp, pointers.hpp and mutex.hpp: the queue of     *)
(* ready operations of a worker, and the action queues of events behind    *)
(* the pointers that make_ready exchanges, node by node, lock by lock.     *)
(*                                                                         *)
(* A thread's agenda is what is left of the calls it makes: its head is    *)
(* the next step, under whatever locks the steps before it took.           *)
(***************************************************************************)
EXTENDS Naturals, Sequences, FiniteSets, SequencesExt

CONSTANTS Threads, Nobody,
          NEvents,
          NQueues,    \* bound: the ready queue, one for each event and for each exchange
          NNodes,     \* bound: one for each emplace
          Scenarios   \* the calls that each thread makes

Queues == 1..NQueues
Ready == 1
Events == 1..NEvents
FirstActions == [e \in Events |-> e + 1]
Nodes == 1..NNodes
Null == 0
Moved == <<>>  \* value_ after it was moved from

\* What a node holds; a chain attaches an action to the event of its number.
Values == {v \in {"task", "message", "action", "chain"} \X (1..NNodes) :
             v[1] = "chain" => v[2] \in Events}

\* The steps of a thread.
Lock(q) == [do |-> "lock", queue |-> q]
Unlock(q) == [do |-> "unlock", queue |-> q]
Link(q, v) == [do |-> "link", queue |-> q, value |-> v]
MoveTail(q, n) == [do |-> "move_tail", queue |-> q, node |-> n]
Take(q, all) == [do |-> "take", queue |-> q, all |-> all]
SwapHead(q, v) == [do |-> "swap_head", queue |-> q, value |-> v]
Run(v) == [do |-> "run", value |-> v]
Peak(q) == [do |-> "peak", queue |-> q]
Decide(q, v) == [do |-> "decide", queue |-> q, value |-> v]
LockShared(e) == [do |-> "lock_shared", event |-> e]
EmplaceCurrent(e, v) == [do |-> "emplace_current", event |-> e, value |-> v]
LockUnique(e) == [do |-> "lock_unique", event |-> e]
Exchange(e) == [do |-> "exchange", event |-> e]
Release(e) == [do |-> "release", event |-> e]
Destroy(q) == [do |-> "destroy", queue |-> q]

\* The calls of queue.hpp, each under the queue's one lock: consume_all is
\* consume_one until nothing is left.
Emplace(q, v) == <<Lock(q), Link(q, v), Unlock(q)>>
ConsumeOne(q) == <<Lock(q), Take(q, FALSE)>>
ConsumeAll(q) == <<Lock(q), Take(q, TRUE)>>
PeakAndPopIf(q) == <<Lock(q), Peak(q)>>

\* Mutant: the queue is only looked up under the pointer's lock.
AttachAfterRelease(e, q, v) == <<Release(e)>> \o Emplace(q, v)

\* What with_shared_access does with the queue that the pointer owns.
AttachTo(e, q, v) == Emplace(q, v) \o <<Release(e)>>

\* The calls of an event on its pointer.
Attach(e, v) == <<LockShared(e), EmplaceCurrent(e, v)>>
DoActions(e) == <<LockUnique(e), Exchange(e)>>

\* The calls of a thread are a finite list.
IsSequence(s) == Len(s) \in Nat /\ s = [k \in 1..Len(s) |-> s[k]]

\* A thread makes these calls one after another, of the queues only on the ready one.
IsProgram(s) ==
  \A k \in DOMAIN s :
    \/ s[k] \in {Lock(Ready)} \cup {LockShared(e) : e \in Events} \cup {LockUnique(e) : e \in Events}
    \/ k > 1 /\ \/ s[k - 1] = Lock(Ready)
                   /\ s[k] \in {Take(Ready, FALSE), Peak(Ready)} \cup {Link(Ready, v) : v \in Values}
                \/ s[k - 1] \in {Link(Ready, v) : v \in Values} /\ s[k] = Unlock(Ready)
                \/ \E e \in Events :
                     \/ s[k - 1] = LockShared(e) /\ s[k] \in {EmplaceCurrent(e, v) : v \in Values}
                     \/ s[k - 1] = LockUnique(e) /\ s[k] = Exchange(e)

\* What is assumed of the constants: that there are enough queues and nodes is not,
\* since a thread that needs another waits.
Assumptions ==
  /\ {NEvents, NQueues, NNodes} \subseteq Nat /\ NEvents < NQueues
  /\ Nobody \notin Threads
  /\ \A calls \in Scenarios :
       /\ calls = [th \in Threads |-> calls[th]]
       /\ \A th \in Threads : IsSequence(calls[th]) /\ IsProgram(calls[th])

VARIABLES head, tail,       \* of a queue: nodes or Null
          next, value,      \* of a node
          mutex,            \* of a queue: the thread that holds it
          nodes, queues,    \* how many were made
          pointer,          \* of an event: the queue that action_queue_ptr_ owns
          readers, writer,  \* who holds that pointer's mutex
          shared,           \* whether that is a std::shared_timed_mutex
          destroyed,        \* queues
          agenda            \* what a thread has left to do

queueVars == <<head, tail, next, value, nodes>>
pointerVars == <<pointer, queues, readers, writer>>
vars == <<queueVars, pointerVars, mutex, shared, destroyed, agenda>>

\* In the default build it is a std::mutex, and shared access exclusive.
Init ==
  /\ head = [q \in Queues |-> Null] /\ tail = [q \in Queues |-> Null]
  /\ next = [n \in Nodes |-> Null] /\ value = [n \in Nodes |-> Moved]
  /\ mutex = [q \in Queues |-> Nobody]
  /\ nodes = 0 /\ queues = NEvents + 1
  /\ pointer = FirstActions
  /\ readers = [e \in Events |-> {}] /\ writer = [e \in Events |-> Nobody]
  /\ shared \in BOOLEAN
  /\ destroyed = {}
  /\ agenda \in Scenarios

-----------------------------------------------------------------------------
IsNext(th, op) == agenda[th] # <<>> /\ Head(agenda[th]).do = op
Op(th) == Head(agenda[th])
Then(th, ops) == agenda' = [agenda EXCEPT ![th] = ops \o Tail(@)]

DoLock(th) ==
  /\ IsNext(th, "lock")
  /\ mutex[Op(th).queue] = Nobody
  /\ mutex' = [mutex EXCEPT ![Op(th).queue] = th]
  /\ Then(th, <<>>)
  /\ UNCHANGED <<queueVars, pointerVars, shared, destroyed>>

DoUnlock(th) ==
  /\ IsNext(th, "unlock")
  /\ mutex' = [mutex EXCEPT ![Op(th).queue] = Nobody]
  /\ Then(th, <<>>)
  /\ UNCHANGED <<queueVars, pointerVars, shared, destroyed>>

\* emplace makes the node and links it, then tail_ follows.
DoLink(th) ==
  LET q == Op(th).queue
      n == nodes + 1
  IN
  /\ IsNext(th, "link")
  /\ nodes < NNodes
  /\ nodes' = n
  /\ value' = [value EXCEPT ![n] = Op(th).value]
  /\ IF head[q] = Null
       THEN head' = [head EXCEPT ![q] = n] /\ UNCHANGED next
       ELSE next' = [next EXCEPT ![tail[q]] = n] /\ UNCHANGED head
  /\ Then(th, <<MoveTail(q, n)>>)
  /\ UNCHANGED <<tail, pointerVars, mutex, shared, destroyed>>

DoMoveTail(th) ==
  /\ IsNext(th, "move_tail")
  /\ tail' = [tail EXCEPT ![Op(th).queue] = Op(th).node]
  /\ Then(th, <<>>)
  /\ UNCHANGED <<head, next, value, nodes, pointerVars, mutex, shared, destroyed>>

\* consume_one: the value is moved out of the first node, and tail_ is reset
\* with the last one.
DoTake(th) ==
  LET q == Op(th).queue
      n == head[q]
  IN
  /\ IsNext(th, "take")
  /\ IF n = Null
       THEN Then(th, <<Unlock(q)>>) /\ UNCHANGED <<tail, value>>
       ELSE /\ value' = [value EXCEPT ![n] = Moved]
            /\ tail' = [tail EXCEPT ![q] = IF @ = n THEN Null ELSE @]
            /\ Then(th, <<SwapHead(q, value[n]), Run(value[n]), Unlock(q)>>
                          \o IF Op(th).all THEN ConsumeAll(q) ELSE <<>>)
  /\ UNCHANGED <<head, next, nodes, pointerVars, mutex, shared, destroyed>>

\* Mutant: the assignments of a swap done by hand, in the wrong order.
SwapHeadWithItself(th) ==
  LET q == Op(th).queue IN
  /\ IsNext(th, "swap_head")
  /\ next' = [next EXCEPT ![head[q]] = head[q]]
  /\ head' = [head EXCEPT ![q] = next'[head[q]]]
  /\ Then(th, <<>>)
  /\ UNCHANGED <<tail, value, nodes, pointerVars, mutex, shared, destroyed>>

\* std::swap(head_, head_->next): the old first node ends up owning itself.
DoSwapHead(th) ==
  LET q == Op(th).queue IN
  /\ IsNext(th, "swap_head")
  /\ head' = [head EXCEPT ![q] = next[head[q]]]
  /\ next' = [next EXCEPT ![head[q]] = head[q]]
  /\ Then(th, <<>>)
  /\ UNCHANGED <<tail, value, nodes, pointerVars, mutex, shared, destroyed>>

\* The callable of consume_one.  An action is run under the lock of the queue
\* it was in, and may put a task on a ready queue (enqueue_or_run) or attach
\* an action to another event (a chain).
DoRun(th) ==
  LET v == Op(th).value IN
  /\ IsNext(th, "run")
  /\ Then(th, CASE v[1] = "action" -> Emplace(Ready, <<"task", v[2]>>)
                [] v[1] = "chain" -> Attach(v[2], <<"action", v[2]>>)
                [] OTHER -> <<>>)
  /\ UNCHANGED <<queueVars, pointerVars, mutex, shared, destroyed>>

DoPeak(th) ==
  LET q == Op(th).queue
      n == head[q]
  IN
  /\ IsNext(th, "peak")
  /\ IF n = Null
       THEN Then(th, <<Unlock(q)>>) /\ UNCHANGED value
       ELSE /\ value' = [value EXCEPT ![n] = Moved]
            /\ Then(th, <<Decide(q, value[n]), Unlock(q)>>)
  /\ UNCHANGED <<head, tail, next, nodes, pointerVars, mutex, shared, destroyed>>

Stealable(v) == v[1] = "task"

\* The value that was moved out is popped, or moved back.
DoDecide(th) ==
  LET q == Op(th).queue
      n == head[q]
  IN
  /\ IsNext(th, "decide")
  /\ IF Stealable(Op(th).value)
       THEN /\ tail' = [tail EXCEPT ![q] = IF @ = n THEN Null ELSE @]
            /\ head' = [head EXCEPT ![q] = next[n]]
            /\ next' = [next EXCEPT ![n] = n]
            /\ UNCHANGED value
       ELSE /\ value' = [value EXCEPT ![n] = Op(th).value]
            /\ UNCHANGED <<head, tail, next>>
  /\ Then(th, <<>>)
  /\ UNCHANGED <<nodes, pointerVars, mutex, shared, destroyed>>

-----------------------------------------------------------------------------
(* LockBasedThreadSafeUniquePtr, and how an event uses it                   *)

DoLockShared(th) ==
  /\ IsNext(th, "lock_shared")
  /\ writer[Op(th).event] = Nobody
  /\ shared \/ readers[Op(th).event] = {}
  /\ readers' = [readers EXCEPT ![Op(th).event] = @ \cup {th}]
  /\ Then(th, <<>>)
  /\ UNCHANGED <<queueVars, pointer, queues, writer, mutex, shared, destroyed>>

DoEmplaceCurrent(th) ==
  /\ IsNext(th, "emplace_current")
  /\ Then(th, AttachTo(Op(th).event, pointer[Op(th).event], Op(th).value))
  /\ UNCHANGED <<queueVars, pointerVars, mutex, shared, destroyed>>

DoLockUnique(th) ==
  /\ IsNext(th, "lock_unique")
  /\ writer[Op(th).event] = Nobody /\ readers[Op(th).event] = {}
  /\ writer' = [writer EXCEPT ![Op(th).event] = th]
  /\ Then(th, <<>>)
  /\ UNCHANGED <<queueVars, pointer, queues, readers, mutex, shared, destroyed>>

\* Mutant: the actions are run where they are.
ExchangeNothing(th) ==
  LET e == Op(th).event IN
  /\ IsNext(th, "exchange")
  /\ Then(th, <<Release(e)>> \o ConsumeAll(pointer[e]))
  /\ UNCHANGED <<queueVars, pointerVars, mutex, shared, destroyed>>

\* The queue is swapped for a new one, and this thread owns the old one.
DoExchange(th) ==
  LET e == Op(th).event IN
  /\ IsNext(th, "exchange")
  /\ queues < NQueues
  /\ queues' = queues + 1
  /\ pointer' = [pointer EXCEPT ![e] = queues + 1]
  /\ Then(th, <<Release(e)>> \o ConsumeAll(pointer[e]) \o <<Destroy(pointer[e])>>)
  /\ UNCHANGED <<queueVars, readers, writer, mutex, shared, destroyed>>

DoRelease(th) ==
  /\ IsNext(th, "release")
  /\ readers' = [readers EXCEPT ![Op(th).event] = @ \ {th}]
  /\ writer' = [writer EXCEPT ![Op(th).event] = IF @ = th THEN Nobody ELSE @]
  /\ Then(th, <<>>)
  /\ UNCHANGED <<queueVars, pointer, queues, mutex, shared, destroyed>>

\* `actions` of _do_actions goes out of scope.
DoDestroy(th) ==
  /\ IsNext(th, "destroy")
  /\ destroyed' = destroyed \cup {Op(th).queue}
  /\ Then(th, <<>>)
  /\ UNCHANGED <<queueVars, pointerVars, mutex, shared>>

Step(th) ==
  \/ DoLock(th) \/ DoUnlock(th) \/ DoLink(th) \/ DoMoveTail(th)
  \/ DoTake(th) \/ DoSwapHead(th) \/ DoRun(th) \/ DoPeak(th) \/ DoDecide(th)
  \/ DoLockShared(th) \/ DoEmplaceCurrent(th) \/ DoLockUnique(th)
  \/ DoExchange(th) \/ DoRelease(th) \/ DoDestroy(th)

Next == \E th \in Threads : Step(th)

\* A thread that is in a call goes on.
Spec == Init /\ [][Next]_vars /\ \A th \in Threads : WF_vars(Step(th))

-----------------------------------------------------------------------------
\* The nodes from each one on, in order, but not more than k.
ChainFrom[k \in 0..NNodes] ==
  [n \in Nodes \cup {Null} |->
     IF n = Null \/ k = 0 THEN <<>> ELSE <<n>> \o ChainFrom[k - 1][next[n]]]

Chain(n) == ChainFrom[NNodes][n]

\* The value of a node, or the one that the holder of the lock has in hand.
ValueIn(q, n) ==
  LET th == mutex[q] IN
  IF value[n] = Moved /\ th # Nobody /\ (IsNext(th, "swap_head") \/ IsNext(th, "decide"))
    THEN Op(th).value ELSE value[n]

Contents(q) == LET chain == Chain(head[q]) IN [i \in DOMAIN chain |-> ValueIn(q, chain[i])]

\* What the containers implement.
Abstract == INSTANCE Fifos WITH
              Values    <- Values,
              contents  <- [q \in Queues |-> Contents(q)],
              current   <- pointer,
              made      <- 1..queues

\* Whatever the threads do at the same time, each queue is first in first out,
\* nothing is lost or taken twice, and nothing is added to a queue of actions
\* once somebody has taken it: what JoinCounter, PendingOperation and
\* Scheduler take for single steps behaves as one.
ImplementsFifos == Abstract!Spec

\* The assert of emplace, and the chain that it relies on: under the lock
\* tail_ is the last node of the queue, or nullptr with head_.
TailIsLast ==
  \A q \in Queues :
    mutex[q] = Nobody =>
      LET chain == Chain(head[q]) IN
      /\ tail[q] = IF chain = <<>> THEN Null ELSE Last(chain)
      /\ tail[q] # Null => next[tail[q]] = Null

\* No two threads wait for each other, though actions run under the lock of the
\* queue they were in and attach to, or emplace into, what others are draining.
CallsReturn == \A th \in Threads : <>(agenda[th] = <<>>)
=============================================================================
