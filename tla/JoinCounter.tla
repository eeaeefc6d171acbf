---------------------------- MODULE JoinCounter ----------------------------
(***************************************************************************)
(* data_structures/event.hpp and data_structures/join_counter.hpp: a       *)
(* one-shot event triggered by a counter, used by many threads at once     *)
(* without a lock around it.  One step of this module is one atomic        *)
(* operation of the code (an atomic load, store or read-modify-write, or a *)
(* critical section of one of the two mutexes), so that every interleaving *)
(* of the calls decrement_count, advance_count and attach_action is seen.  *)
(*                                                                         *)
(* A token is one unit of count_ and the right to give it back: whoever    *)
(* calls decrement_count gives one back, and advance_count is only called  *)
(* under a unit that is not given back meanwhile.  That is the contract    *)
(* every caller in the backend follows, and what the asserts check.        *)
(***************************************************************************)
EXTENDS Naturals, Sequences, FiniteSets

CONSTANTS Threads, Actions,
          Tokens,         \* the units of count_ that callers may ever hold
          InitialTokens,  \* initial_count of the constructor
          Modulus         \* 2^64: count_ is a std::uint64_t

ASSUME TokensAssumption ==
  /\ IsFiniteSet(Tokens)
  /\ InitialTokens \subseteq Tokens
  /\ InitialTokens # {}

\* The callers never hold as many units as a uint64_t cannot tell from none.
ASSUME ModulusAssumption ==
  /\ Modulus \in Nat
  /\ Cardinality(Tokens) < Modulus

\* Places of a token that are no threads.
CONSTANTS Free, Held

ASSUME PlacesAssumption == Free \notin Threads /\ Held \notin Threads /\ Free # Held

VARIABLES triggered,  \* Event::triggered_
          count,      \* JoinCounter::count_
          queue,      \* the queue that Event::action_queue_ptr_ points to
          place,      \* of a token: Free, Held, or the thread using it in a call
          attached,   \* the actions that attach_action was called with
          pc,         \* the atomic operation a thread performs next
          arg,        \* the actions in the hands of a thread that attaches one
          batch,      \* the local variable actions of _do_actions
          runs        \* how many times an action was run

vars == <<triggered, count, queue, place, attached, pc, arg, batch, runs>>

threadVars == <<attached, pc, arg, batch, runs>>

Labels == {"idle",
           "advance_assert", "advance_add",                \* advance_count
           "decrement_assert", "decrement_sub",            \* decrement_count
           "store", "exchange", "consume",                 \* make_ready
           "load", "run", "emplace", "reload",             \* attach_action
           "abort"}

\* The units that callers hold, those in use by a running call included.
Out == {k \in Tokens : place[k] # Free}

Plus(m, n) == IF m + n < Modulus THEN m + n ELSE m + n - Modulus

MinusOne(m) == IF m = 0 THEN Modulus - 1 ELSE m - 1

Goto(t, label) == pc' = [pc EXCEPT ![t] = label]

Init ==
  /\ triggered = FALSE
  /\ count = Cardinality(InitialTokens)
  /\ queue = <<>>
  /\ place = [k \in Tokens |-> IF k \in InitialTokens THEN Held ELSE Free]
  /\ attached = {}
  /\ pc = [t \in Threads |-> "idle"]
  /\ arg = [t \in Threads |-> {}]
  /\ batch = [t \in Threads |-> <<>>]
  /\ runs = [a \in Actions |-> 0]

-----------------------------------------------------------------------------
(* advance_count(amount), and increment_count, which is advance_count(1)    *)

StartAdvance(t) ==
  /\ pc[t] = "idle"
  /\ \E k \in Tokens :
       /\ place[k] = Held
       /\ place' = [place EXCEPT ![k] = t]
  /\ Goto(t, "advance_assert")
  /\ UNCHANGED <<triggered, count, queue, attached, arg, batch, runs>>

AdvanceAssert(t) ==
  /\ pc[t] = "advance_assert"
  /\ Goto(t, IF triggered THEN "abort" ELSE "advance_add")
  /\ UNCHANGED <<triggered, count, queue, place, attached, arg, batch, runs>>

\* Mutant: the amount is ignored.
AdvanceAddOne(t) ==
  /\ pc[t] = "advance_add"
  /\ \E S \in SUBSET {k \in Tokens : place[k] = Free} :
       place' = [k \in Tokens |->
                   IF k \in S \/ place[k] = t THEN Held ELSE place[k]]
  /\ count' = Plus(count, 1)
  /\ Goto(t, "idle")
  /\ UNCHANGED <<triggered, queue, attached, arg, batch, runs>>

AdvanceAdd(t) ==
  /\ pc[t] = "advance_add"
  /\ \E S \in SUBSET {k \in Tokens : place[k] = Free} :
       /\ count' = Plus(count, Cardinality(S))
       /\ place' = [k \in Tokens |->
                      IF k \in S \/ place[k] = t THEN Held ELSE place[k]]
  /\ Goto(t, "idle")
  /\ UNCHANGED <<triggered, queue, attached, arg, batch, runs>>

-----------------------------------------------------------------------------
(* decrement_count, and the make_ready of the last one                      *)

StartDecrement(t) ==
  /\ pc[t] = "idle"
  /\ \E k \in Tokens :
       /\ place[k] = Held
       /\ place' = [place EXCEPT ![k] = t]
  /\ Goto(t, "decrement_assert")
  /\ UNCHANGED <<triggered, count, queue, attached, arg, batch, runs>>

DecrementAssert(t) ==
  /\ pc[t] = "decrement_assert"
  /\ Goto(t, IF triggered THEN "abort" ELSE "decrement_sub")
  /\ UNCHANGED <<triggered, count, queue, place, attached, arg, batch, runs>>

\* Mutant: compares the count from before with 2, the last hold but one.
DecrementSubEarly(t) ==
  /\ pc[t] = "decrement_sub"
  /\ \E k \in Tokens :
       /\ place[k] = t
       /\ place' = [place EXCEPT ![k] = Free]
  /\ count' = MinusOne(count)
  /\ Goto(t, IF count = 2 THEN "store" ELSE "idle")
  /\ UNCHANGED <<triggered, queue, attached, arg, batch, runs>>

\* fetch_sub returns the count from before.
DecrementSub(t) ==
  /\ pc[t] = "decrement_sub"
  /\ \E k \in Tokens :
       /\ place[k] = t
       /\ place' = [place EXCEPT ![k] = Free]
  /\ count' = MinusOne(count)
  /\ Goto(t, IF count = 1 THEN "store" ELSE "idle")
  /\ UNCHANGED <<triggered, queue, attached, arg, batch, runs>>

\* Mutant: the event is drained and never marked as triggered.
StoreNothing(t) ==
  /\ pc[t] = "store"
  /\ Goto(t, "exchange")
  /\ UNCHANGED <<triggered, count, queue, place, attached, arg, batch, runs>>

StoreTriggered(t) ==
  /\ pc[t] = "store"
  /\ triggered' = TRUE
  /\ Goto(t, "exchange")
  /\ UNCHANGED <<count, queue, place, attached, arg, batch, runs>>

-----------------------------------------------------------------------------
(* _do_actions: take the whole queue, then run what is in it in order       *)

\* Mutant: the queue is copied, not exchanged with an empty one.
ExchangeCopies(t) ==
  /\ pc[t] = "exchange"
  /\ batch' = [batch EXCEPT ![t] = queue]
  /\ Goto(t, "consume")
  /\ UNCHANGED <<triggered, count, queue, place, attached, arg, runs>>

Exchange(t) ==
  /\ pc[t] = "exchange"
  /\ batch' = [batch EXCEPT ![t] = queue]
  /\ queue' = <<>>
  /\ Goto(t, "consume")
  /\ UNCHANGED <<triggered, count, place, attached, arg, runs>>

ConsumeOne(t) ==
  /\ pc[t] = "consume"
  /\ batch[t] # <<>>
  /\ runs' = [runs EXCEPT ![Head(batch[t])] = @ + 1]
  /\ batch' = [batch EXCEPT ![t] = Tail(@)]
  /\ UNCHANGED <<triggered, count, queue, place, attached, pc, arg>>

ConsumedAll(t) ==
  /\ pc[t] = "consume"
  /\ batch[t] = <<>>
  /\ Goto(t, "idle")
  /\ UNCHANGED <<triggered, count, queue, place, attached, arg, batch, runs>>

-----------------------------------------------------------------------------
(* attach_action: attach_or_do_action with the same callable twice          *)

StartAttach(t, a) ==
  /\ pc[t] = "idle"
  /\ a \notin attached
  /\ attached' = attached \cup {a}
  /\ arg' = [arg EXCEPT ![t] = {a}]
  /\ Goto(t, "load")
  /\ UNCHANGED <<triggered, count, queue, place, batch, runs>>

\* Mutant: always takes the branch of a triggered event.
LoadIgnored(t) ==
  /\ pc[t] = "load"
  /\ Goto(t, "run")
  /\ UNCHANGED <<triggered, count, queue, place, attached, arg, batch, runs>>

LoadTriggered(t) ==
  /\ pc[t] = "load"
  /\ Goto(t, IF triggered THEN "run" ELSE "emplace")
  /\ UNCHANGED <<triggered, count, queue, place, attached, arg, batch, runs>>

\* do_callable, on the stack of the caller.
RunNow(t) ==
  /\ pc[t] = "run"
  /\ runs' = [a \in Actions |-> IF a \in arg[t] THEN runs[a] + 1 ELSE runs[a]]
  /\ arg' = [arg EXCEPT ![t] = {}]
  /\ Goto(t, "idle")
  /\ UNCHANGED <<triggered, count, queue, place, attached, batch>>

Emplace(t) ==
  /\ pc[t] = "emplace"
  /\ \E a \in arg[t] : queue' = Append(queue, a)
  /\ arg' = [arg EXCEPT ![t] = {}]
  /\ Goto(t, "reload")
  /\ UNCHANGED <<triggered, count, place, attached, batch, runs>>

\* Mutant: the event is not loaded again after the emplace.
ReloadNothing(t) ==
  /\ pc[t] = "reload"
  /\ Goto(t, "idle")
  /\ UNCHANGED <<triggered, count, queue, place, attached, arg, batch, runs>>

\* The event may have triggered since it was loaded, and its queue may have
\* been taken before the emplace.
ReloadTriggered(t) ==
  /\ pc[t] = "reload"
  /\ Goto(t, IF triggered THEN "exchange" ELSE "idle")
  /\ UNCHANGED <<triggered, count, queue, place, attached, arg, batch, runs>>

-----------------------------------------------------------------------------
Call(t) ==
  \/ StartAdvance(t)
  \/ StartDecrement(t)
  \/ \E a \in Actions : StartAttach(t, a)

\* A thread inside a call.
Step(t) ==
  \/ AdvanceAssert(t) \/ AdvanceAdd(t)
  \/ DecrementAssert(t) \/ DecrementSub(t) \/ StoreTriggered(t)
  \/ Exchange(t) \/ ConsumeOne(t) \/ ConsumedAll(t)
  \/ LoadTriggered(t) \/ RunNow(t) \/ Emplace(t) \/ ReloadTriggered(t)

Next == \E t \in Threads : Call(t) \/ Step(t)

SafeSpec == Init /\ [][Next]_vars

\* A thread that is in a call goes on with it; no thread has to start one.
Spec == SafeSpec /\ \A t \in Threads : WF_vars(Step(t))

-----------------------------------------------------------------------------
TypeOK ==
  /\ triggered \in BOOLEAN
  /\ count \in 0..(Modulus - 1)
  /\ queue \in Seq(Actions)
  /\ place \in [Tokens -> Threads \cup {Free, Held}]
  /\ attached \in SUBSET Actions
  /\ pc \in [Threads -> Labels]
  /\ arg \in [Threads -> SUBSET Actions]
  /\ batch \in [Threads -> Seq(Actions)]
  /\ runs \in [Actions -> Nat]

\* The asserts of advance_count and decrement_count never fail: nobody who
\* follows the contract is late for the event (join_counter.hpp:79 and 87).
AssertsHold == \A t \in Threads : pc[t] # "abort"

\* No action is run while somebody still holds a unit of the count: a task
\* never starts before the last of its dependencies is satisfied.
RunsOnlyAfterRelease == (\E a \in Actions : runs[a] > 0) => Out = {}

\* An action is run at most once, although the thread that triggers and every
\* thread that attaches late may drain the queue at the same time.
AtMostOnce == \A a \in Actions : runs[a] <= 1

\* No lost wake-up: an action left in the queue of a triggered event has a
\* thread on its way to take it, so the second load of attach_or_do_action
\* closes the window between its first load and its emplace.
NoStranded ==
  triggered /\ queue # <<>> =>
    \E t \in Threads : pc[t] \in {"exchange", "reload"}

\* The count has come to zero exactly when the event is, or is about to be,
\* triggered: no decrement is the last one twice, and none is missed.
CountZeroTriggers ==
  count = 0 <=> triggered \/ \E t \in Threads : pc[t] = "store"

-----------------------------------------------------------------------------
\* What the event and its counter implement.
L == INSTANCE Latch WITH
       holds   <- Out,
       open    <- triggered,
       pending <- {a \in attached : runs[a] = 0},
       done    <- {a \in attached : runs[a] > 0}

\* The interleaved calls behave as the abstract latch does.
ImplementsLatch == L!Spec
=============================================================================
