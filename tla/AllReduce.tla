------------------------------ MODULE AllReduce ------------------------------
(***************************************************************************)
(* Runtime::allreduce_use of collectives.cpp: one invocation, to which     *)
(* every index of a task collection contributes a use.                     *)
(*                                                                         *)
(* A thread is an index that calls allreduce_use, or whoever makes the in  *)
(* or anti-in flow of a use ready.  As in Flows.tla its agenda is what is  *)
(* left of its call stack, and the ready triggers of flows behave as       *)
(* Latch.tla.  The calls are serialized by the recursive mutex of the      *)
(* token's map of collectives, the actions of flows are not.               *)
(***************************************************************************)
EXTENDS Naturals, Sequences, FiniteSets

CONSTANT Indices

\* assert(token->size != 1)
ASSUME IndicesAssumption == IsFiniteSet(Indices) /\ Cardinality(Indices) > 1

\* The ready triggers of the flows of the uses.
InFlow(i) == <<i, "in">>
AntiInFlow(i) == <<i, "anti_in">>
Flows == Indices \X {"in", "anti_in"}
Threads == {<<i, "call">> : i \in Indices} \cup Flows
NoThread == <<>>

\* An operation that is responsible for a decrement of ready_event names the flow
\* that the decrement is for; so does an action that ends in such an operation.
Decrement(f) == [do |-> "decrement", unit |-> f]
Contribute(i) == [do |-> "contribute", index |-> i, unit |-> InFlow(i)]
Reduce(i) == [do |-> "reduce", index |-> i, unit |-> InFlow(i)]
Reducing(i) == [do |-> "reducing", index |-> i, unit |-> InFlow(i)]
Attach(f, action) == [do |-> "attach", flow |-> f, action |-> action, unit |-> action.unit]
Release(i) == [do |-> "release", index |-> i]
Copy == [do |-> "copy"]
Erase == [do |-> "erase"]
Unlock == [do |-> "unlock"]

VARIABLES has_anti_in,  \* the uses that have an anti-in flow
          ready,        \* the flows that are ready
          actions,      \* the actions attached to a flow
          lock,         \* the thread that holds the map's mutex
          in_map,       \* whether the tag is in the map
          input_uses,   \* of the invocation
          count,        \* of its ready_event, to which the completion is attached
          contributed,  \* how often the data of an index was reduced into the first's
          copied,       \* whether the result was copied to every use
          released,     \* the uses released
          agenda        \* what a thread has left to do

vars == <<has_anti_in, ready, actions, lock, in_map, input_uses, count,
          contributed, copied, released, agenda>>

-----------------------------------------------------------------------------
\* Mutant: one for each contribution.
OneForEach(n) == n

\* CollectiveInvocation: in and anti-in for each contribution.
Contributions(n) == 2 * n

Init ==
  /\ has_anti_in \in SUBSET Indices
  /\ ready = {}
  /\ actions = [f \in Flows |-> <<>>]
  /\ lock = NoThread
  /\ in_map = FALSE
  /\ input_uses = <<>>
  /\ count = Contributions(Cardinality(Indices))
  /\ contributed = [i \in Indices |-> 0]
  /\ copied = FALSE
  /\ released = {}
  /\ agenda = [th \in Threads |-> <<>>]

Called == {input_uses[k] : k \in DOMAIN input_uses}
First == Head(input_uses)

\* Mutant: nothing stands for the anti-in flow of a use that has none.
AntiInOrNothing(i) ==
  IF i \in has_anti_in THEN <<Attach(AntiInFlow(i), Decrement(AntiInFlow(i)))>> ELSE <<>>

AntiInOps(i) ==
  LET decrement == Decrement(AntiInFlow(i)) IN
  IF i \in has_anti_in THEN <<Attach(AntiInFlow(i), decrement)>> ELSE <<decrement>>

\* Every use but the first is to be reduced into the first's data.
InAction(i) == IF in_map THEN Contribute(i) ELSE Decrement(InFlow(i))

\* Under the lock, which is held until everything that this runs has returned.
AllReduceUse(i) ==
  LET th == <<i, "call">> IN
  /\ i \notin Called
  /\ lock = NoThread
  /\ lock' = th
  /\ in_map' = TRUE
  /\ input_uses' = Append(input_uses, i)
  /\ agenda' = [agenda EXCEPT ![th] =
                  AntiInOps(i) \o <<Attach(InFlow(i), InAction(i)), Unlock>>]
  /\ UNCHANGED <<has_anti_in, ready, actions, count, contributed, copied, released>>

MakeReady(f) ==
  /\ f \notin ready
  /\ f[2] = "anti_in" => f[1] \in has_anti_in
  /\ ready' = ready \cup {f}
  /\ agenda' = [agenda EXCEPT ![f] = actions[f]]
  /\ actions' = [actions EXCEPT ![f] = <<>>]
  /\ UNCHANGED <<has_anti_in, lock, in_map, input_uses, count, contributed, copied, released>>

-----------------------------------------------------------------------------
(* What is on an agenda                                                     *)

IsNext(th, op) == agenda[th] # <<>> /\ Head(agenda[th]).do = op
Then(th, ops) == agenda' = [agenda EXCEPT ![th] = ops \o Tail(@)]

DoAttach(th) ==
  LET f == Head(agenda[th]).flow
      action == Head(agenda[th]).action
  IN
  /\ IsNext(th, "attach")
  /\ IF f \in ready
       THEN Then(th, <<action>>) /\ UNCHANGED actions
       ELSE Then(th, <<>>) /\ actions' = [actions EXCEPT ![f] = Append(@, action)]
  /\ UNCHANGED <<has_anti_in, ready, lock, in_map, input_uses, count, contributed, copied, released>>

\* The data of a use is there: contribute once that of the first is, too.
DoContribute(th) ==
  LET i == Head(agenda[th]).index
      contribution == Attach(InFlow(First), Reduce(i))
  IN
  /\ IsNext(th, "contribute")
  /\ Then(th, IF First \in has_anti_in
                THEN <<Attach(AntiInFlow(First), contribution)>>
                ELSE <<contribution>>)
  /\ UNCHANGED <<has_anti_in, ready, actions, lock, in_map, input_uses, count, contributed, copied, released>>

\* reduce_unpacked_into_unpacked is on its way, then the invocation is told.
DoReduce(th) ==
  /\ IsNext(th, "reduce")
  /\ Then(th, <<Reducing(Head(agenda[th]).index)>>)
  /\ UNCHANGED <<has_anti_in, ready, actions, lock, in_map, input_uses, count, contributed, copied, released>>

EndReduce(th) ==
  LET i == Head(agenda[th]).index IN
  /\ IsNext(th, "reducing")
  /\ contributed' = [contributed EXCEPT ![i] = @ + 1]
  /\ Then(th, <<Decrement(InFlow(i))>>)
  /\ UNCHANGED <<has_anti_in, ready, actions, lock, in_map, input_uses, count, copied, released>>

\* ready_event.decrement_count(): the last one runs the completion.
DoDecrement(th) ==
  /\ IsNext(th, "decrement")
  /\ count > 0
  /\ count' = count - 1
  /\ Then(th, IF count = 1
                THEN <<Copy>> \o [k \in DOMAIN input_uses |-> Release(input_uses[k])] \o <<Erase>>
                ELSE <<>>)
  /\ UNCHANGED <<has_anti_in, ready, actions, lock, in_map, input_uses, contributed, copied, released>>

DoCopy(th) ==
  /\ IsNext(th, "copy")
  /\ copied' = TRUE
  /\ Then(th, <<>>)
  /\ UNCHANGED <<has_anti_in, ready, actions, lock, in_map, input_uses, count, contributed, released>>

DoRelease(th) ==
  /\ IsNext(th, "release")
  /\ released' = released \cup {Head(agenda[th]).index}
  /\ Then(th, <<>>)
  /\ UNCHANGED <<has_anti_in, ready, actions, lock, in_map, input_uses, count, contributed, copied>>

\* collectives.erase(tag) takes the lock that this thread may already hold.
DoErase(th) ==
  /\ IsNext(th, "erase")
  /\ lock \in {NoThread, th}
  /\ in_map' = FALSE
  /\ Then(th, <<>>)
  /\ UNCHANGED <<has_anti_in, ready, actions, lock, input_uses, count, contributed, copied, released>>

DoUnlock(th) ==
  /\ IsNext(th, "unlock")
  /\ lock' = NoThread
  /\ Then(th, <<>>)
  /\ UNCHANGED <<has_anti_in, ready, actions, in_map, input_uses, count, contributed, copied, released>>

Step(th) ==
  \/ DoAttach(th) \/ DoContribute(th) \/ DoReduce(th) \/ EndReduce(th) \/ DoDecrement(th)
  \/ DoCopy(th) \/ DoRelease(th) \/ DoErase(th) \/ DoUnlock(th)

Next ==
  \/ \E i \in Indices : AllReduceUse(i)
  \/ \E f \in Flows : MakeReady(f)
  \/ \E th \in Threads : Step(th)

\* A thread goes on.  Nobody has to call, and no flow has to become ready.
Spec == Init /\ [][Next]_vars /\ \A th \in Threads : WF_vars(Step(th))

-----------------------------------------------------------------------------
\* Who is responsible for a decrement: an agenda, or the actions of a flow.
Places == (Threads \X {"agenda"}) \cup (Flows \X {"actions"})
At(p) == IF p[2] = "agenda" THEN agenda[p[1]] ELSE actions[p[1]]
Gives(op, u) ==
  op.do \in {"attach", "contribute", "reduce", "reducing", "decrement"} /\ op.unit = u
Held(u) == \E p \in Places : \E k \in DOMAIN At(p) : Gives(At(p)[k], u)
Outstanding == {u \in Flows : u[1] \notin Called \/ Held(u)}

\* The invocation completes after exactly one decrement for each in flow and
\* each anti-in flow, whoever makes them ready and in whatever order: the count is
\* the number of those to come, and for each of them one and no more is responsible.
ReadyCountExact ==
  /\ count = Cardinality(Outstanding)
  /\ \A p, q \in Places : \A j \in DOMAIN At(p), k \in DOMAIN At(q) : \A u \in Flows :
       Gives(At(p)[j], u) /\ Gives(At(q)[k], u) => p = q /\ j = k

ReducingNow == {th \in Threads : IsNext(th, "reducing")}

\* What is copied to every use is the reduction of all of them, and it is
\* copied when nobody writes the first use's data or reads another's any more.
CompletedWithAll ==
  (copied \/ \E th \in Threads : IsNext(th, "copy")) =>
    /\ Called = Indices
    /\ \A i \in Indices \ {First} : contributed[i] = 1
    /\ ReducingNow = {}
    /\ \A i \in Indices : InFlow(i) \in ready /\ (i \in has_anti_in => AntiInFlow(i) \in ready)

\* When every index has called and every flow is ready, every use is released
\* and the tag is free again, in the end.
EverybodyReleased ==
  (/\ Called = Indices
   /\ \A i \in Indices : InFlow(i) \in ready /\ (i \in has_anti_in => AntiInFlow(i) \in ready))
    ~> released = Indices /\ ~in_map

\* The comment in allreduce_use: all of the reduction op invocations "will be
\* serialized and thus won't race", being actions of the first use's in flow.
ContributionsSerialized == Cardinality(ReducingNow) <= 1
=============================================================================
