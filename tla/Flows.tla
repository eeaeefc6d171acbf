------------------------------- MODULE Flows -------------------------------
(***************************************************************************)
(* register_use.cpp, release_use.cpp, flow/flow.hpp and                    *)
(* flow/aliasing_strategy.cpp: the flows and anti-flows of the uses of one *)
(* handle, and the tasks that wait for them.                               *)
(*                                                                         *)
(* A thread (the main program, a task that runs, a worker with a callable) *)
(* does what it has to do one operation on one join counter at a time; the *)
(* actions of a counter that it triggers come first.  Its agenda is what   *)
(* is left: the rest of its call stack.  Join counters behave as Latch.tla.*)
(* Every count has one unit for each decrement to come; the code counts    *)
(* them, and here each has a name: what part of which use it is for.       *)
(*                                                                         *)
(* Which relationships a captured use has to the use it is captured from   *)
(* is the frontend's choice, and no part of this repository: Capture below *)
(* is the one under which every assert and comment of register_use.cpp     *)
(* holds.  The IndexedFetching cases, which go through the publication     *)
(* table, and the control blocks are left out.                             *)
(***************************************************************************)
EXTENDS Integers, Sequences, FiniteSets

CONSTANTS Width,     \* how many tasks the program captures at the top level
          Subwidth,  \* and how many a task captures
          Indices,   \* how many indices a collection has; 0 for a plain handle
          Workers    \* the workers that run callable operations

ASSUME BoundsAssumption == {Width, Subwidth, Indices, Workers} \subseteq Nat

\* A task is a path from the main program <<>>.
Main == <<>>
TopTasks == {<<i>> : i \in 1..Width}
SubTasks == {<<i, j>> : i \in 1..Width, j \in 1..(IF Indices = 0 THEN Subwidth ELSE Indices)}
Tasks == TopTasks \cup SubTasks
Threads == {Main} \cup Tasks \cup {<<0, w>> : w \in 1..Workers}

\* A use is captured by a task, or the one that goes on where it was captured.
UseIds == ({Main} \cup Tasks) \X {"captured", "continuing"}

\* The flow or anti-flow made when a use was registered, in one of its roles.
Roles == {"in", "anti_in", "out", "anti_out"}
Flows == UseIds \X Roles
None == <<<<Main, "continuing">>, "in">>  \* nullptr: no such flow is ever made

Relationship(description, related) == [description |-> description, related |-> related]
Insignificant == Relationship("insignificant", None)

\* The units of a use's part in the counts: of its flows, of what links the
\* flows of an index to the collection's, of its alias, and of its task's wait.
WaitUnits == UseIds \X {"wait_in", "wait_anti_in", "setup"}
FlowUnits == UseIds \X {"in", "anti_in", "out", "anti_out", "link_out", "link_anti_out",
                        "alias_out", "alias_anti_in"}

\* The operations on an agenda.  A unit belongs to the counter of a flow, or of
\* the pending operation of a task.
Increment(f, unit) == [do |-> "increment", counter |-> f, unit |-> unit]
Decrement(f, unit) == [do |-> "decrement", counter |-> f, unit |-> unit]
EnqueueDecrement(f, unit) == [do |-> "enqueue", counter |-> f, unit |-> unit]
Satisfy(t, unit) == [do |-> "satisfy", counter |-> t, unit |-> unit]
Attach(f, action) == [do |-> "attach", counter |-> f, action |-> action]
RegisterFrom(t, i, collection) ==
  [do |-> "register", task |-> t, index |-> i, use |-> collection]

VARIABLES count,      \* of a flow: the count of its ready trigger
          actions,    \* the actions attached to the ready trigger
          use,        \* of the main program or a task: its use of the handle now
          agenda,     \* what a thread has left to do before its next step
          captures,   \* how many tasks it has captured
          kind,       \* "read", "write" or "index": the use a task was captured with
          status,     \* where a task is in its life
          need,       \* the count of its pending operation
          callables   \* the decrements that are callable operations on ready queues

vars == <<count, actions, use, agenda, captures, kind, status, need, callables>>

-----------------------------------------------------------------------------
(* register_use: what each relationship makes of a flow                     *)

\* A flow of its own, always with a count of 1.
IsNew(role, rel) ==
  CASE role = "in" -> rel.description \in {"next", "initial", "indexed_local"}
    [] role = "anti_in" -> \/ rel.description \in {"next", "forwarding"}
                           \/ rel.description = "indexed_local" /\ rel.related # None
    [] role = "out" -> rel.description \in {"next", "null", "indexed_local"}
    [] role = "anti_out" -> rel.description \in {"next", "initial", "indexed_local"}

FlowFor(id, role, rel) == IF IsNew(role, rel) THEN <<id, role>> ELSE rel.related

\* The decrement of the count that a new flow starts with.
MakeReady(id, role) == Decrement(<<id, role>>, <<id, role>>)

InFlowOps(id, rel) ==
  CASE rel.description \in {"next", "indexed_local"} ->
         <<Attach(rel.related, MakeReady(id, "in"))>>
    [] rel.description = "initial" -> <<MakeReady(id, "in")>>
    [] OTHER -> <<>>

AntiInFlowOps(id, rel, anti_dependency) ==
  CASE rel.description = "same" /\ rel.related # None /\ ~anti_dependency ->
         <<Increment(rel.related, <<id, "anti_in">>)>>
    [] rel.description = "forwarding" -> <<MakeReady(id, "anti_in")>>
    [] rel.description = "indexed_local" /\ rel.related # None ->
         <<Attach(rel.related, MakeReady(id, "anti_in"))>>
    [] OTHER -> <<>>

\* Mutant: the out flow of an index does not hold up the collection's.
OutFlowUnlinked(id, rel) ==
  IF rel.description = "same" THEN <<Increment(rel.related, <<id, "out">>)>> ELSE <<>>

OutFlowOps(id, rel) ==
  CASE rel.description = "same" -> <<Increment(rel.related, <<id, "out">>)>>
    [] rel.description = "indexed_local" ->
         <<Increment(rel.related, <<id, "link_out">>),
           Attach(<<id, "out">>, Decrement(rel.related, <<id, "link_out">>))>>
    [] OTHER -> <<>>

\* Mutant: the count taken for an index is never given back.
AntiOutNeverReturned(id, rel) ==
  CASE rel.description = "same" -> <<Increment(rel.related, <<id, "anti_out">>)>>
    [] rel.description = "indexed_local" -> <<Increment(rel.related, <<id, "link_anti_out">>)>>
    [] OTHER -> <<>>

\* Mutant: a second use of an anti-out flow takes no count of its own.
AntiOutNotCounted(id, rel) ==
  IF rel.description = "indexed_local"
    THEN <<Increment(rel.related, <<id, "link_anti_out">>),
           Attach(<<id, "anti_out">>, Decrement(rel.related, <<id, "link_anti_out">>))>>
    ELSE <<>>

AntiOutFlowOps(id, rel) ==
  CASE rel.description = "same" -> <<Increment(rel.related, <<id, "anti_out">>)>>
    [] rel.description = "indexed_local" ->
         <<Increment(rel.related, <<id, "link_anti_out">>),
           Attach(<<id, "anti_out">>, Decrement(rel.related, <<id, "link_anti_out">>))>>
    [] OTHER -> <<>>

\* The relationships of a use to be registered: rels.in, rels.anti_in, ...
NewFlows(id, rels) == {<<id, role>> : role \in {r \in Roles : IsNew(r, rels[r])}}

Registered(id, rels, anti_dependency) ==
  [id |-> id,
   in |-> FlowFor(id, "in", rels.in), anti_in |-> FlowFor(id, "anti_in", rels.anti_in),
   out |-> FlowFor(id, "out", rels.out), anti_out |-> FlowFor(id, "anti_out", rels.anti_out),
   anti_dependency |-> anti_dependency, establishes_alias |-> FALSE]

RegisterUse(id, rels, anti_dependency) ==
  InFlowOps(id, rels.in) \o AntiInFlowOps(id, rels.anti_in, anti_dependency)
    \o OutFlowOps(id, rels.out) \o AntiOutFlowOps(id, rels.anti_out)

-----------------------------------------------------------------------------
(* release_use, and the alias of a use that has nothing left to do          *)

\* f is not ready before g is: the decrement of f goes to a ready queue.
AliasTo(f, g, unit) == <<Increment(f, unit), Attach(g, EnqueueDecrement(f, unit))>>

\* Mutant: the anti-flows are aliased the way the flows are.
AliasForward(u) ==
  AliasTo(u.out, u.in, <<u.id, "alias_out">>)
    \o IF u.anti_in = None THEN <<>>
       ELSE AliasTo(u.anti_out, u.anti_in, <<u.id, "alias_anti_in">>)

\* The out flow waits for the in flow, the anti-in flow for the anti-out flow.
EstablishAlias(u) ==
  AliasTo(u.out, u.in, <<u.id, "alias_out">>)
    \o IF u.anti_in = None THEN <<>>
       ELSE AliasTo(u.anti_in, u.anti_out, <<u.id, "alias_anti_in">>)

DecrementOf(u, role) ==
  IF u[role] = None THEN <<>> ELSE <<Decrement(u[role], <<u.id, role>>)>>

\* Mutant: the anti-in flow is released whether or not the use held it up.
ReleaseAntiInAlways(u) ==
  (IF u.establishes_alias THEN EstablishAlias(u) ELSE <<>>)
    \o DecrementOf(u, "anti_in") \o DecrementOf(u, "out") \o DecrementOf(u, "anti_out")

\* Mutant: the anti-out flow of a use that only reads is not released.
ReleaseWritersOnly(u) ==
  (IF u.establishes_alias THEN EstablishAlias(u) ELSE <<>>)
    \o (IF u.anti_dependency THEN <<>> ELSE DecrementOf(u, "anti_in"))
    \o DecrementOf(u, "out") \o (IF u.out = None THEN <<>> ELSE DecrementOf(u, "anti_out"))

ReleaseUse(u) ==
  (IF u.establishes_alias THEN EstablishAlias(u) ELSE <<>>)
    \o (IF u.anti_dependency THEN <<>> ELSE DecrementOf(u, "anti_in"))
    \o DecrementOf(u, "out") \o DecrementOf(u, "anti_out")

\* make_pending_task for a task with one use.
MakePendingTask(t, u) ==
  <<Attach(u.in, Satisfy(t, <<u.id, "wait_in">>))>>
    \o (IF u.anti_dependency
         THEN <<Attach(u.anti_in, Satisfy(t, <<u.id, "wait_anti_in">>))>> ELSE <<>>)
    \o <<Satisfy(t, <<u.id, "setup">>)>>

PendingCount(u) == IF u.anti_dependency THEN 3 ELSE 2

-----------------------------------------------------------------------------
(* The frontend: the relationships of the uses it captures (external)       *)

\* A task with permission to modify, which has captured nothing yet.
Modifying(u) == u.anti_dependency

CapturedRels(u, k) ==
  [in       |-> Relationship(IF Modifying(u) THEN "forwarding" ELSE "same", u.in),
   out      |-> IF k = "read" THEN Insignificant ELSE Relationship("next", u.in),
   anti_in  |-> IF k = "read" THEN Insignificant
                ELSE Relationship(IF Modifying(u) THEN "forwarding" ELSE "same", u.anti_out),
   anti_out |-> Relationship(IF k = "read" /\ ~Modifying(u) THEN "same" ELSE "next", u.anti_out)]

\* What is left of u when v was captured from it.
ContinuingRels(u, v, k) ==
  [in       |-> Relationship("same", IF k = "read" THEN v.in ELSE v.out),
   out      |-> Relationship("same", u.out),
   anti_in  |-> Relationship("same", IF Modifying(u) THEN u.anti_out ELSE u.anti_in),
   anti_out |-> Relationship("same", v.anti_out)]

\* The use of one index of a collection's.
IndexRels(u) ==
  [role \in Roles |-> Relationship("indexed_local", u[role])]

InitialRels ==
  [in       |-> Relationship("initial", None),
   out      |-> Relationship("null", None),
   anti_in  |-> Insignificant,
   anti_out |-> Relationship("initial", None)]

-----------------------------------------------------------------------------
Init ==
  LET id == <<Main, "captured">>
  IN  /\ count = [f \in Flows |-> IF f \in NewFlows(id, InitialRels) THEN 1 ELSE 0]
      /\ actions = [f \in Flows |-> <<>>]
      /\ use = [c \in {Main} \cup Tasks |-> Registered(id, InitialRels, FALSE)]
      /\ agenda = [th \in Threads |->
                     IF th = Main THEN RegisterUse(id, InitialRels, FALSE) ELSE <<>>]
      /\ captures = [c \in {Main} \cup Tasks |-> 0]
      /\ kind = [t \in Tasks |-> "read"]
      /\ status = [c \in {Main} \cup Tasks |-> IF c = Main THEN "running" ELSE "unregistered"]
      /\ need = [t \in Tasks |-> 0]
      /\ callables = {}

-----------------------------------------------------------------------------
(* One operation of a thread                                                *)

IsNext(th, op) == agenda[th] # <<>> /\ Head(agenda[th]).do = op

DoIncrement(th) ==
  LET f == Head(agenda[th]).counter IN
  /\ IsNext(th, "increment")
  /\ count[f] > 0
  /\ count' = [count EXCEPT ![f] = @ + 1]
  /\ agenda' = [agenda EXCEPT ![th] = Tail(@)]
  /\ UNCHANGED <<actions, use, captures, kind, status, need, callables>>

\* The last one runs the attached actions before the thread goes on.
DoDecrement(th) ==
  LET f == Head(agenda[th]).counter IN
  /\ IsNext(th, "decrement")
  /\ count[f] > 0
  /\ count' = [count EXCEPT ![f] = @ - 1]
  /\ IF count[f] = 1
       THEN /\ agenda' = [agenda EXCEPT ![th] = actions[f] \o Tail(@)]
            /\ actions' = [actions EXCEPT ![f] = <<>>]
       ELSE /\ agenda' = [agenda EXCEPT ![th] = Tail(@)]
            /\ UNCHANGED actions
  /\ UNCHANGED <<use, captures, kind, status, need, callables>>

DoAttach(th) ==
  LET f == Head(agenda[th]).counter
      action == Head(agenda[th]).action
  IN
  /\ IsNext(th, "attach")
  /\ IF count[f] = 0
       THEN /\ agenda' = [agenda EXCEPT ![th] = <<action>> \o Tail(@)]
            /\ UNCHANGED actions
       ELSE /\ agenda' = [agenda EXCEPT ![th] = Tail(@)]
            /\ actions' = [actions EXCEPT ![f] = Append(@, action)]
  /\ UNCHANGED <<count, use, captures, kind, status, need, callables>>

\* when_ready_do: its callable goes to a ready queue.
DoEnqueue(th) ==
  /\ IsNext(th, "enqueue")
  /\ callables' = callables
        \cup {Decrement(Head(agenda[th]).counter, Head(agenda[th]).unit)}
  /\ agenda' = [agenda EXCEPT ![th] = Tail(@)]
  /\ UNCHANGED <<count, actions, use, captures, kind, status, need>>

DoSatisfy(th) ==
  LET t == Head(agenda[th]).counter IN
  /\ IsNext(th, "satisfy")
  /\ need' = [need EXCEPT ![t] = @ - 1]
  /\ status' = IF need[t] = 1 THEN [status EXCEPT ![t] = "ready"] ELSE status
  /\ agenda' = [agenda EXCEPT ![th] = Tail(@)]
  /\ UNCHANGED <<count, actions, use, captures, kind, callables>>

\* One more index in the loop of register_task_collection: a use and a task of
\* its own; after the last one, the use of the whole collection is released.
DoRegister(th) ==
  LET op   == Head(agenda[th])
      p    == Append(op.task, op.index)
      id   == <<p, "captured">>
      rels == IndexRels(op.use)
      part == Registered(id, rels, TRUE)
      rest == RegisterFrom(op.task, op.index + 1, op.use)
  IN
  /\ IsNext(th, "register")
  /\ IF op.index > Indices
       THEN /\ agenda' = [agenda EXCEPT ![th] = ReleaseUse(op.use) \o Tail(@)]
            /\ UNCHANGED <<count, use, kind, status, need>>
       ELSE /\ agenda' = [agenda EXCEPT ![th] = RegisterUse(id, rels, TRUE)
                            \o MakePendingTask(p, part) \o <<rest>> \o Tail(@)]
            /\ use' = [use EXCEPT ![p] = part]
            /\ count' = [f \in Flows |-> IF f \in NewFlows(id, rels) THEN 1 ELSE count[f]]
            /\ need' = [need EXCEPT ![p] = PendingCount(part)]
            /\ kind' = [kind EXCEPT ![p] = "index"]
            /\ status' = [status EXCEPT ![p] = "pending"]
  /\ UNCHANGED <<actions, captures, callables>>

Step(th) ==
  \/ DoIncrement(th) \/ DoDecrement(th) \/ DoAttach(th)
  \/ DoEnqueue(th) \/ DoSatisfy(th) \/ DoRegister(th)

-----------------------------------------------------------------------------
(* The program and its tasks                                                *)

Bound(c) == IF c = Main THEN Width ELSE IF Indices = 0 /\ Len(c) = 1 THEN Subwidth ELSE 0

\* Uses are captured by the main program and by the tasks that may modify.
CanCapture(c) ==
  /\ status[c] = "running"
  /\ c # Main => kind[c] = "write"
  /\ agenda[c] = <<>>
  /\ captures[c] < Bound(c)

\* The captured use, and the one that takes the place of the source, which is
\* then released; a plain read leaves the source as it is.
Capture(c, t, k) ==
  LET u    == use[c]
      id   == <<t, "captured">>
      crel == CapturedRels(u, k)
      v    == Registered(id, crel, k # "read")
      cid  == <<t, "continuing">>
      nrel == ContinuingRels(u, v, k)
      next == [Registered(cid, nrel, FALSE) EXCEPT !.establishes_alias = TRUE]
  IN  IF k = "read" /\ ~Modifying(u)
        THEN [captured |-> v, left |-> u, new |-> NewFlows(id, crel),
              ops |-> RegisterUse(id, crel, FALSE)]
        ELSE [captured |-> v, left |-> next, new |-> NewFlows(id, crel),
              ops |-> RegisterUse(id, crel, k # "read") \o RegisterUse(cid, nrel, FALSE)
                        \o ReleaseUse([u EXCEPT !.establishes_alias = FALSE])]

\* A task that reads, or for a plain handle one that writes: register_task.
CaptureTask(c, k) ==
  LET t   == Append(c, captures[c] + 1)
      cap == Capture(c, t, k)
  IN
  /\ CanCapture(c)
  /\ k = "write" => Indices = 0
  /\ captures' = [captures EXCEPT ![c] = @ + 1]
  /\ use' = [use EXCEPT ![c] = cap.left, ![t] = cap.captured]
  /\ count' = [f \in Flows |-> IF f \in cap.new THEN 1 ELSE count[f]]
  /\ agenda' = [agenda EXCEPT ![c] = cap.ops \o MakePendingTask(t, cap.captured)]
  /\ need' = [need EXCEPT ![t] = PendingCount(cap.captured)]
  /\ kind' = [kind EXCEPT ![t] = k]
  /\ status' = [status EXCEPT ![t] = "pending"]
  /\ UNCHANGED <<actions, callables>>

\* register_task_collection: its indices are registered one after another.
CaptureCollection ==
  LET t   == <<captures[Main] + 1>>
      cap == Capture(Main, t, "write")
  IN
  /\ CanCapture(Main)
  /\ Indices > 0
  /\ captures' = [captures EXCEPT ![Main] = @ + 1]
  /\ use' = [use EXCEPT ![Main] = cap.left]
  /\ count' = [f \in Flows |-> IF f \in cap.new THEN 1 ELSE count[f]]
  /\ agenda' = [agenda EXCEPT ![Main] = cap.ops \o <<RegisterFrom(t, 1, cap.captured)>>]
  /\ UNCHANGED <<actions, kind, status, need, callables>>

Start(t) ==
  /\ status[t] = "ready"
  /\ status' = [status EXCEPT ![t] = "running"]
  /\ UNCHANGED <<count, actions, use, agenda, captures, kind, need, callables>>

\* The body returns, and the task's use of the handle is released.
Finish(c) ==
  /\ status[c] = "running"
  /\ agenda[c] = <<>>
  /\ status' = [status EXCEPT ![c] = "done"]
  /\ agenda' = [agenda EXCEPT ![c] = ReleaseUse(use[c])]
  /\ UNCHANGED <<count, actions, use, captures, kind, need, callables>>

RunCallable(w) ==
  /\ agenda[w] = <<>>
  /\ \E op \in callables :
       /\ callables' = callables \ {op}
       /\ agenda' = [agenda EXCEPT ![w] = <<op>>]
  /\ UNCHANGED <<count, actions, use, captures, kind, status, need>>

-----------------------------------------------------------------------------
Helpers == {<<0, w>> : w \in 1..Workers}

Next ==
  \/ \E th \in Threads : Step(th)
  \/ \E c \in {Main} \cup TopTasks, k \in {"read", "write"} : CaptureTask(c, k)
  \/ CaptureCollection
  \/ \E t \in Tasks : Start(t)
  \/ \E c \in {Main} \cup Tasks : Finish(c)
  \/ \E w \in Helpers : RunCallable(w)

\* Threads go on, bodies return, and ready operations are run.
Spec ==
  /\ Init /\ [][Next]_vars
  /\ \A th \in Threads : WF_vars(Step(th))
  /\ \A t \in Tasks : WF_vars(Start(t))
  /\ \A c \in {Main} \cup Tasks : WF_vars(Finish(c))
  /\ \A w \in Helpers : WF_vars(RunCallable(w))

-----------------------------------------------------------------------------
\* The asserts of the join counters: no flow that is ready is ever made to
\* wait for one more use, and none is released once too often.
AssertsHold ==
  \A th \in Threads :
    agenda[th] # <<>> /\ Head(agenda[th]).do \in {"increment", "decrement"} =>
      count[Head(agenda[th]).counter] > 0

\* The units, each with its counter, that a use will give back when released,
OwedByUse(u) ==
  {<<<<u.id, role>>, u[role]>> :
     role \in {r \in {"anti_in", "out", "anti_out"} :
                 u[r] # None /\ (r = "anti_in" => ~u.anti_dependency)}}

\* an operation now or, when it is attached, later,
OwedByOp(op) ==
  IF op.do \in {"decrement", "enqueue", "satisfy"} THEN {<<op.unit, op.counter>>}
  ELSE IF op.do = "attach" THEN {<<op.action.unit, op.action.counter>>}
  ELSE IF op.do = "register" THEN OwedByUse(op.use)
  ELSE {}

OwedByOps(ops) == UNION {OwedByOp(ops[k]) : k \in DOMAIN ops}

\* and everything there is: agendas, actions, callables and uses not released.
Places == ({"agenda"} \X Threads) \cup ({"actions"} \X Flows)
            \cup ({"use"} \X ({Main} \cup Tasks)) \cup ({"callables"} \X {Main})

OwedAt(place) ==
  CASE place[1] = "agenda" -> OwedByOps(agenda[place[2]])
    [] place[1] = "actions" -> OwedByOps(actions[place[2]])
    [] place[1] = "use" -> IF status[place[2]] \in {"pending", "ready", "running"}
                             THEN OwedByUse(use[place[2]]) ELSE {}
    [] place[1] = "callables" -> UNION {OwedByOp(op) : op \in callables}

Owed == UNION {OwedAt(place) : place \in Places}

\* The units that operations will take, which have not been counted yet.
TakenByOps(ops) ==
  {<<ops[k].unit, ops[k].counter>> : k \in {i \in DOMAIN ops : ops[i].do = "increment"}}

ToCome == UNION {TakenByOps(agenda[th]) : th \in Threads}

Once(ops) == \A i, j \in DOMAIN ops : i # j => OwedByOp(ops[i]) \cap OwedByOp(ops[j]) = {}

\* What is owed is owed once,
OwedOnce ==
  LET owing == {place \in Places : OwedAt(place) # {}}
  IN  /\ \A p, q \in owing : p # q => OwedAt(p) \cap OwedAt(q) = {}
      /\ \A th \in Threads : Once(agenda[th])
      /\ \A f \in Flows : Once(actions[f])

\* and every count is the number of its units that somebody will give back: no
\* flow is ready or task started too early, and none is left waiting for a use
\* that is gone.
CountsAreOwed ==
  LET outstanding == Owed \ ToCome
  IN  /\ OwedOnce
      /\ \A f \in Flows : count[f] = Cardinality({x \in outstanding : x[1] \in FlowUnits /\ x[2] = f})
      /\ \A t \in Tasks : need[t] = Cardinality({x \in outstanding : x[1] \in WaitUnits /\ x[2] = t})

\* When the program has ended, every flow and anti-flow is ready in the end.
EveryFlowReady == status[Main] = "done" ~> \A f \in Flows : count[f] = 0

\* What the flows implement.
OrderStatus == [t \in Tasks |-> IF status[t] \in {"pending", "ready"} THEN "registered"
                               ELSE status[t]]

Order == INSTANCE DataOrder WITH status <- OrderStatus

\* Tasks see the data as if the program had been run from top to bottom.
ImplementsDataOrder == Order!Spec
=============================================================================
