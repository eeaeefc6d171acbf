-------------------------- MODULE FlowsOrderProofs --------------------------
(***************************************************************************)
(* What a count of zero means: whatever the flow waits for is over, so     *)
(* that the flows implement the order of the program (DataOrder), and what *)
(* that gives to a program.                                                *)
(*                                                                         *)
(* A unit that is still owed keeps its flow from being ready, and what one *)
(* flow promises to another is a unit of the other that an action of the   *)
(* first gives back.                                                       *)
(***************************************************************************)
EXTENDS FlowsProofs

-----------------------------------------------------------------------------
(* What keeps tasks in order                                                *)

\* A task that has been registered.
Present(t) == status[t] # "unregistered"

\* A captured collection: its indices are tasks, but not it itself.
IsCollection(t) == Indices > 0 /\ t \in TopTasks /\ t \in Known /\ ~Present(t)

\* Who makes flows of its own for others to wait for,
Writer(t) == (Present(t) /\ kind[t] = "write") \/ IsCollection(t)

\* and whatever has been captured.
Captured(t) == Present(t) \/ IsCollection(t)

\* The flow that is ready when t and what it wrote through is done,
Out(t) == <<<<t, "captured">>, "out">>

\* and the anti-flow that is ready when nobody uses that any more.
AntiOut(t) == <<<<t, "captured">>, "anti_out">>

\* v, or what the program comes to before it.
Past(p, v) == p = v \/ Order!Before(p, v)

\* f is not ready before the writer p is done,
InPast(f, p) == \E v \in Tasks : Writer(v) /\ f = Out(v) /\ Past(p, v)

\* and the anti-flow f not before p is, whatever p does.
AntiPast(f, p) ==
  \/ Present(p) /\ kind[p] = "read" /\ use[p].anti_out = f
  \/ \E v \in Tasks : Writer(v) /\ f = AntiOut(v) /\ Past(p, v)

\* x is given back by an action of g, attached or about to be.
Awaits(x, g) ==
  \/ \E k \in DOMAIN actions[g] : x \in OwedByOp(actions[g][k])
  \/ \E th \in Threads : \E k \in DOMAIN agenda[th] :
       /\ agenda[th][k].do = "attach" /\ agenda[th][k].counter = g
       /\ x \in OwedByOp(agenda[th][k])

\* x is not given back before g is ready.
Promise(x, g) == g \in Flows /\ g[1][1] \in Known /\ (count[g] > 0 => Awaits(x, g))

\* The unit of the use that t was captured with.
UnitOf(t, part) == <<<<t, "captured">>, part>>

\* The main program registers the indices of the collection that it captured last.
RegistersHome ==
  \A th \in Threads : \A op \in Registers(agenda[th]) :
     /\ th = Main /\ op.task = <<captures[Main]>> /\ IsCollection(op.task)
     /\ op.use.anti_out = AntiOut(op.task) /\ op.use.anti_in # None
     /\ \A p \in TopTasks : Captured(p) /\ p[1] < op.task[1] => AntiPast(op.use.anti_in, p)

\* Every index that is not registered is still to come.
IndicesCome ==
  \A q \in SubTasks : IsCollection(<<q[1]>>) /\ ~Present(q) =>
    \E op \in Registers(agenda[Main]) : op.task = <<q[1]>> /\ op.index <= q[2]

\* Tasks that write have subtasks once they have started, and collections indices.
Families ==
  /\ \A p \in SubTasks : Present(p) =>
       IF Indices = 0 THEN /\ kind[p] # "index" /\ kind[<<p[1]>>] = "write"
                           /\ status[<<p[1]>>] \in {"running", "done"}
       ELSE kind[p] = "index" /\ IsCollection(<<p[1]>>)
  /\ \A p \in TopTasks : Present(p) => kind[p] # "index" /\ (Indices > 0 => kind[p] = "read")

\* A task that writes holds up its flow and its anti-flow until it is done; when it
\* has captured, its use is the one that goes on.
WritersHold ==
  /\ ~use[Main].anti_dependency
  /\ \A s \in Tasks : Present(s) /\ kind[s] = "write" =>
       /\ use[s].out = Out(s)
       /\ IF use[s].anti_dependency
            THEN use[s].anti_out = AntiOut(s) /\ \A p \in SubTasks : Present(p) => Parent(p) # s
            ELSE use[s].anti_in = AntiOut(s) /\ use[s].establishes_alias

\* So does an index for the flows of its collection, and it waits for all that the
\* collection has to wait for.
IndexUses ==
  \A q \in SubTasks : Present(q) /\ kind[q] = "index" =>
    /\ use[q].anti_dependency
    /\ use[q].out = Out(q) /\ use[q].anti_out = AntiOut(q)
    /\ use[q].anti_in = UnitOf(q, "anti_in")
    /\ Promise(<<UnitOf(q, "link_out"), Out(<<q[1]>>)>>, Out(q))
    /\ Promise(<<UnitOf(q, "link_anti_out"), AntiOut(<<q[1]>>)>>, AntiOut(q))
    /\ status[q] = "pending" => \E g \in Flows :
         /\ Promise(<<UnitOf(q, "anti_in"), use[q].anti_in>>, g)
         /\ \A p \in TopTasks : Captured(p) /\ p[1] < q[1] => AntiPast(g, p)

\* What is captured next from a use will wait for all that was captured before it.
ScopesCover ==
  \A c \in Users : Present(c) /\ Writes(c) =>
    \A p \in Tasks : Captured(p) /\ Parent(p) = c =>
      /\ Writer(p) => InPast(use[c].in, p)
      /\ AntiPast(use[c].anti_out, p)

\* And so does what is registered.
WaitsCover ==
  \A t \in Tasks : status[t] = "pending" =>
    /\ Promise(<<UnitOf(t, "wait_in"), t>>, use[t].in)
    /\ use[t].anti_dependency => Promise(<<UnitOf(t, "wait_anti_in"), t>>, use[t].anti_in)
    /\ kind[t] # "read" => use[t].anti_dependency
    /\ \A p \in Tasks : Captured(p) /\ Parent(p) = Parent(t) /\ Order!Before(p, t) =>
         /\ kind[t] = "read" /\ Writer(p) => InPast(use[t].in, p)
         /\ kind[t] = "write" => AntiPast(use[t].anti_in, p)

\* When a task that captured is done, its flows wait for what its subtasks made.
AliasesKept ==
  \A s \in Tasks : status[s] = "done" /\ kind[s] = "write" /\ use[s].establishes_alias =>
    /\ Promise(<<<<use[s].id, "alias_out">>, use[s].out>>, use[s].in)
    /\ Promise(<<<<use[s].id, "alias_anti_in">>, use[s].anti_in>>, use[s].anti_out)

\* In flows, too, are of tasks that there are.
InKnown == \A c \in Users : Present(c) => use[c].in[1][1] \in Known

\* Whatever is ready, or has started, found what comes before it and conflicts with
\* it done.
ReadyInOrder ==
  \A p, t \in Tasks :
    /\ Order!Before(p, t) /\ Order!Conflict(p, t) /\ Present(p)
    /\ status[t] \in {"ready", "running", "done"}
    => status[p] = "done"

\* What keeps tasks in order, on top of the counts.
OrderInv ==
  /\ RegistersHome /\ IndicesCome /\ Families /\ WritersHold /\ IndexUses /\ ScopesCover
  /\ WaitsCover /\ AliasesKept /\ InKnown /\ ReadyInOrder

-----------------------------------------------------------------------------
(* The order of the program                                                 *)

\* What tasks look like.
LEMMA TopShape ==
  ASSUME NEW p \in TopTasks
  PROVE  p \in Tasks /\ p = <<p[1]>> /\ p[1] \in Nat /\ Len(p) = 1 /\ p \notin SubTasks /\ Parent(p) = Main
<1>1. PICK i \in 1..Width : p = <<i>>
  BY DEF TopTasks
<1>2. p[1] = i /\ Len(p) = 1 /\ i \in Nat
  BY <1>1, BoundsAssumption
<1> QED BY <1>1, <1>2, TasksApart DEF Tasks, Parent

\* A subtask is the second number below its task of the top level.
LEMMA SubShape ==
  ASSUME NEW p \in SubTasks
  PROVE  /\ p \in Tasks /\ p = <<p[1], p[2]>> /\ p[1] \in Nat /\ p[2] \in Nat /\ Len(p) = 2
         /\ p \notin TopTasks /\ <<p[1]>> \in TopTasks /\ Parent(p) = <<p[1]>>
         /\ p[2] \in 1..(IF Indices = 0 THEN Subwidth ELSE Indices)
<1>1. PICK i \in 1..Width, j \in 1..(IF Indices = 0 THEN Subwidth ELSE Indices) : p = <<i, j>>
  BY DEF SubTasks
<1>2. p[1] = i /\ p[2] = j /\ Len(p) = 2 /\ i \in Nat /\ j \in Nat
  BY <1>1, BoundsAssumption
<1>3. <<i>> \in TopTasks
  BY DEF TopTasks
<1> QED BY <1>1, <1>2, <1>3, TasksApart DEF Tasks, Parent

\* The program comes to p before q when it does to the top-level tasks that they
\* belong to, or when they are subtasks of the same, in that order.
LEMMA BeforeIs ==
  ASSUME NEW p \in Tasks, NEW q \in Tasks
  PROVE  Order!Before(p, q) <=> \/ p[1] < q[1]
                                \/ p \in SubTasks /\ q \in SubTasks /\ p[1] = q[1] /\ p[2] < q[2]
<1>1. CASE p \in TopTasks
  <2>1. Len(p) = 1 /\ p \notin SubTasks /\ p[1] \in Nat
    BY <1>1, TopShape
  <2>2. Len(q) \in {1, 2} /\ q[1] \in Nat
    BY TopShape, SubShape DEF Tasks
  <2>3. 1..Len(p) = {1} /\ 1..(1 - 1) = {} /\ 1 <= Len(q)
    BY <2>1, <2>2
  <2>4. Order!Before(p, q) <=> p[1] < q[1]
    BY <2>3 DEF Order!Before
  <2> QED BY <2>1, <2>4
<1>2. CASE p \in SubTasks /\ q \in TopTasks
  <2>1. Len(p) = 2 /\ Len(q) = 1 /\ q \notin SubTasks
    BY <1>2, TopShape, SubShape
  <2>2. 1..Len(p) = {1, 2} /\ 1..(1 - 1) = {} /\ 1 <= Len(q) /\ ~(2 <= Len(q))
    BY <2>1
  <2>3. Order!Before(p, q) <=> p[1] < q[1]
    BY <2>2 DEF Order!Before
  <2> QED BY <2>1, <2>3
<1>3. CASE p \in SubTasks /\ q \in SubTasks
  <2>1. Len(p) = 2 /\ Len(q) = 2
    BY <1>3, SubShape
  <2>2. 1..Len(p) = {1, 2} /\ 1..(1 - 1) = {} /\ 1..(2 - 1) = {1} /\ 1 <= Len(q) /\ 2 <= Len(q)
    BY <2>1
  <2>3. Order!Before(p, q) <=> p[1] < q[1] \/ (p[2] < q[2] /\ p[1] = q[1])
    BY <2>2 DEF Order!Before
  <2> QED BY <1>3, <2>3
<1> QED BY <1>1, <1>2, <1>3 DEF Tasks

\* Tasks are of the top level or subtasks, and numbered.
LEMMA TaskKinds ==
  ASSUME NEW p \in Tasks
  PROVE  /\ p \in Users /\ p \in Threads /\ p # Main /\ p[1] \in Nat
         /\ p \in TopTasks <=> p \notin SubTasks
         /\ p \in SubTasks => p[2] \in Nat
         /\ Parent(p) = Main <=> p \in TopTasks
         /\ \A v \in Tasks : Parent(p) = v <=> p \in SubTasks /\ v \in TopTasks /\ p[1] = v[1]
<1>1. p \in Users /\ p \in Threads
  BY UsersRun
<1>2. CASE p \in TopTasks
  <2>1. \A v \in Tasks : Parent(p) # v
    BY <1>2, TopShape, TasksApart DEF Tasks
  <2> QED BY <1>1, <1>2, <2>1, TopShape, TasksApart
<1>3. CASE p \in SubTasks
  <2>1. p \notin TopTasks /\ p[1] \in Nat /\ p[2] \in Nat /\ <<p[1]>> \in TopTasks /\ Parent(p) = <<p[1]>>
    BY <1>3, SubShape
  <2>2. <<p[1]>> # Main /\ p # Main
    BY <1>3, <2>1, TasksApart
  <2>3. ASSUME NEW v \in Tasks PROVE <<p[1]>> = v <=> v \in TopTasks /\ p[1] = v[1]
    <3>1. <<p[1]>>[1] = p[1]
      OBVIOUS
    <3>2. v \in TopTasks => v = <<v[1]>>
      BY TopShape
    <3> QED BY <2>1, <3>1, <3>2
  <2> QED BY <1>1, <1>3, <2>1, <2>2, <2>3
<1> QED BY <1>2, <1>3 DEF Tasks

\* What comes before another does not come after it.
LEMMA BeforeOnce ==
  ASSUME NEW p \in Tasks, NEW q \in Tasks, Order!Before(p, q)
  PROVE  ~Order!Before(q, p) /\ p # q
<1>1. p[1] \in Nat /\ q[1] \in Nat /\ (p \in SubTasks => p[2] \in Nat) /\ (q \in SubTasks => q[2] \in Nat)
  BY TaskKinds
<1> QED BY <1>1, BeforeIs

-----------------------------------------------------------------------------
(* What is over when a flow is ready                                        *)

\* Whatever is owed to a flow, counted or not, keeps it from being ready.
LEMMA OwedNotReady ==
  ASSUME Inv, NEW x \in Owed, x[1] \in FlowUnits
  PROVE  x[2] \in Flows /\ count[x[2]] > 0
<1>0. TypesOK /\ Anchors /\ Counted
  BY DEF Inv
<1>1. x \in Tokens /\ x[2] \in Flows
  BY <1>0, OwedTokens, TokenKinds
<1>2. PICK f : f = x[2]
  OBVIOUS
<1>3. \E y : y \in FlowShare(Outstanding, f)
  <2>1. CASE x \notin ToCome
    BY <1>2, <2>1 DEF FlowShare, Outstanding
  <2>2. CASE x \in ToCome
    <3>1. PICK th \in Threads : \E k \in DOMAIN agenda[th] :
            /\ agenda[th][k].do = "increment" /\ x = <<agenda[th][k].unit, agenda[th][k].counter>>
            /\ Anchored(th, k, x)
      BY <1>0, <2>2, Coming
    <3>2. PICK k \in DOMAIN agenda[th] :
            /\ agenda[th][k].do = "increment" /\ x = <<agenda[th][k].unit, agenda[th][k].counter>>
      BY <3>1
    <3>3. agenda[th][k].counter = f /\ agenda[th][k].unit = x[1]
      BY <1>2, <3>2
    <3>4. Taking(th, k, x[1], f)
      BY <3>2, <3>3 DEF Taking
    <3>5. Backed(th, k, f)
      BY <1>0, <1>1, <1>2, <3>4 DEF Anchors
    <3>6. PICK y \in Tokens : y \notin ToCome /\ y[1] \in FlowUnits /\ y[2] = f /\ Anchored(th, k, y)
      BY <3>5 DEF Backed
    <3>7. y \in Owed
      BY <1>0, <3>6, AnchoredOwed
    <3> QED BY <3>6, <3>7 DEF FlowShare, Outstanding
  <2> QED BY <2>1, <2>2
<1>4. IsFiniteSet(FlowShare(Outstanding, f))
  BY <1>0, OutstandingTyped, SharesFinite
<1>5. Cardinality(FlowShare(Outstanding, f)) \in Nat /\ Cardinality(FlowShare(Outstanding, f)) # 0
  BY <1>3, <1>4, FS_CardinalityType, FS_EmptySet
<1>6. count[f] = Cardinality(FlowShare(Outstanding, f))
  BY <1>0, <1>1, <1>2 DEF Counted
<1> QED BY <1>1, <1>2, <1>5, <1>6

\* So do a use's flows while its task has not released it.
LEMMA UseNotReady ==
  ASSUME Inv, NEW c \in Users, status[c] \in {"pending", "ready", "running"}
  PROVE  /\ use[c].out # None => count[use[c].out] > 0
         /\ use[c].anti_out # None => count[use[c].anti_out] > 0
         /\ use[c].anti_in # None /\ ~use[c].anti_dependency => count[use[c].anti_in] > 0
<1>1. PICK u : u = use[c]
  OBVIOUS
<1>2. u \in Uses /\ u.id \in UseIds
  BY <1>1 DEF Inv, TypesOK, Uses
<1>3. OwedByUse(u) \subseteq Owed
  BY <1>1, OwedAnywhere DEF Inv, UseOwes
<1>4. ASSUME NEW r \in {"anti_in", "out", "anti_out"}, u[r] # None, r = "anti_in" => ~u.anti_dependency
      PROVE  count[u[r]] > 0
  <2>1. <<<<u.id, r>>, u[r]>> \in OwedByUse(u)
    BY <1>4 DEF OwedByUse
  <2>2. <<u.id, r>> \in FlowUnits
    BY <1>2 DEF FlowUnits
  <2>3. PICK x : x = <<<<u.id, r>>, u[r]>>
    OBVIOUS
  <2>4. x \in Owed /\ x[1] \in FlowUnits /\ x[2] = u[r]
    BY <1>3, <2>1, <2>2, <2>3
  <2> QED BY <2>4, OwedNotReady
<1>5. /\ u["out"] = u.out /\ u["anti_out"] = u.anti_out /\ u["anti_in"] = u.anti_in
  OBVIOUS
<1> QED BY <1>1, <1>4, <1>5

\* What is awaited is owed.
LEMMA AwaitedOwed ==
  ASSUME TypesOK, NEW x, NEW g \in Flows, Awaits(x, g) PROVE x \in Owed
<1>1. CASE \E k \in DOMAIN actions[g] : x \in OwedByOp(actions[g][k])
  <2>1. x \in OwedByOps(actions[g])
    BY <1>1 DEF OwedByOps
  <2> QED BY <2>1, OwedAnywhere
<1>2. CASE ~(\E k \in DOMAIN actions[g] : x \in OwedByOp(actions[g][k]))
  <2>1. PICK th \in Threads : \E k \in DOMAIN agenda[th] : x \in OwedByOp(agenda[th][k])
    BY <1>2 DEF Awaits
  <2>2. x \in OwedByOps(agenda[th])
    BY <2>1 DEF OwedByOps
  <2> QED BY <2>2, OwedAnywhere
<1> QED BY <1>1, <1>2

\* A flow is not ready before what it waits for is.
LEMMA PromiseHolds ==
  ASSUME Inv, NEW unit \in FlowUnits, NEW f \in Flows, NEW g, Promise(<<unit, f>>, g), count[f] = 0
  PROVE  count[g] = 0
<1>1. g \in Flows /\ count[g] \in Nat
  BY DEF Promise, Inv, TypesOK
<1>2. SUFFICES ASSUME count[g] > 0 PROVE FALSE
  BY <1>1
<1>3. Awaits(<<unit, f>>, g)
  BY <1>2 DEF Promise
<1>4. PICK x : x = <<unit, f>>
  OBVIOUS
<1>5. x \in Owed /\ x[1] \in FlowUnits /\ x[2] = f
  BY <1>1, <1>3, <1>4, AwaitedOwed DEF Inv
<1> QED BY <1>5, OwedNotReady

\* The units and flows of a task.
LEMMA UnitNames ==
  ASSUME NEW t \in Tasks
  PROVE  /\ <<t, "captured">> \in UseIds
         /\ Out(t) \in Flows /\ AntiOut(t) \in Flows /\ Out(t) # None /\ AntiOut(t) # None
         /\ UnitOf(t, "anti_in") \in Flows /\ UnitOf(t, "in") \in Flows
         /\ UnitOf(t, "link_out") \in FlowUnits /\ UnitOf(t, "link_anti_out") \in FlowUnits
         /\ UnitOf(t, "anti_in") \in FlowUnits
         /\ UnitOf(t, "wait_in") \in WaitUnits /\ UnitOf(t, "wait_anti_in") \in WaitUnits
         /\ Out(t)[1][1] = t /\ AntiOut(t)[1][1] = t
         /\ \A s \in Tasks : (Out(s) = Out(t) => s = t) /\ (AntiOut(s) = AntiOut(t) => s = t)
<1>1. t \in Users /\ <<t, "captured">> \in UseIds
  BY UsersRun, IdsOfUser
<1>2. \A role \in Roles : <<<<t, "captured">>, role>> \in Flows /\ <<<<t, "captured">>, role>> # None
  <2>1. <<t, "captured">> # <<Main, "continuing">>
    OBVIOUS
  <2> QED BY <1>1, <2>1 DEF Flows, None
<1>3. Out(t) \in Flows /\ AntiOut(t) \in Flows /\ Out(t) # None /\ AntiOut(t) # None
      /\ UnitOf(t, "anti_in") \in Flows /\ UnitOf(t, "in") \in Flows
  BY <1>2 DEF Out, AntiOut, UnitOf, Roles
<1>4. /\ UnitOf(t, "link_out") \in FlowUnits /\ UnitOf(t, "link_anti_out") \in FlowUnits
      /\ UnitOf(t, "anti_in") \in FlowUnits
  BY <1>1 DEF UnitOf, FlowUnits
<1>5. UnitOf(t, "wait_in") \in WaitUnits /\ UnitOf(t, "wait_anti_in") \in WaitUnits
  BY <1>1 DEF UnitOf, WaitUnits
<1>6. \A s : Out(s)[1][1] = s /\ AntiOut(s)[1][1] = s
  BY DEF Out, AntiOut
<1> QED BY <1>1, <1>3, <1>4, <1>5, <1>6

\* A task that is present and not done has not released its use.
LEMMA LiveOrDone ==
  ASSUME TypesOK, NEW c \in Users, Present(c), status[c] # "done"
  PROVE  status[c] \in {"pending", "ready", "running"}
<1>1. status[c] \in {"unregistered", "pending", "ready", "running", "done"}
  BY DEF TypesOK
<1> QED BY <1>1 DEF Present

\* When the anti-out flow of a reader is ready, the reader is done.
LEMMA ReaderOver ==
  ASSUME Inv, NEW p \in Tasks, Present(p), count[use[p].anti_out] = 0
  PROVE  status[p] = "done"
<1>1. p \in Users /\ TypesOK
  BY TaskKinds DEF Inv
<1>2. use[p].anti_out # None
  BY <1>1 DEF Inv, UsesOK, GoodUse, Present
<1> QED BY <1>1, <1>2, LiveOrDone, UseNotReady

\* When a flow that a writer makes is ready, the writer is done.
LEMMA WriterOver ==
  ASSUME Inv, WritersHold, NEW v \in Tasks, Present(v), kind[v] = "write",
         count[Out(v)] = 0 \/ count[AntiOut(v)] = 0
  PROVE  status[v] = "done"
<1>1. v \in Users /\ TypesOK /\ Out(v) # None /\ AntiOut(v) # None
  BY TaskKinds, UnitNames DEF Inv
<1>2. /\ use[v].out = Out(v)
      /\ IF use[v].anti_dependency THEN use[v].anti_out = AntiOut(v) ELSE use[v].anti_in = AntiOut(v)
  BY DEF WritersHold
<1>3. SUFFICES ASSUME status[v] \in {"pending", "ready", "running"} PROVE FALSE
  BY <1>1, LiveOrDone
<1>4. count[Out(v)] > 0 /\ count[AntiOut(v)] > 0
  <2>1. count[Out(v)] > 0
    BY <1>1, <1>2, <1>3, UseNotReady
  <2>2. CASE use[v].anti_dependency
    BY <1>1, <1>2, <1>3, <2>1, <2>2, UseNotReady
  <2>3. CASE ~use[v].anti_dependency
    BY <1>1, <1>2, <1>3, <2>1, <2>3, UseNotReady
  <2> QED BY <2>2, <2>3
<1> QED BY <1>4

\* A collection that is being registered holds up its flows.
LEMMA RegisterNotReady ==
  ASSUME Inv, RegistersHome, NEW op \in Registers(agenda[Main])
  PROVE  /\ op.task \in Tasks /\ count[Out(op.task)] > 0 /\ count[AntiOut(op.task)] > 0
<1>1. Main \in Threads /\ agenda[Main] \in Seq(Ops)
  BY UsersRun DEF Inv, TypesOK
<1>2. PICK k \in DOMAIN agenda[Main] : op = agenda[Main][k] /\ op.do = "register"
  BY DEF Registers
<1>3. op \in Ops
  BY <1>1, <1>2
<1>4. GoodRegister(op)
  BY <1>1 DEF Inv, RegistersOK
<1>5. PICK u, t : u = op.use /\ t = op.task
  OBVIOUS
<1>6. /\ t \in TopTasks /\ t \in Tasks /\ u \in Uses /\ u.id = <<t, "captured">>
      /\ u.out = <<u.id, "out">> /\ u.out # None /\ u.anti_out = AntiOut(t)
  <2>1. u \in Uses
    BY <1>2, <1>3, <1>5, OpKinds
  <2> QED BY <1>1, <1>4, <1>5, <2>1 DEF GoodRegister, RegistersHome, Tasks
<1>7. u.out = Out(t) /\ AntiOut(t) # None
  BY <1>6, UnitNames DEF Out
<1>8. OwedByUse(u) \subseteq Owed
  <2>1. OwedByOp(op) = OwedByUse(u)
    BY <1>2, <1>5 DEF OwedByOp
  <2>2. OwedByOp(op) \subseteq OwedByOps(agenda[Main])
    BY <1>2 DEF OwedByOps
  <2> QED BY <1>1, <2>1, <2>2, OwedAnywhere
<1>9. ASSUME NEW r \in {"out", "anti_out"}, u[r] # None PROVE count[u[r]] > 0
  <2>1. <<<<u.id, r>>, u[r]>> \in OwedByUse(u)
    BY <1>9 DEF OwedByUse
  <2>2. <<u.id, r>> \in FlowUnits
    BY <1>6 DEF FlowUnits, Uses
  <2>3. PICK x : x = <<<<u.id, r>>, u[r]>>
    OBVIOUS
  <2>4. x \in Owed /\ x[1] \in FlowUnits /\ x[2] = u[r]
    BY <1>8, <2>1, <2>2, <2>3
  <2> QED BY <2>4, OwedNotReady
<1>10. count[u.out] > 0 /\ count[u.anti_out] > 0
  <2>1. u["out"] = u.out /\ u["anti_out"] = u.anti_out
    OBVIOUS
  <2> QED BY <1>6, <1>7, <1>9, <2>1
<1> QED BY <1>5, <1>6, <1>7, <1>10

\* When a flow of a collection is ready, all its indices are done.
LEMMA CollectionOver ==
  ASSUME Inv, RegistersHome, IndicesCome, Families, IndexUses, NEW v \in Tasks, IsCollection(v),
         count[Out(v)] = 0 \/ count[AntiOut(v)] = 0, NEW q \in SubTasks, q[1] = v[1]
  PROVE  Present(q) /\ status[q] = "done"
<1>1. v \in TopTasks /\ Indices > 0 /\ <<q[1]>> = v
  BY TopShape DEF IsCollection
<1>2. Present(q)
  <2>1. SUFFICES ASSUME ~Present(q) PROVE FALSE
    OBVIOUS
  <2>2. PICK op \in Registers(agenda[Main]) : op.task = v
    BY <1>1, <2>1 DEF IndicesCome
  <2> QED BY <2>2, RegisterNotReady
<1>3. q \in Tasks /\ q \in Users /\ kind[q] = "index"
  BY <1>1, <1>2, SubShape, TaskKinds DEF Families
<1>4. /\ use[q].out = Out(q) /\ use[q].anti_out = AntiOut(q)
      /\ Promise(<<UnitOf(q, "link_out"), Out(v)>>, Out(q))
      /\ Promise(<<UnitOf(q, "link_anti_out"), AntiOut(v)>>, AntiOut(q))
  BY <1>1, <1>2, <1>3 DEF IndexUses
<1>5. count[Out(q)] = 0 \/ count[AntiOut(q)] = 0
  <2>1. Out(v) \in Flows /\ AntiOut(v) \in Flows
    BY UnitNames
  <2>2. UnitOf(q, "link_out") \in FlowUnits /\ UnitOf(q, "link_anti_out") \in FlowUnits
    BY <1>3, UnitNames
  <2>3. CASE count[Out(v)] = 0
    BY <1>4, <2>1, <2>2, <2>3, PromiseHolds
  <2>4. CASE count[AntiOut(v)] = 0
    BY <1>4, <2>1, <2>2, <2>4, PromiseHolds
  <2> QED BY <2>3, <2>4
<1>6. Out(q) # None /\ AntiOut(q) # None
  BY <1>3, UnitNames
<1>7. SUFFICES ASSUME status[q] \in {"pending", "ready", "running"} PROVE FALSE
  BY <1>2, <1>3, LiveOrDone DEF Inv
<1>8. count[Out(q)] > 0 /\ count[AntiOut(q)] > 0
  BY <1>3, <1>4, <1>6, <1>7, UseNotReady
<1> QED BY <1>5, <1>8

\* Where all flows of the writer v lead to, once one of them is ready.
LEMMA PastOver ==
  ASSUME Inv, OrderInv, NEW v \in Tasks, Writer(v), count[Out(v)] = 0 \/ count[AntiOut(v)] = 0,
         NEW p \in Tasks, Present(p), Past(p, v)
  PROVE  status[p] = "done"
<1>0. /\ RegistersHome /\ IndicesCome /\ Families /\ WritersHold /\ IndexUses /\ ReadyInOrder
  BY DEF OrderInv
<1>1. CASE Present(v) /\ kind[v] = "write"
  <2>1. status[v] = "done"
    BY <1>0, <1>1, WriterOver
  <2>2. CASE p = v
    BY <2>1, <2>2
  <2>3. CASE Order!Before(p, v)
    <3>1. Order!Conflict(p, v)
      BY <1>1 DEF Order!Conflict
    <3> QED BY <1>0, <2>1, <2>3, <3>1 DEF ReadyInOrder
  <2> QED BY <2>2, <2>3 DEF Past
<1>2. CASE IsCollection(v)
  <2>1. \A q \in SubTasks : q[1] = v[1] => Present(q) /\ status[q] = "done"
    BY <1>0, <1>2, CollectionOver
  <2>2. Order!Before(p, v) /\ v \in TopTasks /\ Indices > 0 /\ Indices \in Nat
    BY <1>2, BoundsAssumption DEF Past, IsCollection
  <2>3. p[1] < v[1] /\ v = <<v[1]>> /\ v[1] \in 1..Width
    <3>1. v \notin SubTasks /\ v = <<v[1]>> /\ v[1] \in 1..Width
      BY <2>2, TasksApart
    <3> QED BY <2>2, <3>1, BeforeIs
  <2>4. PICK j \in 1..Indices : p \in SubTasks => j = p[2]
    <3>1. CASE p \in SubTasks
      <4>1. p[2] \in 1..Indices
        <5>1. p[2] \in 1..(IF Indices = 0 THEN Subwidth ELSE Indices)
          BY <3>1, SubShape
        <5>2. Indices # 0
          BY <2>2
        <5> QED BY <5>1, <5>2
      <4> QED BY <4>1
    <3>2. CASE p \notin SubTasks
      <4>1. 1 \in 1..Indices
        BY <2>2
      <4> QED BY <3>2, <4>1
    <3> QED BY <3>1, <3>2
  <2>5. PICK q : q = <<v[1], j>>
    OBVIOUS
  <2>6. q \in SubTasks /\ q[1] = v[1] /\ q[2] = j /\ Len(q) = 2 /\ q \in Tasks
    <3>1. <<v[1], j>> \in SubTasks
      BY <2>2, <2>3, <2>4, TaskPaths
    <3>2. q[1] = v[1] /\ q[2] = j
      BY <2>5
    <3> QED BY <2>5, <3>1, <3>2, SubShape
  <2>7. Present(q) /\ status[q] = "done" /\ kind[q] = "index"
    <3>1. Present(q) /\ status[q] = "done"
      BY <2>1, <2>6
    <3>2. ~(Indices = 0)
      BY <2>2
    <3> QED BY <1>0, <2>6, <3>1, <3>2 DEF Families
  <2>8. Order!Before(p, q)
    BY <2>3, <2>6, BeforeIs
  <2>9. Order!Conflict(p, q)
    <3>1. CASE p \in SubTasks
      <4>1. Len(p) = 2 /\ p[2] = q[2]
        BY <2>4, <2>6, <3>1, SubShape
      <4> QED BY <2>6, <2>7, <4>1 DEF Order!Conflict
    <3>2. CASE p \notin SubTasks
      <4>1. kind[p] # "index"
        BY <1>0, <3>2 DEF Families, Tasks
      <4> QED BY <2>7, <4>1 DEF Order!Conflict
    <3> QED BY <3>1, <3>2
  <2> QED BY <1>0, <2>6, <2>7, <2>8, <2>9 DEF ReadyInOrder
<1> QED BY <1>1, <1>2 DEF Writer

\* A reader or a writer that an anti-flow is not ready before.
LEMMA AntiOver ==
  ASSUME Inv, OrderInv, NEW f, count[f] = 0, NEW p \in Tasks, Present(p), AntiPast(f, p)
  PROVE  status[p] = "done"
<1>1. CASE use[p].anti_out = f
  BY <1>1, ReaderOver
<1>2. ASSUME NEW v \in Tasks, Writer(v), f = AntiOut(v), Past(p, v) PROVE status[p] = "done"
  BY <1>2, PastOver
<1> QED BY <1>1, <1>2 DEF AntiPast

\* What was written through a writer is over when its flow is ready.
LEMMA ChildrenOver ==
  ASSUME Inv, OrderInv, NEW v \in Tasks, Writer(v), NEW p \in Tasks, Present(p), Parent(p) = v,
         \/ count[AntiOut(v)] = 0
         \/ count[Out(v)] = 0 /\ kind[p] # "read"
  PROVE  status[p] = "done"
<1>0. /\ RegistersHome /\ IndicesCome /\ Families /\ WritersHold /\ IndexUses /\ ScopesCover /\ AliasesKept
  BY DEF OrderInv
<1>1. p \in SubTasks /\ v \in TopTasks /\ p[1] = v[1] /\ v \in Users /\ v = <<p[1]>>
  BY TaskKinds, TopShape
<1>2. CASE IsCollection(v)
  BY <1>0, <1>1, <1>2, CollectionOver
<1>3. CASE Present(v) /\ kind[v] = "write"
  <2>1. status[v] = "done"
    BY <1>0, <1>3, WriterOver
  <2>2. PICK u : u = use[v]
    OBVIOUS
  <2>3. u.out = Out(v) /\ u.anti_in = AntiOut(v) /\ u.establishes_alias /\ u \in Uses
    <3>1. ~use[v].anti_dependency
      BY <1>0, <1>1, <1>3 DEF WritersHold
    <3> QED BY <1>0, <1>1, <1>3, <2>2, <3>1 DEF WritersHold, Inv, TypesOK
  <2>4. /\ Promise(<<<<u.id, "alias_out">>, Out(v)>>, u.in)
        /\ Promise(<<<<u.id, "alias_anti_in">>, AntiOut(v)>>, u.anti_out)
    BY <1>0, <1>3, <2>1, <2>2, <2>3 DEF AliasesKept
  <2>5. <<u.id, "alias_out">> \in FlowUnits /\ <<u.id, "alias_anti_in">> \in FlowUnits
        /\ Out(v) \in Flows /\ AntiOut(v) \in Flows
    BY <2>3, UnitNames DEF FlowUnits, Uses
  <2>6. Captured(p) /\ Present(v) /\ Writes(v)
    BY <1>3, TaskKinds DEF Captured, Writes
  <2>7. (Writer(p) => InPast(u.in, p)) /\ AntiPast(u.anti_out, p)
    BY <1>0, <1>1, <2>2, <2>6 DEF ScopesCover
  <2>8. CASE count[AntiOut(v)] = 0
    <3>1. count[u.anti_out] = 0
      BY <2>4, <2>5, <2>8, PromiseHolds
    <3> QED BY <2>7, <3>1, AntiOver
  <2>9. CASE count[Out(v)] = 0 /\ kind[p] # "read"
    <3>1. count[u.in] = 0
      BY <2>4, <2>5, <2>9, PromiseHolds
    <3>2. kind[p] = "write"
      <4>1. kind[p] \in {"read", "write", "index"}
        BY DEF Inv, TypesOK
      <4>2. Indices = 0
        BY <1>0, <1>1, <1>3 DEF Families, IsCollection
      <4> QED BY <1>0, <1>1, <2>9, <4>1, <4>2 DEF Families
    <3>3. PICK w \in Tasks : Writer(w) /\ u.in = Out(w) /\ Past(p, w)
      BY <2>7, <3>2 DEF Writer, InPast
    <3> QED BY <3>1, <3>3, PastOver
  <2> QED BY <2>8, <2>9
<1> QED BY <1>2, <1>3 DEF Writer

\* A top-level task and what it captured are done, as far as they conflict, when the
\* flow that led to it is ready.
LEMMA FamilyOver ==
  ASSUME Inv, OrderInv, NEW a \in Tasks, NEW p \in Tasks, Present(p),
         p = a \/ Parent(p) = a, NEW f, count[f] = 0,
         \/ AntiPast(f, a)
         \/ InPast(f, a) /\ kind[p] # "read"
  PROVE  status[p] = "done"
<1>1. CASE Present(a) /\ kind[a] = "read" /\ use[a].anti_out = f
  <2>1. p = a
    <3>1. SUFFICES ASSUME Parent(p) = a PROVE FALSE
      OBVIOUS
    <3>2. p \in SubTasks /\ a = <<p[1]>>
      BY <3>1, TaskKinds, TopShape
    <3>3. kind[a] = "write" \/ IsCollection(a)
      BY <3>2 DEF OrderInv, Families
    <3> QED BY <1>1, <3>3 DEF IsCollection
  <2> QED BY <1>1, <2>1, ReaderOver
<1>2. ASSUME NEW v \in Tasks, Writer(v), Past(a, v), \/ f = AntiOut(v)
                                                     \/ f = Out(v) /\ kind[p] # "read"
      PROVE  status[p] = "done"
  <2>1. CASE p = a
    BY <1>2, <2>1, PastOver
  <2>2. CASE Parent(p) = a /\ a = v
    BY <1>2, <2>2, ChildrenOver
  <2>3. CASE Parent(p) = a /\ Order!Before(a, v)
    <3>1. p \in SubTasks /\ a \in TopTasks /\ p[1] = a[1] /\ a \notin SubTasks
      BY <2>3, TaskKinds
    <3>2. a[1] < v[1]
      BY <2>3, <3>1, BeforeIs
    <3>3. Order!Before(p, v)
      BY <3>1, <3>2, BeforeIs
    <3> QED BY <1>2, <3>3, PastOver DEF Past
  <2> QED BY <1>2, <2>1, <2>2, <2>3 DEF Past
<1> QED BY <1>1, <1>2 DEF AntiPast, InPast

\* The top-level task that p belongs to, which a subtask finds captured.
LEMMA Ancestor ==
  ASSUME TypesOK, Families, NEW p \in Tasks, Present(p)
  PROVE  \E a \in TopTasks :
           /\ Captured(a) /\ a[1] = p[1] /\ (p = a \/ Parent(p) = a)
           /\ kind[p] = "read" \/ Writer(a)
           /\ p \in SubTasks => Writer(a)
<1>1. CASE p \in TopTasks
  <2>1. kind[p] # "index" /\ p \notin SubTasks
    BY <1>1, TaskKinds DEF Families
  <2>3. kind[p] = "read" \/ kind[p] = "write"
    BY <2>1 DEF TypesOK
  <2> QED BY <1>1, <2>1, <2>3 DEF Captured, Writer
<1>2. CASE p \in SubTasks
  <2>1. PICK a : a = <<p[1]>>
    OBVIOUS
  <2>2. a \in TopTasks /\ Parent(p) = a /\ a[1] = p[1]
    BY <1>2, <2>1, SubShape
  <2>3. Writer(a)
    BY <1>2, <2>1 DEF Families, Writer, Present
  <2>4. Captured(a)
    BY <2>3 DEF Captured, Writer
  <2> QED BY <2>2, <2>3, <2>4
<1> QED BY <1>1, <1>2 DEF Tasks

\* When all that a task waits for is ready, everything before it that it conflicts
\* with is done.
LEMMA TaskReady ==
  ASSUME Inv, OrderInv, NEW t \in Tasks, status[t] = "pending", count[use[t].in] = 0,
         use[t].anti_dependency => count[use[t].anti_in] = 0,
         NEW p \in Tasks, Present(p), Order!Before(p, t), Order!Conflict(p, t)
  PROVE  status[p] = "done"
<1>0. Families /\ IndexUses /\ WaitsCover /\ ReadyInOrder
  BY DEF OrderInv
<1>k. kind[t] \in {"read", "write", "index"} /\ kind[p] \in {"read", "write", "index"} /\ TypesOK
  BY DEF Inv, TypesOK
<1>t. Present(t) /\ t \in Users
  BY TaskKinds DEF Present
<1>a. PICK a \in TopTasks :
           /\ Captured(a) /\ a[1] = p[1] /\ (p = a \/ Parent(p) = a)
           /\ kind[p] = "read" \/ Writer(a)
  BY <1>0, <1>k, Ancestor
<1>b. a \in Tasks /\ a \notin SubTasks
  BY TaskKinds DEF Tasks
<1>c. kind[p] # "read" \/ kind[t] # "read"
  BY DEF Order!Conflict
<1>1. CASE t \in TopTasks
  <2>1. kind[t] # "index" /\ t \notin SubTasks
    BY <1>0, <1>1, <1>t, TaskKinds DEF Families
  <2>2. p[1] < t[1]
    BY <2>1, BeforeIs
  <2>3. Order!Before(a, t) /\ Parent(a) = Parent(t)
    <3>1. a[1] < t[1]
      BY <1>a, <2>2
    <3> QED BY <1>1, <1>b, <3>1, BeforeIs, TaskKinds
  <2>4. CASE kind[t] = "read"
    <3>1. kind[p] # "read" /\ Writer(a)
      BY <1>a, <1>c, <2>4
    <3>2. InPast(use[t].in, a)
      BY <1>0, <1>a, <1>b, <2>3, <2>4, <3>1 DEF WaitsCover
    <3> QED BY <1>a, <1>b, <3>1, <3>2, FamilyOver
  <2>5. CASE kind[t] = "write"
    <3>1. AntiPast(use[t].anti_in, a) /\ use[t].anti_dependency
      BY <1>0, <1>a, <1>b, <2>3, <2>5 DEF WaitsCover
    <3> QED BY <1>a, <1>b, <3>1, FamilyOver
  <2> QED BY <1>k, <2>1, <2>4, <2>5
<1>2. CASE t \in SubTasks /\ kind[t] # "index"
  <2>1. Indices = 0
    BY <1>0, <1>2, <1>t DEF Families
  <2>2. PICK c : c = <<t[1]>>
    OBVIOUS
  <2>3. c \in TopTasks /\ c \in Tasks /\ c[1] = t[1] /\ c \notin SubTasks /\ Parent(t) = c
    BY <1>2, <2>2, SubShape, TopShape
  <2>4. kind[c] = "write" /\ status[c] \in {"running", "done"}
    BY <1>0, <1>2, <1>t, <2>1, <2>2 DEF Families
  <2>5. CASE p[1] < t[1]
    <3>1. Order!Before(p, c)
      BY <2>3, <2>5, BeforeIs
    <3>2. Order!Conflict(p, c)
      BY <2>4 DEF Order!Conflict
    <3> QED BY <1>0, <2>3, <2>4, <3>1, <3>2 DEF ReadyInOrder
  <2>6. CASE p \in SubTasks /\ p[1] = t[1]
    <3>1. Parent(p) = Parent(t) /\ Captured(p)
      BY <2>2, <2>3, <2>6, SubShape DEF Captured
    <3>2. CASE kind[t] = "read"
      <4>1. kind[p] = "write"
        BY <1>0, <1>c, <1>k, <2>1, <2>6, <3>2 DEF Families
      <4>2. Writer(p)
        BY <4>1 DEF Writer
      <4>3. InPast(use[t].in, p)
        BY <1>0, <3>1, <3>2, <4>2 DEF WaitsCover
      <4> QED BY <4>1, <4>3, FamilyOver
    <3>3. CASE kind[t] = "write"
      <4>1. AntiPast(use[t].anti_in, p) /\ use[t].anti_dependency
        BY <1>0, <3>1, <3>3 DEF WaitsCover
      <4> QED BY <4>1, FamilyOver
    <3> QED BY <1>2, <1>k, <3>2, <3>3
  <2> QED BY <2>5, <2>6, BeforeIs
<1>3. CASE t \in SubTasks /\ kind[t] = "index"
  <2>1. ~(Indices = 0)
    BY <1>0, <1>3, <1>t DEF Families
  <2>2. /\ use[t].anti_dependency /\ use[t].anti_in = UnitOf(t, "anti_in")
        /\ \E g \in Flows :
             /\ Promise(<<UnitOf(t, "anti_in"), use[t].anti_in>>, g)
             /\ \A q \in TopTasks : Captured(q) /\ q[1] < t[1] => AntiPast(g, q)
    BY <1>0, <1>3, <1>t DEF IndexUses
  <2>3. PICK g \in Flows :
             /\ Promise(<<UnitOf(t, "anti_in"), use[t].anti_in>>, g)
             /\ \A q \in TopTasks : Captured(q) /\ q[1] < t[1] => AntiPast(g, q)
    BY <2>2
  <2>4. count[g] = 0
    <3>1. UnitOf(t, "anti_in") \in FlowUnits /\ use[t].anti_in \in Flows /\ count[use[t].anti_in] = 0
      BY <2>2, UnitNames, ZenonT(60), SMTT(30)
    <3> QED BY <2>3, <3>1, PromiseHolds
  <2>5. CASE p[1] < t[1]
    <3>1. AntiPast(g, a)
      BY <1>a, <2>3, <2>5
    <3> QED BY <1>a, <1>b, <2>4, <3>1, FamilyOver
  <2>6. CASE p \in SubTasks /\ p[1] = t[1] /\ p[2] < t[2]
    <3>1. kind[p] = "index" /\ Len(p) = 2 /\ Len(t) = 2 /\ p[2] \in Nat /\ t[2] \in Nat
      BY <1>0, <1>3, <2>1, <2>6, SubShape DEF Families
    <3>2. p[2] = t[2]
      BY <1>3, <3>1 DEF Order!Conflict
    <3> QED BY <2>6, <3>1, <3>2
  <2> QED BY <2>5, <2>6, BeforeIs
<1> QED BY <1>1, <1>2, <1>3 DEF Tasks

-----------------------------------------------------------------------------
(* Promises, from step to step                                              *)

\* What a flow that is not ready is waited for with, thread a takes no part of away.
StillAwaited(a) ==
  \A g \in Flows : g[1][1] \in Known /\ count'[g] > 0 =>
    /\ count[g] > 0
    /\ OwedByOps(actions[g]) \subseteq OwedByOps(actions'[g])
    /\ agenda[a] # <<>> /\ Head(agenda[a]).do = "attach" /\ Head(agenda[a]).counter = g =>
         OwedByOp(Head(agenda[a])) \subseteq OwedByOps(actions'[g])

\* All promises are kept by a step.
PromisesStay == \A x, g : Promise(x, g) => Promise(x, g)'

\* An operation that is not done stays on its agenda,
LEMMA OpStays ==
  ASSUME TypesOK, NEW a \in Threads, NEW X \in Seq(Ops), AgendaStep(a, X),
         NEW th \in Threads, NEW k \in DOMAIN agenda[th], th # a \/ k # 1
  PROVE  \E j \in DOMAIN agenda'[th] : agenda'[th][j] = agenda[th][k]
<1>1. CASE th # a
  <2>1. agenda'[th] = agenda[th]
    BY <1>1, AgendaAfter
  <2> QED BY <2>1
<1>2. CASE th = a
  <2>0. agenda[a] \in Seq(Ops) /\ k \in DOMAIN agenda[a] /\ k # 1
    BY <1>2 DEF TypesOK
  <2>1. agenda[a] # <<>> /\ Len(agenda[a]) \in Nat /\ DOMAIN agenda[a] = 1..Len(agenda[a])
    BY <2>0
  <2>2. Rest(a) = Tail(agenda[a]) /\ Rest(a) \in Seq(Ops)
    BY <2>1, RestFacts DEF Rest
  <2>3. Len(Rest(a)) = Len(agenda[a]) - 1 /\ Rest(a)[k - 1] = agenda[a][k]
    BY <2>0, <2>1, <2>2
  <2>4. agenda'[a] = X \o Rest(a)
    BY AgendaAfter
  <2>5. PICK j : j = Len(X) + (k - 1)
    OBVIOUS
  <2>6. k - 1 \in 1..Len(Rest(a)) /\ Len(X) \in Nat
    BY <2>0, <2>1, <2>3
  <2>7. j \in 1..(Len(X) + Len(Rest(a))) /\ ~(j <= Len(X)) /\ j - Len(X) = k - 1
    BY <2>1, <2>3, <2>5, <2>6
  <2>8. j \in DOMAIN (X \o Rest(a)) /\ (X \o Rest(a))[j] = Rest(a)[k - 1]
    BY <2>2, <2>7, ConcatProperties, SMTT(60), ZenonT(60)
  <2> QED BY <1>2, <2>3, <2>4, <2>8
<1> QED BY <1>1, <1>2

\* and what is put in front is there.
LEMMA OpPut ==
  ASSUME TypesOK, NEW a \in Threads, NEW X \in Seq(Ops), AgendaStep(a, X), NEW k \in DOMAIN X
  PROVE  \E j \in DOMAIN agenda'[a] : agenda'[a][j] = X[k]
<1>1. agenda'[a] = X \o Rest(a) /\ Rest(a) \in Seq(Ops)
  BY AgendaAfter, RestFacts
<1>2. k \in 1..(Len(X) + Len(Rest(a))) /\ k <= Len(X)
  BY <1>1
<1>3. k \in DOMAIN (X \o Rest(a)) /\ (X \o Rest(a))[k] = X[k]
  BY <1>1, <1>2, ConcatProperties
<1> QED BY <1>1, <1>3

\* So promises are kept by the step of a thread,
LEMMA PromiseKept ==
  ASSUME TypesOK, NEW a \in Threads, NEW X \in Seq(Ops), AgendaStep(a, X), StillAwaited(a),
         Known \subseteq Known'
  PROVE  PromisesStay
<1>1. SUFFICES ASSUME NEW x, NEW g, Promise(x, g) PROVE Promise(x, g)'
  BY DEF PromisesStay
<1>2. g \in Flows /\ g[1][1] \in Known /\ g[1][1] \in Known'
  BY <1>1 DEF Promise
<1>3. SUFFICES ASSUME count'[g] > 0 PROVE Awaits(x, g)'
  BY <1>2 DEF Promise
<1>4. /\ count[g] > 0 /\ OwedByOps(actions[g]) \subseteq OwedByOps(actions'[g])
      /\ agenda[a] # <<>> /\ Head(agenda[a]).do = "attach" /\ Head(agenda[a]).counter = g =>
           OwedByOp(Head(agenda[a])) \subseteq OwedByOps(actions'[g])
  BY <1>2, <1>3 DEF StillAwaited
<1>5. Awaits(x, g)
  BY <1>1, <1>4 DEF Promise
<1>6. ASSUME x \in OwedByOps(actions'[g]) PROVE Awaits(x, g)'
  <2>1. \E k \in DOMAIN actions'[g] : x \in OwedByOp(actions'[g][k])
    BY <1>6 DEF OwedByOps
  <2> QED BY <2>1 DEF Awaits
<1>7. CASE \E k \in DOMAIN actions[g] : x \in OwedByOp(actions[g][k])
  <2>1. x \in OwedByOps(actions[g])
    BY <1>7 DEF OwedByOps
  <2> QED BY <1>4, <1>6, <2>1
<1>8. ASSUME NEW th \in Threads, NEW k \in DOMAIN agenda[th],
             agenda[th][k].do = "attach", agenda[th][k].counter = g, x \in OwedByOp(agenda[th][k])
      PROVE  Awaits(x, g)'
  <2>1. CASE th = a /\ k = 1
    <3>1. agenda[a] \in Seq(Ops) /\ k \in DOMAIN agenda[a]
      BY <1>8, <2>1 DEF TypesOK
    <3>2. agenda[a] # <<>> /\ Head(agenda[a]) = agenda[th][k]
      BY <2>1, <3>1
    <3> QED BY <1>4, <1>6, <1>8, <3>2
  <2>2. CASE th # a \/ k # 1
    <3>1. \E j \in DOMAIN agenda'[th] : agenda'[th][j] = agenda[th][k]
      BY <2>2, OpStays
    <3> QED BY <1>8, <3>1 DEF Awaits
  <2> QED BY <2>1, <2>2
<1> QED BY <1>5, <1>7, <1>8 DEF Awaits

\* or by one that leaves agendas and flows alone.
LEMMA PromiseSame ==
  ASSUME count' = count, actions' = actions, agenda' = agenda, Known \subseteq Known'
  PROVE  PromisesStay
BY DEF PromisesStay, Promise, Awaits

\* What an operation put on an agenda attaches is awaited.
LEMMA PromiseMade ==
  ASSUME TypesOK, NEW a \in Threads, NEW X \in Seq(Ops), AgendaStep(a, X), NEW k \in DOMAIN X,
         X[k].do = "attach", NEW g \in Flows, X[k].counter = g, g[1][1] \in Known',
         NEW x, x \in OwedByOp(X[k])
  PROVE  Promise(x, g)'
<1>1. \E j \in DOMAIN agenda'[a] : agenda'[a][j] = X[k]
  BY OpPut
<1>2. Awaits(x, g)'
  BY <1>1 DEF Awaits
<1> QED BY <1>2 DEF Promise

-----------------------------------------------------------------------------
(* Steps that capture nothing                                               *)

\* A step that captures nothing leaves who writes what through which flow as it is.
LEMMA SameOrder ==
  ASSUME TypesOK, NothingNew
  PROVE  /\ Known' = Known
         /\ \A c \in Users : Present(c)' <=> Present(c)
         /\ \A t \in Tasks : /\ IsCollection(t)' <=> IsCollection(t)
                             /\ Writer(t)' <=> Writer(t)
                             /\ Captured(t)' <=> Captured(t)
         /\ \A f : \A p \in Tasks : /\ InPast(f, p)' <=> InPast(f, p)
                                    /\ AntiPast(f, p)' <=> AntiPast(f, p)
         /\ \A p, q \in Tasks : Order!Conflict(p, q)' <=> Order!Conflict(p, q)
<1>1. Known' = Known
  BY KnownSame
<1>2. \A c \in Users : Present(c)' <=> Present(c)
  BY DEF Present, NothingNew
<1>3. \A t \in Tasks : Present(t)' <=> Present(t)
  BY <1>2, UsersRun
<1>4. \A t \in Tasks : IsCollection(t)' <=> IsCollection(t)
  BY <1>1, <1>3 DEF IsCollection
<1>5. \A t \in Tasks : Writer(t)' <=> Writer(t)
  BY <1>3, <1>4 DEF Writer, NothingNew
<1>6. \A t \in Tasks : Captured(t)' <=> Captured(t)
  BY <1>3, <1>4 DEF Captured
<1>7. ASSUME NEW f, NEW p \in Tasks
      PROVE  (InPast(f, p)' <=> InPast(f, p)) /\ (AntiPast(f, p)' <=> AntiPast(f, p))
  <2>1. \A v : Past(p, v)' <=> Past(p, v)
    BY DEF Past
  <2>2. InPast(f, p)' <=> InPast(f, p)
    BY <1>5, <2>1 DEF InPast
  <2>3. AntiPast(f, p)' <=> AntiPast(f, p)
    BY <1>3, <1>5, <2>1 DEF AntiPast, NothingNew
  <2> QED BY <2>2, <2>3
<1>8. \A p, q \in Tasks : Order!Conflict(p, q)' <=> Order!Conflict(p, q)
  BY DEF Order!Conflict, NothingNew
<1> QED BY <1>1, <1>2, <1>4, <1>5, <1>6, <1>7, <1>8

\* No task is made to wait again, and who runs goes on or is done.
Forward ==
  \A c \in Users : /\ status'[c] = "pending" => status[c] = "pending"
                   /\ status[c] = "running" => status'[c] \in {"running", "done"}

\* The collections to be registered stay, as long as they have indices left.
RegistersStay ==
  /\ \A th \in Threads : Registers(agenda'[th]) \subseteq Registers(agenda[th])
  /\ \A op \in Registers(agenda[Main]) : op.index <= Indices => op \in Registers(agenda'[Main])

\* Whoever is done now leaves its alias, and whoever is ready now found what is
\* before it done.
DoneAliased ==
  \A s \in Tasks : status'[s] = "done" /\ status[s] # "done" /\ use[s].establishes_alias =>
    /\ Promise(<<<<use[s].id, "alias_out">>, use[s].out>>, use[s].in)'
    /\ Promise(<<<<use[s].id, "alias_anti_in">>, use[s].anti_in>>, use[s].anti_out)'

\* Whoever is ready now found what is before it done.
NowInOrder ==
  \A p, t \in Tasks :
    /\ Order!Before(p, t) /\ Order!Conflict(p, t) /\ Present(p)
    /\ status'[t] \in {"ready", "running", "done"} /\ status[t] \notin {"ready", "running", "done"}
    => status[p] = "done"

\* A step that captures nothing and keeps all promises keeps tasks in order, when nobody
\* becomes ready too early.
LEMMA QuietOrder ==
  ASSUME Inv, OrderInv, NothingNew, PromisesStay, Forward, RegistersStay, DoneAliased, NowInOrder
  PROVE  OrderInv'
<1>0. /\ RegistersHome /\ IndicesCome /\ Families /\ WritersHold /\ IndexUses /\ ScopesCover
      /\ WaitsCover /\ AliasesKept /\ InKnown /\ ReadyInOrder
  BY DEF OrderInv
<1>t. TypesOK /\ use' = use /\ kind' = kind /\ captures' = captures
  BY DEF Inv, NothingNew
<1>s. /\ Known' = Known
      /\ \A c \in Users : Present(c)' <=> Present(c)
      /\ \A t \in Tasks : /\ t \in Users
                          /\ Present(t)' <=> Present(t)
                          /\ IsCollection(t)' <=> IsCollection(t)
                          /\ Writer(t)' <=> Writer(t)
                          /\ Captured(t)' <=> Captured(t)
      /\ \A f : \A p \in Tasks : /\ InPast(f, p)' <=> InPast(f, p)
                                 /\ AntiPast(f, p)' <=> AntiPast(f, p)
      /\ \A p, q \in Tasks : Order!Conflict(p, q)' <=> Order!Conflict(p, q)
  BY <1>t, SameOrder, UsersRun
<1>p. \A x, g : Promise(x, g) => Promise(x, g)'
  BY DEF PromisesStay
<1>k. TopTasks \subseteq Tasks /\ SubTasks \subseteq Tasks /\ Main \in Threads /\ Main \in Users
  BY UsersRun DEF Tasks
<1>1. RegistersHome'
  <2>1. SUFFICES ASSUME NEW th \in Threads, NEW op \in Registers(agenda'[th])
        PROVE  /\ th = Main /\ op.task = <<captures'[Main]>> /\ IsCollection(op.task)'
               /\ op.use.anti_out = AntiOut(op.task) /\ op.use.anti_in # None
               /\ \A p \in TopTasks : Captured(p)' /\ p[1] < op.task[1] => AntiPast(op.use.anti_in, p)'
    BY DEF RegistersHome
  <2>2. op \in Registers(agenda[th])
    BY DEF RegistersStay
  <2>3. /\ th = Main /\ op.task = <<captures[Main]>> /\ IsCollection(op.task)
        /\ op.use.anti_out = AntiOut(op.task) /\ op.use.anti_in # None
        /\ \A p \in TopTasks : Captured(p) /\ p[1] < op.task[1] => AntiPast(op.use.anti_in, p)
    BY <1>0, <2>2 DEF RegistersHome
  <2>4. op.task \in Tasks
    BY <1>k, <2>3 DEF IsCollection
  <2> QED BY <1>k, <1>s, <1>t, <2>3, <2>4
<1>2. IndicesCome'
  <2>1. SUFFICES ASSUME NEW q \in SubTasks, IsCollection(<<q[1]>>)', ~Present(q)'
        PROVE  \E op \in Registers(agenda'[Main]) : op.task = <<q[1]>> /\ op.index <= q[2]
    BY DEF IndicesCome
  <2>2. <<q[1]>> \in Tasks /\ q \in Tasks /\ q[2] \in 1..(IF Indices = 0 THEN Subwidth ELSE Indices)
    BY <1>k, SubShape
  <2>3. IsCollection(<<q[1]>>) /\ ~Present(q)
    BY <1>s, <2>1, <2>2
  <2>4. PICK op \in Registers(agenda[Main]) : op.task = <<q[1]>> /\ op.index <= q[2]
    BY <1>0, <2>3 DEF IndicesCome
  <2>5. op.index <= Indices
    <3>1. Indices # 0 /\ Indices \in Nat
      BY <2>3, BoundsAssumption DEF IsCollection
    <3>2. q[2] \in 1..Indices
      BY <2>2, <3>1
    <3>3. op.index \in Nat
      <4>1. GoodRegister(op)
        BY <1>k DEF Inv, RegistersOK
      <4> QED BY <3>1, <4>1 DEF GoodRegister
    <3> QED BY <2>4, <3>1, <3>2, <3>3
  <2> QED BY <2>4, <2>5 DEF RegistersStay
<1>3. Families'
  <2>1. ASSUME NEW p \in SubTasks, Present(p)'
        PROVE  IF Indices = 0 THEN /\ kind'[p] # "index" /\ kind'[<<p[1]>>] = "write"
                                   /\ status'[<<p[1]>>] \in {"running", "done"}
               ELSE kind'[p] = "index" /\ IsCollection(<<p[1]>>)'
    <3>1. Present(p) /\ <<p[1]>> \in Tasks
      BY <1>k, <1>s, <2>1, SubShape
    <3>2. CASE Indices = 0
      <4>1. kind[p] # "index" /\ kind[<<p[1]>>] = "write" /\ status[<<p[1]>>] \in {"running", "done"}
        BY <1>0, <3>1, <3>2 DEF Families
      <4>2. status'[<<p[1]>>] \in {"running", "done"}
        BY <1>s, <3>1, <4>1 DEF Forward, NothingNew
      <4> QED BY <1>t, <3>2, <4>1, <4>2
    <3>3. CASE ~(Indices = 0)
      <4>1. kind[p] = "index" /\ IsCollection(<<p[1]>>)
        BY <1>0, <3>1, <3>3 DEF Families
      <4> QED BY <1>s, <1>t, <3>1, <3>3, <4>1
    <3> QED BY <3>2, <3>3
  <2>2. \A p \in TopTasks : Present(p)' => kind'[p] # "index" /\ (Indices > 0 => kind'[p] = "read")
    BY <1>0, <1>k, <1>s, <1>t DEF Families
  <2> QED BY <2>1, <2>2 DEF Families
<1>4. WritersHold'
  BY <1>0, <1>k, <1>s, <1>t DEF WritersHold, Parent, Out, AntiOut
<1>5. IndexUses'
  <2>1. SUFFICES ASSUME NEW q \in SubTasks, Present(q)', kind'[q] = "index"
        PROVE  /\ use'[q].anti_dependency
               /\ use'[q].out = Out(q) /\ use'[q].anti_out = AntiOut(q)
               /\ use'[q].anti_in = UnitOf(q, "anti_in")
               /\ Promise(<<UnitOf(q, "link_out"), Out(<<q[1]>>)>>, Out(q))'
               /\ Promise(<<UnitOf(q, "link_anti_out"), AntiOut(<<q[1]>>)>>, AntiOut(q))'
               /\ status'[q] = "pending" => \E g \in Flows :
                    /\ Promise(<<UnitOf(q, "anti_in"), use[q].anti_in>>, g)'
                    /\ \A p \in TopTasks : Captured(p)' /\ p[1] < q[1] => AntiPast(g, p)'
    BY <1>t DEF IndexUses
  <2>2. Present(q) /\ kind[q] = "index"
    BY <1>k, <1>s, <1>t, <2>1
  <2>3. /\ use[q].anti_dependency
        /\ use[q].out = Out(q) /\ use[q].anti_out = AntiOut(q)
        /\ use[q].anti_in = UnitOf(q, "anti_in")
    BY <1>0, <2>2 DEF IndexUses
  <2>4. /\ Promise(<<UnitOf(q, "link_out"), Out(<<q[1]>>)>>, Out(q))
        /\ Promise(<<UnitOf(q, "link_anti_out"), AntiOut(<<q[1]>>)>>, AntiOut(q))
    BY <1>0, <2>2 DEF IndexUses
  <2>5. /\ Promise(<<UnitOf(q, "link_out"), Out(<<q[1]>>)>>, Out(q))'
        /\ Promise(<<UnitOf(q, "link_anti_out"), AntiOut(<<q[1]>>)>>, AntiOut(q))'
    BY <1>p, <2>4
  <2>6. ASSUME status'[q] = "pending"
        PROVE  \E g \in Flows :
                    /\ Promise(<<UnitOf(q, "anti_in"), use[q].anti_in>>, g)'
                    /\ \A p \in TopTasks : Captured(p)' /\ p[1] < q[1] => AntiPast(g, p)'
    <3>1. status[q] = "pending"
      BY <1>k, <1>s, <2>6 DEF Forward
    <3>2. PICK g \in Flows :
                    /\ Promise(<<UnitOf(q, "anti_in"), use[q].anti_in>>, g)
                    /\ \A p \in TopTasks : Captured(p) /\ p[1] < q[1] => AntiPast(g, p)
      BY <1>0, <2>2, <3>1 DEF IndexUses
    <3>3. Promise(<<UnitOf(q, "anti_in"), use[q].anti_in>>, g)'
      BY <1>t, <1>p, <3>2
    <3>4. \A p \in TopTasks : Captured(p)' /\ p[1] < q[1] => AntiPast(g, p)'
      BY <1>k, <1>s, <3>2
    <3> QED BY <3>3, <3>4
  <2>7. /\ use'[q].anti_dependency
        /\ use'[q].out = Out(q) /\ use'[q].anti_out = AntiOut(q)
        /\ use'[q].anti_in = UnitOf(q, "anti_in")
    BY <1>t, <2>3
  <2> QED BY <2>5, <2>6, <2>7
<1>6. ScopesCover'
  <2>1. \A c \in Users : Writes(c)' <=> Writes(c)
    BY <1>t DEF Writes
  <2> QED BY <1>0, <1>s, <1>t, <2>1 DEF ScopesCover, Parent
<1>7. WaitsCover'
  <2>1. SUFFICES ASSUME NEW t \in Tasks, status'[t] = "pending"
        PROVE  /\ Promise(<<UnitOf(t, "wait_in"), t>>, use[t].in)'
               /\ use'[t].anti_dependency => Promise(<<UnitOf(t, "wait_anti_in"), t>>, use[t].anti_in)'
               /\ kind[t] # "read" => use'[t].anti_dependency
               /\ \A p \in Tasks : Captured(p)' /\ Parent(p) = Parent(t) /\ Order!Before(p, t) =>
                    /\ kind[t] = "read" /\ Writer(p)' => InPast(use[t].in, p)'
                    /\ kind[t] = "write" => AntiPast(use[t].anti_in, p)'
    BY <1>t DEF WaitsCover, Parent
  <2>2. status[t] = "pending"
    BY <1>s, <2>1 DEF Forward
  <2>3. /\ Promise(<<UnitOf(t, "wait_in"), t>>, use[t].in)
        /\ use[t].anti_dependency => Promise(<<UnitOf(t, "wait_anti_in"), t>>, use[t].anti_in)
    BY <1>0, <2>2 DEF WaitsCover
  <2>4. /\ Promise(<<UnitOf(t, "wait_in"), t>>, use[t].in)'
        /\ use'[t].anti_dependency => Promise(<<UnitOf(t, "wait_anti_in"), t>>, use[t].anti_in)'
    BY <1>p, <1>t, <2>3
  <2>5. kind[t] # "read" => use'[t].anti_dependency
    BY <1>0, <1>t, <2>2 DEF WaitsCover
  <2>6. ASSUME NEW p \in Tasks, Captured(p)', Parent(p) = Parent(t), Order!Before(p, t)
        PROVE  /\ kind[t] = "read" /\ Writer(p)' => InPast(use[t].in, p)'
               /\ kind[t] = "write" => AntiPast(use[t].anti_in, p)'
    <3>1. /\ kind[t] = "read" /\ Writer(p) => InPast(use[t].in, p)
          /\ kind[t] = "write" => AntiPast(use[t].anti_in, p)
      BY <1>0, <1>s, <2>2, <2>6 DEF WaitsCover
    <3>2. PICK i, ai : i = use[t].in /\ ai = use[t].anti_in
      OBVIOUS
    <3>3. use'[t].in = i /\ use'[t].anti_in = ai
      BY <1>t, <3>2
    <3>4. (kind[t] = "read" /\ Writer(p)' => InPast(i, p)') /\ (kind[t] = "write" => AntiPast(ai, p)')
      BY <1>s, <3>1, <3>2
    <3> QED BY <3>2, <3>3, <3>4
  <2> QED BY <1>t, <2>4, <2>5, <2>6
<1>8. AliasesKept'
  <2>1. SUFFICES ASSUME NEW s \in Tasks, status'[s] = "done", kind[s] = "write", use[s].establishes_alias
        PROVE  /\ Promise(<<<<use[s].id, "alias_out">>, use[s].out>>, use[s].in)'
               /\ Promise(<<<<use[s].id, "alias_anti_in">>, use[s].anti_in>>, use[s].anti_out)'
    BY <1>t DEF AliasesKept
  <2>2. CASE status[s] = "done"
    <3>1. /\ Promise(<<<<use[s].id, "alias_out">>, use[s].out>>, use[s].in)
          /\ Promise(<<<<use[s].id, "alias_anti_in">>, use[s].anti_in>>, use[s].anti_out)
      BY <1>0, <2>1, <2>2 DEF AliasesKept
    <3> QED BY <1>p, <1>t, <3>1
  <2>3. CASE status[s] # "done"
    BY <2>1, <2>3 DEF DoneAliased
  <2> QED BY <2>2, <2>3
<1>9. InKnown'
  BY <1>0, <1>s, <1>t DEF InKnown
<1>10. ReadyInOrder'
  <2>1. SUFFICES ASSUME NEW p \in Tasks, NEW t \in Tasks, Order!Before(p, t), Order!Conflict(p, t)',
                        Present(p)', status'[t] \in {"ready", "running", "done"}
        PROVE  status'[p] = "done"
    BY DEF ReadyInOrder
  <2>2. Order!Conflict(p, t) /\ Present(p)
    BY <1>s, <2>1
  <2>3. status[p] = "done"
    BY <1>0, <2>1, <2>2 DEF ReadyInOrder, NowInOrder
  <2> QED BY <1>s, <2>3 DEF NothingNew
<1> QED BY <1>1, <1>2, <1>3, <1>4, <1>5, <1>6, <1>7, <1>8, <1>9, <1>10 DEF OrderInv

\* The head of an agenda, typed.
LEMMA HeadTyped ==
  ASSUME TypesOK, NEW a \in Threads, agenda[a] # <<>>
  PROVE  Head(agenda[a]) \in Ops /\ Head(agenda[a]) = agenda[a][1] /\ 1 \in DOMAIN agenda[a]
<1>1. agenda[a] \in Seq(Ops)
  BY DEF TypesOK
<1> QED BY <1>1, TailOps

\* A collection with indices left to register is not taken off an agenda.
LEMMA RegistersKept ==
  ASSUME TypesOK, NEW a \in Threads, NEW X \in Seq(Ops), AgendaStep(a, X), Registers(X) = {},
         agenda[a] # <<>> /\ Head(agenda[a]).do = "register" => ~(Head(agenda[a]).index <= Indices)
  PROVE  RegistersStay
<1>1. ASSUME NEW th \in Threads PROVE Registers(agenda'[th]) \subseteq Registers(agenda[th])
  <2>1. CASE th = a
    BY <2>1, AgendaAfter, RestFacts
  <2>2. CASE th # a
    BY <2>2, AgendaAfter
  <2> QED BY <2>1, <2>2
<1>2. ASSUME NEW op \in Registers(agenda[Main]), op.index <= Indices
      PROVE  op \in Registers(agenda'[Main])
  <2>1. Main \in Threads
    BY UsersRun
  <2>2. PICK k \in DOMAIN agenda[Main] : op = agenda[Main][k] /\ op.do = "register"
    BY DEF Registers
  <2>3. Main # a \/ k # 1
    <3>1. SUFFICES ASSUME Main = a, k = 1 PROVE FALSE
      OBVIOUS
    <3>2. agenda[a] \in Seq(Ops) /\ k \in DOMAIN agenda[a]
      BY <2>2, <3>1 DEF TypesOK
    <3>3. agenda[a] # <<>>
      BY <3>2
    <3>4. Head(agenda[a]) = op
      BY <2>2, <3>1, <3>3, HeadTyped
    <3> QED BY <1>2, <2>2, <3>3, <3>4
  <2>4. \E j \in DOMAIN agenda'[Main] : agenda'[Main][j] = agenda[Main][k]
    BY <2>1, <2>3, OpStays
  <2> QED BY <2>2, <2>4 DEF Registers
<1> QED BY <1>1, <1>2 DEF RegistersStay

\* A step of a thread that changes no task.
LEMMA StandingOrder ==
  ASSUME Inv, OrderInv, captures' = captures, use' = use, kind' = kind, status' = status,
         NEW a \in Threads, NEW X \in Seq(Ops), AgendaStep(a, X), Registers(X) = {},
         agenda[a] # <<>> /\ Head(agenda[a]).do = "register" => ~(Head(agenda[a]).index <= Indices),
         StillAwaited(a)
  PROVE  OrderInv'
<1>0. TypesOK
  BY DEF Inv
<1>1. NothingNew /\ Forward
  BY DEF NothingNew, Forward
<1>2. Known \subseteq Known'
  BY <1>0, <1>1, KnownSame
<1>3. PromisesStay
  BY <1>0, <1>2, PromiseKept
<1>4. RegistersStay
  BY <1>0, RegistersKept
<1>5. DoneAliased /\ NowInOrder
  BY DEF DoneAliased, NowInOrder
<1> QED BY <1>1, <1>3, <1>4, <1>5, QuietOrder

\* A flow that is counted once more is ready no earlier.
LEMMA IncrementOrder ==
  ASSUME Inv, OrderInv, NEW a \in Threads, DoIncrement(a) PROVE OrderInv'
<1> DEFINE h == Head(agenda[a])
<1>0. TypesOK
  BY DEF Inv
<1>1. /\ agenda[a] # <<>> /\ h.do = "increment" /\ count[h.counter] > 0
      /\ count' = [count EXCEPT ![h.counter] = @ + 1]
      /\ agenda' = [agenda EXCEPT ![a] = Tail(@)]
      /\ actions' = actions /\ use' = use /\ captures' = captures /\ kind' = kind
      /\ status' = status
  BY DEF DoIncrement, IsNext
<1>2. PICK X : X = <<>>
  OBVIOUS
<1>3. AgendaStep(a, X) /\ X \in Seq(Ops) /\ Registers(X) = {}
  <2>1. AgendaStep(a, <<>>)
    BY <1>0, <1>1, OnlyDropHead
  <2>2. Registers(<<>>) = {}
    BY DEF Registers
  <2> QED BY <1>2, <2>1, <2>2, NothingPut
<1>4. ASSUME NEW g \in Flows, count'[g] > 0 PROVE count[g] > 0
  BY <1>0, <1>1, <1>4 DEF TypesOK
<1>5. StillAwaited(a)
  BY <1>1, <1>4 DEF StillAwaited
<1> QED BY <1>1, <1>3, <1>5, StandingOrder

\* A decrement puts the actions of the flow that becomes ready on the agenda: what was
\* awaited from it may be given back now.
LEMMA DecrementOrder ==
  ASSUME Inv, OrderInv, NEW a \in Threads, DoDecrement(a) PROVE OrderInv'
<1> DEFINE h == Head(agenda[a])
<1>0. TypesOK
  BY DEF Inv
<1>1. /\ agenda[a] # <<>> /\ h.do = "decrement"
      /\ use' = use /\ captures' = captures /\ kind' = kind /\ status' = status
  BY DEF DoDecrement, IsNext
<1>2. PICK f : f = h.counter
  OBVIOUS
<1>3. f \in Flows /\ count[f] > 0 /\ count[f] \in Nat /\ count' = [count EXCEPT ![f] = @ - 1]
  BY <1>0, <1>1, <1>2, HeadTyped, OpKinds DEF DoDecrement, TypesOK
<1>4. \A g \in Flows : count'[g] = IF g = f THEN count[f] - 1 ELSE count[g]
  BY <1>0, <1>3 DEF TypesOK
<1>5. CASE count[f] = 1
  <2>1. /\ agenda' = [agenda EXCEPT ![a] = actions[f] \o Tail(@)]
        /\ actions' = [actions EXCEPT ![f] = <<>>]
    BY <1>2, <1>5 DEF DoDecrement
  <2>2. PICK X : X = actions[f]
    OBVIOUS
  <2>3. X \in Seq(Payloads) /\ X \in Seq(Ops)
    BY <1>0, <1>3, <2>2, ActionsAreOps DEF TypesOK
  <2>4. Registers(X) = {}
    <3>1. \A k \in DOMAIN X : X[k].do # "register"
      BY <2>3 DEF Payloads
    <3> QED BY <3>1 DEF Registers
  <2>5. AgendaStep(a, X)
    BY <1>0, <1>1, <2>1, <2>2, <2>3, DropHead
  <2>6. \A g \in Flows : g # f => actions'[g] = actions[g]
    BY <1>0, <2>1 DEF TypesOK
  <2>7. ASSUME NEW g \in Flows, count'[g] > 0 PROVE count[g] > 0 /\ g # f
    BY <1>4, <1>5, <2>7
  <2>8. StillAwaited(a)
    BY <1>1, <2>6, <2>7 DEF StillAwaited
  <2> QED BY <1>1, <2>3, <2>4, <2>5, <2>8, StandingOrder
<1>6. CASE count[f] # 1
  <2>1. agenda' = [agenda EXCEPT ![a] = Tail(@)] /\ actions' = actions
    BY <1>2, <1>6 DEF DoDecrement
  <2>2. PICK X : X = <<>>
    OBVIOUS
  <2>3. AgendaStep(a, X) /\ X \in Seq(Ops) /\ Registers(X) = {}
    <3>1. AgendaStep(a, <<>>)
      BY <1>0, <1>1, <2>1, OnlyDropHead
    <3>2. Registers(<<>>) = {}
      BY DEF Registers
    <3> QED BY <2>2, <3>1, <3>2, NothingPut
  <2>4. \A g \in Flows : count'[g] > 0 => count[g] > 0
    BY <1>3, <1>4
  <2>5. StillAwaited(a)
    BY <1>1, <2>1, <2>4 DEF StillAwaited
  <2> QED BY <1>1, <2>3, <2>5, StandingOrder
<1> QED BY <1>5, <1>6

\* An action that is attached to a ready flow is run at once; any other is awaited from
\* the flow instead of from the agenda.
LEMMA AttachOrder ==
  ASSUME Inv, OrderInv, NEW a \in Threads, DoAttach(a) PROVE OrderInv'
<1> DEFINE h == Head(agenda[a])
<1>0. TypesOK
  BY DEF Inv
<1>1. /\ agenda[a] # <<>> /\ h.do = "attach" /\ count' = count
      /\ use' = use /\ captures' = captures /\ kind' = kind /\ status' = status
  BY DEF DoAttach, IsNext
<1>2. PICK act, f : act = h.action /\ f = h.counter
  OBVIOUS
<1>3. h \in Ops /\ act \in Payloads /\ f \in Flows
  BY <1>0, <1>1, <1>2, HeadTyped, OpKinds
<1>4. act \in Ops /\ OwedByOp(h) = OwedByOp(act) /\ act.do # "register"
  <2>1. act \in Ops /\ act.do \in {"decrement", "enqueue", "satisfy"}
    BY <1>3, PayloadsAreOps DEF Payloads
  <2> QED BY <1>1, <1>2, <2>1 DEF OwedByOp
<1>5. CASE count[f] = 0
  <2>1. agenda' = [agenda EXCEPT ![a] = <<act>> \o Tail(@)] /\ actions' = actions
    BY <1>2, <1>5 DEF DoAttach
  <2>2. PICK X : X = <<act>>
    OBVIOUS
  <2>3. X \in Seq(Ops) /\ Registers(X) = {}
    BY <1>4, <2>2, RegistersSingle, SingleOps
  <2>4. AgendaStep(a, X)
    BY <1>0, <1>1, <2>1, <2>2, <2>3, DropHead
  <2>5. StillAwaited(a)
    BY <1>1, <1>2, <1>5, <2>1 DEF StillAwaited
  <2> QED BY <1>1, <2>3, <2>4, <2>5, StandingOrder
<1>6. CASE count[f] # 0
  <2>1. /\ agenda' = [agenda EXCEPT ![a] = Tail(@)]
        /\ actions' = [actions EXCEPT ![f] = Append(@, act)]
    BY <1>2, <1>6 DEF DoAttach
  <2>2. PICK X : X = <<>>
    OBVIOUS
  <2>3. AgendaStep(a, X) /\ X \in Seq(Ops) /\ Registers(X) = {}
    <3>1. AgendaStep(a, <<>>)
      BY <1>0, <1>1, <2>1, OnlyDropHead
    <3>2. Registers(<<>>) = {}
      BY DEF Registers
    <3> QED BY <2>2, <3>1, <3>2, NothingPut
  <2>4. PICK old, one : old = actions[f] /\ one = <<act>>
    OBVIOUS
  <2>5. old \in Seq(Payloads) /\ old \in Seq(Ops) /\ one \in Seq(Ops) /\ OwedByOps(one) = OwedByOp(h)
    BY <1>0, <1>3, <1>4, <2>4, ActionsAreOps, SingleOps DEF TypesOK
  <2>6. Append(old, act) = old \o one
    BY <1>3, <2>4, <2>5
  <2>7. \A g \in Flows : actions'[g] = IF g = f THEN old \o one ELSE actions[g]
    BY <1>0, <1>3, <2>1, <2>4, <2>6 DEF TypesOK
  <2>8. OwedByOps(old \o one) = OwedByOps(old) \cup OwedByOp(h)
    BY <2>5, ConcatOps
  <2>9. ASSUME NEW g \in Flows
        PROVE  /\ OwedByOps(actions[g]) \subseteq OwedByOps(actions'[g])
               /\ h.counter = g => OwedByOp(h) \subseteq OwedByOps(actions'[g])
    <3>1. CASE g = f
      <4>1. actions'[g] = old \o one /\ actions[g] = old
        BY <2>4, <2>7, <3>1
      <4>2. OwedByOps(actions[g]) \subseteq OwedByOps(actions'[g])
        BY <2>8, <4>1
      <4>3. OwedByOp(h) \subseteq OwedByOps(actions'[g])
        BY <2>8, <4>1
      <4> QED BY <4>2, <4>3
    <3>2. CASE g # f
      <4>1. actions'[g] = actions[g] /\ h.counter # g
        BY <1>2, <2>7, <3>2
      <4> QED BY <4>1
    <3> QED BY <3>1, <3>2
  <2>10. StillAwaited(a)
    <3>1. \A g \in Flows : count'[g] > 0 => count[g] > 0
      BY <1>1
    <3> QED BY <2>9, <3>1 DEF StillAwaited
  <2> QED BY <1>1, <2>3, <2>10, StandingOrder
<1> QED BY <1>5, <1>6

\* A callable that goes to a ready queue is still to be run.
LEMMA EnqueueOrder ==
  ASSUME Inv, OrderInv, NEW a \in Threads, DoEnqueue(a) PROVE OrderInv'
<1> DEFINE h == Head(agenda[a])
<1>0. TypesOK
  BY DEF Inv
<1>1. /\ agenda[a] # <<>> /\ h.do = "enqueue" /\ agenda' = [agenda EXCEPT ![a] = Tail(@)]
      /\ count' = count /\ actions' = actions
      /\ use' = use /\ captures' = captures /\ kind' = kind /\ status' = status
  BY DEF DoEnqueue, IsNext
<1>2. PICK X : X = <<>>
  OBVIOUS
<1>3. AgendaStep(a, X) /\ X \in Seq(Ops) /\ Registers(X) = {}
  <2>1. AgendaStep(a, <<>>)
    BY <1>0, <1>1, OnlyDropHead
  <2>2. Registers(<<>>) = {}
    BY DEF Registers
  <2> QED BY <1>2, <2>1, <2>2, NothingPut
<1>4. StillAwaited(a)
  BY <1>1 DEF StillAwaited
<1> QED BY <1>1, <1>3, <1>4, StandingOrder

\* And so it is while a worker takes it from the queue.
LEMMA RunCallableOrder ==
  ASSUME Inv, OrderInv, NEW w \in Helpers, RunCallable(w) PROVE OrderInv'
<1>0. TypesOK
  BY DEF Inv
<1>1. /\ agenda[w] = <<>> /\ count' = count /\ actions' = actions
      /\ use' = use /\ captures' = captures /\ kind' = kind /\ status' = status
  BY DEF RunCallable
<1>2. PICK op \in callables : agenda' = [agenda EXCEPT ![w] = <<op>>]
  BY DEF RunCallable
<1>3. w \in Threads
  BY DEF Helpers, Threads
<1>4. op.do = "decrement" /\ op \in Ops
  BY <1>0, <1>2, PayloadsAreOps DEF TypesOK
<1>5. PICK X : X = <<op>>
  OBVIOUS
<1>6. X \in Seq(Ops) /\ Registers(X) = {}
  BY <1>4, <1>5, RegistersSingle, SingleOps
<1>7. AgendaStep(w, X)
  <2>1. X \o <<>> = X
    BY <1>6
  <2>2. Rest(w) = <<>>
    BY <1>1 DEF Rest
  <2> QED BY <1>2, <1>5, <2>1, <2>2 DEF AgendaStep
<1>8. StillAwaited(w)
  BY <1>1 DEF StillAwaited
<1> QED BY <1>1, <1>3, <1>6, <1>7, <1>8, StandingOrder

\* When no index is left, the use of the collection is released.
LEMMA RegisterLastOrder ==
  ASSUME Inv, OrderInv, NEW a \in Threads, DoRegister(a), Head(agenda[a]).index > Indices
  PROVE  OrderInv'
<1> DEFINE h == Head(agenda[a])
<1>0. TypesOK
  BY DEF Inv
<1>1. /\ agenda[a] # <<>> /\ h.do = "register"
      /\ agenda' = [agenda EXCEPT ![a] = ReleaseUse(h.use) \o Tail(@)]
      /\ count' = count /\ use' = use /\ captures' = captures /\ kind' = kind
      /\ actions' = actions /\ status' = status
  BY DEF DoRegister, IsNext
<1>2. h.use \in Uses /\ h.index \in Nat
  BY <1>0, <1>1, HeadTyped, OpKinds
<1>3. PICK X : X = ReleaseUse(h.use)
  OBVIOUS
<1>4. X \in Seq(Ops) /\ Registers(X) = {}
  <2>1. Sound(ReleaseUse(h.use))
    BY <1>2, Releasing
  <2> QED BY <1>3, <2>1 DEF Sound
<1>5. AgendaStep(a, X)
  BY <1>0, <1>1, <1>3, <1>4, DropHead
<1>6. StillAwaited(a)
  BY <1>1 DEF StillAwaited
<1>7. ~(h.index <= Indices)
  BY <1>2, BoundsAssumption
<1> QED BY <1>1, <1>4, <1>5, <1>6, <1>7, StandingOrder

\* The last of what a task waits for is not awaited by any flow.
LEMMA LastWait ==
  ASSUME Inv, NEW a \in Threads, agenda[a] # <<>>, Head(agenda[a]).do = "satisfy",
         NEW t, t = Head(agenda[a]).counter, need[t] = 1,
         NEW unit \in WaitUnits, NEW g \in Flows
  PROVE  ~Awaits(<<unit, t>>, g)
<1> DEFINE h == Head(agenda[a])
<1>0. TypesOK /\ OwedApart /\ OnceEach /\ Counted
  BY DEF Inv
<1>1. h \in Ops /\ t \in Tasks /\ h.unit \in WaitUnits
  BY HeadFacts, OpKinds
<1>2. PICK x : x = <<h.unit, t>>
  OBVIOUS
<1>3. OwedByOp(h) = {x} /\ x \in Owed /\ x \notin ToCome /\ x[1] \in WaitUnits /\ x[2] = t
  <2>1. OwedByOp(h) = {x}
    BY <1>2 DEF OwedByOp
  <2> QED BY <1>1, <1>2, <2>1, HeadFacts
<1>4. SUFFICES ASSUME Awaits(<<unit, t>>, g) PROVE FALSE
  OBVIOUS
<1>5. PICK y : y = <<unit, t>>
  OBVIOUS
<1>6. y \in Owed /\ y \notin ToCome /\ y[1] \in WaitUnits /\ y[2] = t
  <2>1. y \in Owed
    BY <1>0, <1>4, <1>5, AwaitedOwed
  <2>2. y \in Tokens /\ y[1] = unit /\ y[2] = t
    BY <1>0, <1>5, <2>1, OwedTokens
  <2> QED BY <1>0, <2>1, <2>2, UnitsApart, ToComeTyped
<1>7. x = y
  <2>1. PICK S : S = WaitShare(Outstanding, t)
    OBVIOUS
  <2>2. x \in S /\ y \in S
    BY <1>3, <1>6, <2>1 DEF WaitShare, Outstanding
  <2>3. Cardinality(S) = 1 /\ IsFiniteSet(S)
    BY <1>0, <1>1, <2>1, OutstandingTyped, SharesFinite DEF Counted
  <2>4. PICK z : S = {z}
    BY <2>3, FS_Singleton
  <2> QED BY <2>2, <2>4
<1>8. <<"agenda", a>> \in Places /\ x \in Holds[<<"agenda", a>>]
  <2>1. x \in OwedByOps(agenda[a])
    BY <1>3, HeadFacts
  <2> QED BY <2>1, PlaceKinds, HoldsNow
<1>9. CASE \E k \in DOMAIN actions[g] : y \in OwedByOp(actions[g][k])
  <2>1. y \in Holds[<<"actions", g>>]
    <3>1. y \in OwedByOps(actions[g])
      BY <1>9 DEF OwedByOps
    <3> QED BY <3>1, HoldsNow
  <2>2. <<"actions", g>> \in Places /\ <<"actions", g>> # <<"agenda", a>>
    BY PlaceKinds
  <2>3. Holds[<<"actions", g>>] \cap Holds[<<"agenda", a>>] = {}
    BY <1>0, <1>8, <2>2 DEF OwedApart
  <2> QED BY <1>7, <1>8, <2>1, <2>3
<1>10. ASSUME NEW th \in Threads, NEW k \in DOMAIN agenda[th], agenda[th][k].do = "attach",
              y \in OwedByOp(agenda[th][k])
       PROVE  FALSE
  <2>1. CASE th = a
    <3>1. 1 \in DOMAIN agenda[a] /\ h = agenda[a][1]
      BY <1>0, HeadTyped
    <3>2. k # 1
      BY <1>10, <2>1, <3>1
    <3>3. OwedByOp(agenda[a][1]) \cap OwedByOp(agenda[a][k]) = {}
      BY <1>0, <1>10, <2>1, <3>1, <3>2 DEF OnceEach, Once
    <3> QED BY <1>3, <1>7, <1>10, <2>1, <3>1, <3>3
  <2>2. CASE th # a
    <3>1. y \in Holds[<<"agenda", th>>]
      <4>1. y \in OwedByOps(agenda[th])
        BY <1>10 DEF OwedByOps
      <4> QED BY <4>1, HoldsNow
    <3>2. <<"agenda", th>> \in Places /\ <<"agenda", th>> # <<"agenda", a>>
      BY <2>2, PlaceKinds
    <3>3. Holds[<<"agenda", th>>] \cap Holds[<<"agenda", a>>] = {}
      BY <1>0, <1>8, <3>2 DEF OwedApart
    <3> QED BY <1>7, <1>8, <3>1, <3>3
  <2> QED BY <2>1, <2>2
<1>11. Awaits(y, g)
  BY <1>4, <1>5
<1> QED BY <1>9, <1>10, <1>11 DEF Awaits

\* A task becomes ready when the last flow that it waits for does: all before it that it
\* conflicts with is done by then.
LEMMA SatisfyOrder ==
  ASSUME Inv, OrderInv, NEW a \in Threads, DoSatisfy(a) PROVE OrderInv'
<1> DEFINE h == Head(agenda[a])
<1>0. TypesOK /\ WaitsPending /\ WaitsCover
  BY DEF Inv, OrderInv
<1>1. /\ agenda[a] # <<>> /\ h.do = "satisfy"
      /\ agenda' = [agenda EXCEPT ![a] = Tail(@)]
      /\ count' = count /\ use' = use /\ captures' = captures /\ kind' = kind
      /\ actions' = actions
  BY DEF DoSatisfy, IsNext
<1>2. PICK unit, t : unit = h.unit /\ t = h.counter
  OBVIOUS
<1>3. h \in Ops /\ unit \in WaitUnits /\ t \in Tasks
  BY <1>1, <1>2, HeadFacts, OpKinds
<1>4. status' = IF need[t] = 1 THEN [status EXCEPT ![t] = "ready"] ELSE status
  BY <1>2 DEF DoSatisfy
<1>5. status[t] = "pending" /\ t \in Users
  <2>1. PICK x : x = <<unit, t>>
    OBVIOUS
  <2>2. x \in OwedByOp(h)
    BY <1>1, <1>2, <2>1 DEF OwedByOp
  <2>3. x \in Owed
    BY <1>1, <2>2, HeadFacts
  <2>4. x[1] \in WaitUnits /\ x[2] = t
    BY <1>3, <2>1
  <2> QED BY <1>0, <1>3, <2>3, <2>4, UsersRun DEF WaitsPending
<1>6. PICK X : X = <<>>
  OBVIOUS
<1>7. AgendaStep(a, X) /\ X \in Seq(Ops) /\ Registers(X) = {}
  <2>1. AgendaStep(a, <<>>)
    BY <1>0, <1>1, OnlyDropHead
  <2>2. Registers(<<>>) = {}
    BY DEF Registers
  <2> QED BY <1>6, <2>1, <2>2, NothingPut
<1>8. StillAwaited(a)
  BY <1>1 DEF StillAwaited
<1>9. CASE need[t] # 1
  <2>1. status' = status
    BY <1>4, <1>9
  <2> QED BY <1>1, <1>7, <1>8, <2>1, StandingOrder
<1>10. CASE need[t] = 1
  <2>1. \A c \in Users : status'[c] = IF c = t THEN "ready" ELSE status[c]
    BY <1>0, <1>4, <1>10 DEF TypesOK
  <2>2. NothingNew /\ Forward
    <3>1. \A c \in Users : /\ status'[c] = "unregistered" <=> status[c] = "unregistered"
                           /\ status[c] = "done" => status'[c] = "done"
                           /\ status'[c] = "pending" => status[c] = "pending"
                           /\ status[c] = "running" => status'[c] \in {"running", "done"}
      BY <1>5, <2>1
    <3> QED BY <1>1, <3>1 DEF NothingNew, Forward
  <2>3. PromisesStay
    <3>1. Known \subseteq Known'
      BY <1>0, <2>2, KnownSame
    <3> QED BY <1>0, <1>7, <1>8, <3>1, PromiseKept
  <2>4. RegistersStay
    BY <1>0, <1>1, <1>7, RegistersKept
  <2>5. DoneAliased
    BY <2>1, UsersRun DEF DoneAliased
  <2>6. count[use[t].in] = 0 /\ (use[t].anti_dependency => count[use[t].anti_in] = 0)
    <3>1. /\ Promise(<<UnitOf(t, "wait_in"), t>>, use[t].in)
          /\ use[t].anti_dependency => Promise(<<UnitOf(t, "wait_anti_in"), t>>, use[t].anti_in)
      BY <1>0, <1>3, <1>5 DEF WaitsCover
    <3>2. UnitOf(t, "wait_in") \in WaitUnits /\ UnitOf(t, "wait_anti_in") \in WaitUnits
      BY <1>3, UnitNames
    <3>3. ASSUME NEW w \in WaitUnits, NEW g, Promise(<<w, t>>, g) PROVE count[g] = 0
      <4>1. g \in Flows /\ count[g] \in Nat
        BY <1>0, <3>3 DEF Promise, TypesOK
      <4>2. ~Awaits(<<w, t>>, g)
        BY <1>1, <1>2, <1>10, <4>1, LastWait
      <4> QED BY <3>3, <4>1, <4>2 DEF Promise
    <3> QED BY <3>1, <3>2, <3>3
  <2>7. NowInOrder
    <3>1. SUFFICES ASSUME NEW p \in Tasks, NEW s \in Tasks,
                          Order!Before(p, s), Order!Conflict(p, s), Present(p),
                          status'[s] \in {"ready", "running", "done"},
                          status[s] \notin {"ready", "running", "done"}
                   PROVE  status[p] = "done"
      BY DEF NowInOrder
    <3>2. s = t
      BY <2>1, <3>1, UsersRun
    <3> QED BY <1>3, <1>5, <2>6, <3>1, <3>2, TaskReady
  <2> QED BY <2>2, <2>3, <2>4, <2>5, <2>7, QuietOrder
<1> QED BY <1>9, <1>10

\* A task that starts was ready.
LEMMA StartOrder ==
  ASSUME Inv, OrderInv, NEW t \in Tasks, Start(t) PROVE OrderInv'
<1>0. TypesOK
  BY DEF Inv
<1>1. /\ status[t] = "ready" /\ status' = [status EXCEPT ![t] = "running"]
      /\ agenda' = agenda /\ count' = count /\ actions' = actions
      /\ use' = use /\ captures' = captures /\ kind' = kind
  BY DEF Start
<1>2. \A c \in Users : status'[c] = IF c = t THEN "running" ELSE status[c]
  BY <1>0, <1>1 DEF TypesOK
<1>3. NothingNew /\ Forward
  <2>1. \A c \in Users : /\ status'[c] = "unregistered" <=> status[c] = "unregistered"
                         /\ status[c] = "done" => status'[c] = "done"
                         /\ status'[c] = "pending" => status[c] = "pending"
                         /\ status[c] = "running" => status'[c] \in {"running", "done"}
    BY <1>1, <1>2
  <2> QED BY <1>1, <2>1 DEF NothingNew, Forward
<1>4. PromisesStay
  <2>1. Known \subseteq Known'
    BY <1>0, <1>3, KnownSame
  <2> QED BY <1>1, <2>1, PromiseSame
<1>5. RegistersStay
  BY <1>1 DEF RegistersStay
<1>6. DoneAliased /\ NowInOrder
  <2>1. \A c \in Tasks : status'[c] = IF c = t THEN "running" ELSE status[c]
    BY <1>2, UsersRun
  <2>2. DoneAliased
    BY <2>1 DEF DoneAliased
  <2>3. NowInOrder
    BY <1>1, <2>1 DEF NowInOrder
  <2> QED BY <2>2, <2>3
<1> QED BY <1>3, <1>4, <1>5, <1>6, QuietOrder

\* An operation among others.
Has(s, op) == \E k \in DOMAIN s : s[k] = op

\* What is in a part is in the whole.
LEMMA HasConcat ==
  ASSUME NEW s \in Seq(Ops), NEW t \in Seq(Ops), NEW op, Has(s, op) \/ Has(t, op)
  PROVE  Has(s \o t, op)
<1>1. /\ DOMAIN (s \o t) = 1..(Len(s) + Len(t))
      /\ \A i \in 1..(Len(s) + Len(t)) :
           (s \o t)[i] = IF i <= Len(s) THEN s[i] ELSE t[i - Len(s)]
  BY ConcatProperties
<1>2. DOMAIN s = 1..Len(s) /\ DOMAIN t = 1..Len(t) /\ Len(s) \in Nat /\ Len(t) \in Nat
  OBVIOUS
<1>3. \A i \in DOMAIN t : Len(s) + i \in DOMAIN (s \o t) /\ (s \o t)[Len(s) + i] = t[i]
  BY <1>1, <1>2
<1>4. \A i \in DOMAIN s : i \in DOMAIN (s \o t) /\ (s \o t)[i] = s[i]
  BY <1>1, <1>2
<1> QED BY <1>3, <1>4 DEF Has

\* When what is put on an agenda attaches an action, it is awaited.
LEMMA PromiseOf ==
  ASSUME TypesOK, NEW a \in Threads, NEW X \in Seq(Ops), AgendaStep(a, X),
         NEW g \in Flows, g[1][1] \in Known', NEW act \in Payloads, Has(X, Attach(g, act)),
         NEW x, x \in OwedByOp(act)
  PROVE  Promise(x, g)'
<1>1. PICK k \in DOMAIN X : X[k] = Attach(g, act)
  BY DEF Has
<1>2. X[k].do = "attach" /\ X[k].counter = g
  BY <1>1 DEF Attach
<1>3. x \in OwedByOp(X[k])
  BY <1>1, AttachOp
<1> QED BY <1>2, <1>3, PromiseMade

\* A use that established its alias is released with it.
LEMMA ReleaseAliases ==
  ASSUME NEW u \in Uses, u.establishes_alias, u.anti_in # None
  PROVE  /\ Has(ReleaseUse(u), Attach(u.in, EnqueueDecrement(u.out, <<u.id, "alias_out">>)))
         /\ Has(ReleaseUse(u), Attach(u.anti_out, EnqueueDecrement(u.anti_in, <<u.id, "alias_anti_in">>)))
<1> DEFINE o1 == Attach(u.in, EnqueueDecrement(u.out, <<u.id, "alias_out">>))
           o2 == Attach(u.anti_out, EnqueueDecrement(u.anti_in, <<u.id, "alias_anti_in">>))
           a1 == AliasTo(u.out, u.in, <<u.id, "alias_out">>)
           a2 == AliasTo(u.anti_in, u.anti_out, <<u.id, "alias_anti_in">>)
<1>1. Has(a1, o1) /\ Has(a2, o2)
  <2>1. a1[2] = o1 /\ 2 \in DOMAIN a1 /\ a2[2] = o2 /\ 2 \in DOMAIN a2
    BY DEF AliasTo
  <2> HIDE DEF a1, a2, o1, o2
  <2> QED BY <2>1 DEF Has
<1>2. Sound(a1) /\ Sound(a2)
  <2>1. /\ u.out \in Flows /\ u.in \in Flows /\ u.anti_in \in Flows /\ u.anti_out \in Flows
        /\ <<u.id, "alias_out">> \in FlowUnits /\ <<u.id, "alias_anti_in">> \in FlowUnits
    BY DEF Uses, FlowUnits
  <2> QED BY <2>1, AliasPart
<1>3. PICK alias, rest :
        /\ alias = (IF u.establishes_alias THEN EstablishAlias(u) ELSE <<>>)
        /\ rest = (IF u.anti_dependency THEN <<>> ELSE DecrementOf(u, "anti_in"))
                    \o DecrementOf(u, "out") \o DecrementOf(u, "anti_out")
  OBVIOUS
<1>4. ReleaseUse(u) = alias \o rest /\ Sound(alias) /\ Sound(rest)
  BY <1>3, Releasing
<1>5. alias = a1 \o a2
  BY <1>3 DEF EstablishAlias
<1> HIDE DEF a1, a2, o1, o2
<1>6. Has(alias, o1) /\ Has(alias, o2)
  BY <1>1, <1>2, <1>5, HasConcat DEF Sound
<1>7. Has(alias \o rest, o1) /\ Has(alias \o rest, o2)
  BY <1>4, <1>6, HasConcat DEF Sound
<1> QED BY <1>4, <1>7 DEF o1, o2

\* A body that returns gives back its use, and the flows of an alias wait for what its
\* subtasks made.
LEMMA FinishOrder ==
  ASSUME Inv, OrderInv, NEW c \in Users, Finish(c) PROVE OrderInv'
<1>0. TypesOK /\ UsesOK /\ WritersHold /\ InKnown
  BY DEF Inv, OrderInv
<1>1. /\ status[c] = "running" /\ agenda[c] = <<>>
      /\ status' = [status EXCEPT ![c] = "done"]
      /\ count' = count /\ use' = use /\ captures' = captures /\ kind' = kind
      /\ actions' = actions
  BY DEF Finish
<1>2. PICK u : u = use[c]
  OBVIOUS
<1>3. c \in Threads /\ u \in Uses
  BY <1>0, <1>2, UsersRun DEF TypesOK
<1>4. PICK X : X = ReleaseUse(u)
  OBVIOUS
<1>5. X \in Seq(Ops) /\ Registers(X) = {}
  <2>1. Sound(ReleaseUse(u))
    BY <1>3, Releasing
  <2> QED BY <1>4, <2>1 DEF Sound
<1>6. AgendaStep(c, X)
  <2>1. agenda' = [agenda EXCEPT ![c] = X]
    BY <1>2, <1>4 DEF Finish
  <2>2. Rest(c) = <<>>
    BY <1>1 DEF Rest
  <2>3. X \o <<>> = X
    BY <1>5
  <2> QED BY <2>1, <2>2, <2>3 DEF AgendaStep
<1>7. StillAwaited(c)
  BY <1>1 DEF StillAwaited
<1>8. \A d \in Users : status'[d] = IF d = c THEN "done" ELSE status[d]
  BY <1>0, <1>1 DEF TypesOK
<1>9. NothingNew /\ Forward
  <2>1. \A d \in Users : /\ status'[d] = "unregistered" <=> status[d] = "unregistered"
                         /\ status[d] = "done" => status'[d] = "done"
                         /\ status'[d] = "pending" => status[d] = "pending"
                         /\ status[d] = "running" => status'[d] \in {"running", "done"}
    BY <1>1, <1>8
  <2> QED BY <1>1, <2>1 DEF NothingNew, Forward
<1>10. Known' = Known
  BY <1>0, <1>9, KnownSame
<1>11. PromisesStay
  BY <1>0, <1>3, <1>5, <1>6, <1>7, <1>10, PromiseKept
<1>12. RegistersStay
  BY <1>0, <1>1, <1>3, <1>5, <1>6, RegistersKept
<1>13. NowInOrder
  <2>1. \A d \in Tasks : status'[d] = IF d = c THEN "done" ELSE status[d]
    BY <1>8, UsersRun
  <2> QED BY <1>1, <2>1 DEF NowInOrder
<1>14. DoneAliased
  <2>1. SUFFICES ASSUME NEW s \in Tasks, status'[s] = "done", status[s] # "done", use[s].establishes_alias
                 PROVE  /\ Promise(<<<<use[s].id, "alias_out">>, use[s].out>>, use[s].in)'
                        /\ Promise(<<<<use[s].id, "alias_anti_in">>, use[s].anti_in>>, use[s].anti_out)'
    BY DEF DoneAliased
  <2>2. s = c
    BY <1>8, <2>1, UsersRun
  <2>3. Present(c) /\ s # Main
    BY <1>1, <2>2, TaskKinds DEF Present
  <2>4. /\ GoodUse(u) /\ ~u.anti_dependency /\ kind[s] = "write"
    BY <1>0, <1>2, <2>1, <2>2, <2>3 DEF UsesOK, Present, Writes
  <2>5. u.anti_in = AntiOut(s) /\ u.anti_in # None
    BY <1>0, <1>2, <2>2, <2>3, <2>4, UnitNames, ZenonT(60), SMTT(30) DEF WritersHold
  <2>6. /\ u.in \in Flows /\ u.out \in Flows /\ u.anti_in \in Flows /\ u.anti_out \in Flows
        /\ <<u.id, "alias_out">> \in FlowUnits /\ <<u.id, "alias_anti_in">> \in FlowUnits
    BY <1>3 DEF Uses, FlowUnits
  <2>7. u.in[1][1] \in Known' /\ u.anti_out[1][1] \in Known'
    BY <1>0, <1>2, <1>10, <2>3, <2>4 DEF InKnown, GoodUse
  <2>8. PICK x, ax, e, ae :
            /\ x = <<<<u.id, "alias_out">>, u.out>>
            /\ ax = <<<<u.id, "alias_anti_in">>, u.anti_in>>
            /\ e = EnqueueDecrement(u.out, <<u.id, "alias_out">>)
            /\ ae = EnqueueDecrement(u.anti_in, <<u.id, "alias_anti_in">>)
    OBVIOUS
  <2>9. /\ e \in Payloads /\ OwedByOp(e) = {x} /\ ae \in Payloads /\ OwedByOp(ae) = {ax}
    BY <2>6, <2>8, DecrementOp
  <2>10. Has(X, Attach(u.in, e)) /\ Has(X, Attach(u.anti_out, ae))
    BY <1>2, <1>3, <1>4, <2>1, <2>2, <2>5, <2>8, ReleaseAliases
  <2>11. PICK i, ao : i = u.in /\ ao = u.anti_out
    OBVIOUS
  <2>12. Promise(x, i)' /\ Promise(ax, ao)'
    BY <1>0, <1>3, <1>5, <1>6, <2>6, <2>7, <2>9, <2>10, <2>11, PromiseOf
  <2>13. use'[s] = u /\ use[s] = u
    BY <1>1, <1>2, <2>2
  <2> QED BY <2>8, <2>11, <2>12, <2>13
<1> QED BY <1>9, <1>11, <1>12, <1>13, <1>14, QuietOrder

\* Nothing happens.
LEMMA StutterOrder == ASSUME Inv, OrderInv, UNCHANGED vars PROVE OrderInv'
<1>0. TypesOK
  BY DEF Inv
<1>1. /\ count' = count /\ actions' = actions /\ agenda' = agenda /\ status' = status
      /\ use' = use /\ captures' = captures /\ kind' = kind
  BY DEF vars
<1>2. NothingNew /\ Forward /\ RegistersStay /\ DoneAliased /\ NowInOrder
  BY <1>1 DEF NothingNew, Forward, RegistersStay, DoneAliased, NowInOrder
<1>3. PromisesStay
  <2>1. Known \subseteq Known'
    BY <1>0, <1>2, KnownSame
  <2> QED BY <1>1, <2>1, PromiseSame
<1> QED BY <1>2, <1>3, QuietOrder

-----------------------------------------------------------------------------
(* A capture, in order                                                      *)

\* How the use v that t is captured with, and what is left of the source u, are
\* linked to u.
Linked(u, t, k, v, left) ==
  /\ v.in = u.in /\ (v.anti_dependency <=> k # "read")
  /\ k # "read" => /\ v.out = Out(t) /\ v.anti_out = AntiOut(t)
                   /\ ~u.anti_dependency => v.anti_in = u.anti_out
  /\ IF k = "read" /\ ~u.anti_dependency
       THEN left = u /\ v.anti_out = u.anti_out
       ELSE /\ left.in = (IF k = "read" THEN u.in ELSE Out(t)) /\ left.out = u.out
            /\ left.anti_in = (IF u.anti_dependency THEN u.anti_out ELSE u.anti_in)
            /\ left.anti_out = v.anti_out
            /\ ~left.anti_dependency /\ left.establishes_alias

\* What goes on after v was captured from u.
LEMMA LeftUse ==
  ASSUME NEW u \in Uses, NEW v \in Uses, NEW t \in Tasks, NEW k \in {"read", "write"}
  PROVE  LET left == UseAfter(u, v, t, k)
         IN  /\ ~left.anti_dependency /\ left.establishes_alias
             /\ left.in = IF k = "read" THEN v.in ELSE v.out
             /\ left.out = u.out /\ left.anti_out = v.anti_out
             /\ left.anti_in = IF Modifying(u) THEN u.anti_out ELSE u.anti_in
<1> DEFINE id   == <<t, "continuing">>
           rels == ContinuingRels(u, v, k)
           w    == Registered(id, rels, FALSE)
           left == [w EXCEPT !.establishes_alias = TRUE]
           anti == IF Modifying(u) THEN u.anti_out ELSE u.anti_in
           in   == IF k = "read" THEN v.in ELSE v.out
<1>1. /\ w \in Uses /\ ~w.anti_dependency
      /\ w.out = u.out /\ w.anti_out = v.anti_out /\ w.in = in /\ w.anti_in = anti
  BY ContinuingUse, ZenonT(90)
<1> HIDE DEF w, anti, in
<1>2. /\ left.establishes_alias /\ left.anti_dependency = w.anti_dependency
      /\ left.out = w.out /\ left.anti_out = w.anti_out /\ left.in = w.in /\ left.anti_in = w.anti_in
  BY <1>1 DEF Uses
<1> HIDE DEF left
<1>3. /\ ~left.anti_dependency /\ left.establishes_alias
      /\ left.in = in /\ left.out = u.out /\ left.anti_out = v.anti_out /\ left.anti_in = anti
  BY <1>1, <1>2
<1>4. UseAfter(u, v, t, k) = left
  BY Zenon DEF UseAfter, left, w, rels, id
<1> QED BY <1>3, <1>4 DEF anti, in

\* What a capture leaves to the captured use and to the one that goes on.
LEMMA CaptureLinks ==
  ASSUME NEW u \in Uses, NEW t \in Tasks, NEW k \in {"read", "write"}
  PROVE  LET cap == Parts(u, t, k) IN Linked(u, t, k, cap.captured, cap.left)
<1> DEFINE id   == <<t, "captured">>
           crel == CapturedRels(u, k)
           v    == Registered(id, crel, k # "read")
           cid  == <<t, "continuing">>
           nrel == ContinuingRels(u, v, k)
           next == [Registered(cid, nrel, FALSE) EXCEPT !.establishes_alias = TRUE]
           cap  == Parts(u, t, k)
<1>1. /\ v \in Uses /\ v.in = u.in
      /\ (v.anti_dependency <=> k # "read")
      /\ v.out = IF k = "read" THEN None ELSE <<id, "out">>
      /\ v.anti_in = IF k = "read" THEN None
                     ELSE IF Modifying(u) THEN <<id, "anti_in">> ELSE u.anti_out
      /\ v.anti_out = IF k = "read" /\ ~Modifying(u) THEN u.anti_out ELSE <<id, "anti_out">>
  BY CapturedUse
<1>2. cap.captured = v
  BY DEF Parts
<1>3. cap.left = IF k = "read" /\ ~Modifying(u) THEN u ELSE next
  BY DEF Parts
<1>4. <<id, "out">> = Out(t) /\ <<id, "anti_out">> = AntiOut(t)
  BY DEF Out, AntiOut
<1>5. Modifying(u) <=> u.anti_dependency
  BY DEF Modifying
<1>0. v \in Uses
  BY <1>1
<1> HIDE DEF v, cap, id
<1>6. /\ ~next.anti_dependency /\ next.establishes_alias
      /\ next.in = (IF k = "read" THEN v.in ELSE v.out)
      /\ next.out = u.out /\ next.anti_out = v.anti_out
      /\ next.anti_in = (IF Modifying(u) THEN u.anti_out ELSE u.anti_in)
  <2>1. PICK x : x = v
    OBVIOUS
  <2>2. PICK y : y = UseAfter(u, x, t, k)
    OBVIOUS
  <2>3. x \in Uses
    BY <1>0, <2>1
  <2>4. /\ ~y.anti_dependency /\ y.establishes_alias
        /\ y.in = (IF k = "read" THEN x.in ELSE x.out)
        /\ y.out = u.out /\ y.anti_out = x.anti_out
        /\ y.anti_in = (IF Modifying(u) THEN u.anti_out ELSE u.anti_in)
    BY <2>2, <2>3, LeftUse
  <2>5. y = next
    BY <2>1, <2>2, Zenon DEF UseAfter
  <2> HIDE DEF next
  <2> QED BY <2>1, <2>4, <2>5
<1> HIDE DEF next
<1>7. SUFFICES Linked(u, t, k, v, cap.left)
  BY <1>2 DEF cap
<1>8. CASE k = "read" /\ ~u.anti_dependency
  <2>1. cap.left = u /\ v.anti_out = u.anti_out
    BY <1>1, <1>3, <1>5, <1>8
  <2> QED BY <1>1, <1>8, <2>1 DEF Linked
<1>9. CASE ~(k = "read" /\ ~u.anti_dependency)
  <2>1. cap.left = next
    BY <1>3, <1>5, <1>9
  <2>2. /\ next.in = (IF k = "read" THEN u.in ELSE Out(t)) /\ next.out = u.out
        /\ next.anti_in = (IF u.anti_dependency THEN u.anti_out ELSE u.anti_in)
        /\ next.anti_out = v.anti_out
    <3>1. k # "read" => v.out = Out(t)
      BY <1>1, <1>4
    <3> QED BY <1>1, <1>5, <1>6, <3>1
  <2>3. k # "read" => /\ v.out = Out(t) /\ v.anti_out = AntiOut(t)
                      /\ ~u.anti_dependency => v.anti_in = u.anti_out
    BY <1>1, <1>4, <1>5
  <2>4. ~next.anti_dependency /\ next.establishes_alias
    BY <1>6
  <2>5. v.in = u.in /\ (v.anti_dependency <=> k # "read")
    BY <1>1
  <2> QED BY <1>9, <2>1, <2>2, <2>3, <2>4, <2>5 DEF Linked
<1> QED BY <1>8, <1>9

\* What make_pending_task attaches.
LEMMA WaitsAttached ==
  ASSUME NEW t \in Tasks, NEW v \in Uses
  PROVE  /\ Has(MakePendingTask(t, v), Attach(v.in, Satisfy(t, <<v.id, "wait_in">>)))
         /\ v.anti_dependency =>
              Has(MakePendingTask(t, v), Attach(v.anti_in, Satisfy(t, <<v.id, "wait_anti_in">>)))
<1> DEFINE a == Attach(v.in, Satisfy(t, <<v.id, "wait_in">>))
           b == Attach(v.anti_in, Satisfy(t, <<v.id, "wait_anti_in">>))
           c == Satisfy(t, <<v.id, "setup">>)
           m == IF v.anti_dependency THEN <<b>> ELSE <<>>
<1>0. /\ <<v.id, "wait_in">> \in WaitUnits /\ <<v.id, "wait_anti_in">> \in WaitUnits
      /\ <<v.id, "setup">> \in WaitUnits /\ v.in \in Flows /\ v.anti_in \in Flows
  BY DEF Uses, WaitUnits
<1>1. a \in Ops /\ b \in Ops /\ c \in Ops
  BY <1>0, SatisfyOp, AttachOp
<1>2. MakePendingTask(t, v) = <<a>> \o m \o <<c>>
  BY DEF MakePendingTask
<1> HIDE DEF a, b, c
<1>3. <<a>> \in Seq(Ops) /\ m \in Seq(Ops) /\ <<c>> \in Seq(Ops)
  BY <1>1
<1>4. Has(<<a>>, a) /\ (v.anti_dependency => Has(m, b))
  <2>1. \A x : 1 \in DOMAIN <<x>> /\ <<x>>[1] = x
    OBVIOUS
  <2>2. \A x : Has(<<x>>, x)
    BY <2>1 DEF Has
  <2>3. v.anti_dependency => m = <<b>>
    OBVIOUS
  <2> QED BY <2>2, <2>3
<1> HIDE DEF m
<1>5. <<a>> \o m \in Seq(Ops) /\ Has(<<a>> \o m, a) /\ (v.anti_dependency => Has(<<a>> \o m, b))
  BY <1>3, <1>4, HasConcat, ConcatOps
<1>6. Has((<<a>> \o m) \o <<c>>, a) /\ (v.anti_dependency => Has((<<a>> \o m) \o <<c>>, b))
  BY <1>3, <1>5, HasConcat
<1> QED BY <1>2, <1>6 DEF a, b

\* What register_use attaches for an index.
LEMMA IndexAttached ==
  ASSUME NEW w \in Uses, NEW p \in Tasks
  PROVE  LET R == RegisterUse(<<p, "captured">>, IndexRels(w), TRUE)
         IN  /\ Has(R, Attach(Out(p), Decrement(w.out, UnitOf(p, "link_out"))))
             /\ Has(R, Attach(AntiOut(p), Decrement(w.anti_out, UnitOf(p, "link_anti_out"))))
             /\ w.anti_in # None =>
                  Has(R, Attach(w.anti_in, Decrement(UnitOf(p, "anti_in"), UnitOf(p, "anti_in"))))
<1> DEFINE id   == <<p, "captured">>
           rels == IndexRels(w)
           o1 == InFlowOps(id, rels.in)
           o2 == AntiInFlowOps(id, rels.anti_in, TRUE)
           o3 == OutFlowOps(id, rels.out)
           o4 == AntiOutFlowOps(id, rels.anti_out)
           i1 == Attach(w.in, Decrement(<<id, "in">>, <<id, "in">>))
           a2 == Attach(w.anti_in, Decrement(<<id, "anti_in">>, <<id, "anti_in">>))
           n3 == Increment(w.out, <<id, "link_out">>)
           a3 == Attach(<<id, "out">>, Decrement(w.out, <<id, "link_out">>))
           n4 == Increment(w.anti_out, <<id, "link_anti_out">>)
           a4 == Attach(<<id, "anti_out">>, Decrement(w.anti_out, <<id, "link_anti_out">>))
<1>a. id \in UseIds /\ p \in Users
  BY UsersRun, IdsOfUser
<1>0. /\ <<id, "link_out">> \in FlowUnits /\ <<id, "link_anti_out">> \in FlowUnits
      /\ <<id, "in">> \in FlowUnits /\ <<id, "anti_in">> \in FlowUnits
      /\ \A role \in Roles : <<id, role>> \in Flows
      /\ w.in \in Flows /\ w.out \in Flows /\ w.anti_in \in Flows /\ w.anti_out \in Flows
  <2> HIDE DEF id
  <2>1. w.in \in Flows /\ w.out \in Flows /\ w.anti_in \in Flows /\ w.anti_out \in Flows
    BY DEF Uses
  <2> QED BY <1>a, <2>1 DEF FlowUnits, Flows
<1>1. \A role \in Roles : rels[role] = Relationship("indexed_local", w[role])
  BY DEF IndexRels
<1>2. /\ rels.in.description = "indexed_local" /\ rels.in.related = w.in
      /\ rels.out.description = "indexed_local" /\ rels.out.related = w.out
      /\ rels.anti_in.description = "indexed_local" /\ rels.anti_in.related = w.anti_in
      /\ rels.anti_out.description = "indexed_local" /\ rels.anti_out.related = w.anti_out
  BY <1>1 DEF Relationship, Roles
<1>3. RegisterUse(id, rels, TRUE) = o1 \o o2 \o o3 \o o4
  BY DEF RegisterUse
<1> HIDE DEF rels
<1>4. /\ o1 = <<i1>> /\ (w.anti_in # None => o2 = <<a2>>) /\ (w.anti_in = None => o2 = <<>>)
      /\ o3 = <<n3, a3>> /\ o4 = <<n4, a4>>
  <2>1. o1 = <<i1>>
    BY <1>2 DEF InFlowOps, MakeReady
  <2>2. (w.anti_in # None => o2 = <<a2>>) /\ (w.anti_in = None => o2 = <<>>)
    BY <1>2 DEF AntiInFlowOps, MakeReady
  <2>3. o3 = <<n3, a3>>
    BY <1>2 DEF OutFlowOps
  <2>4. o4 = <<n4, a4>>
    BY <1>2 DEF AntiOutFlowOps
  <2> QED BY <2>1, <2>2, <2>3, <2>4
<1>5. i1 \in Ops /\ a2 \in Ops /\ n3 \in Ops /\ a3 \in Ops /\ n4 \in Ops /\ a4 \in Ops
  <2>1. <<id, "in">> \in Flows /\ <<id, "anti_in">> \in Flows /\ <<id, "out">> \in Flows /\ <<id, "anti_out">> \in Flows
    BY <1>0 DEF Roles
  <2> HIDE DEF id
  <2> QED BY <1>0, <2>1, DecrementOp, IncrementOp, AttachOp
<1>6. /\ a2 = Attach(w.anti_in, Decrement(UnitOf(p, "anti_in"), UnitOf(p, "anti_in")))
      /\ a3 = Attach(Out(p), Decrement(w.out, UnitOf(p, "link_out")))
      /\ a4 = Attach(AntiOut(p), Decrement(w.anti_out, UnitOf(p, "link_anti_out")))
  BY DEF UnitOf, Out, AntiOut
<1> HIDE DEF id, o1, o2, o3, o4, i1, a2, n3, a3, n4, a4
<1>7. /\ o1 \in Seq(Ops) /\ o2 \in Seq(Ops) /\ o3 \in Seq(Ops) /\ o4 \in Seq(Ops)
      /\ (w.anti_in # None => Has(o2, a2)) /\ Has(o3, a3) /\ Has(o4, a4)
  <2>1. o3 \in Seq(Ops) /\ o4 \in Seq(Ops) /\ o1 \in Seq(Ops) /\ o2 \in Seq(Ops)
    <3>1. o3 \in Seq(Ops) /\ o4 \in Seq(Ops)
      BY <1>4, <1>5, TwoOps
    <3>2. o1 \in Seq(Ops)
      BY <1>4, <1>5, SingleOps
    <3>3. o2 \in Seq(Ops)
      <4>1. <<a2>> \in Seq(Ops) /\ <<>> \in Seq(Ops)
        BY <1>5, SingleOps, NothingPut
      <4>2. o2 = <<a2>> \/ o2 = <<>>
        BY <1>4
      <4> QED BY <4>1, <4>2
    <3> QED BY <3>1, <3>2, <3>3
  <2>2. \A x : Has(<<x>>, x)
    <3>1. \A x : 1 \in DOMAIN <<x>> /\ <<x>>[1] = x
      OBVIOUS
    <3> QED BY <3>1 DEF Has
  <2>3. \A x, y : Has(<<x, y>>, y)
    <3>1. \A x, y : 2 \in DOMAIN <<x, y>> /\ <<x, y>>[2] = y
      OBVIOUS
    <3> QED BY <3>1 DEF Has
  <2> QED BY <1>4, <2>1, <2>2, <2>3
<1>8. o1 \o o2 \in Seq(Ops) /\ (w.anti_in # None => Has(o1 \o o2, a2))
  BY <1>7, HasConcat, ConcatOps
<1>9. o1 \o o2 \o o3 \in Seq(Ops) /\ (w.anti_in # None => Has(o1 \o o2 \o o3, a2))
      /\ Has(o1 \o o2 \o o3, a3)
  BY <1>7, <1>8, HasConcat, ConcatOps
<1>10. /\ (w.anti_in # None => Has(o1 \o o2 \o o3 \o o4, a2))
       /\ Has(o1 \o o2 \o o3 \o o4, a3) /\ Has(o1 \o o2 \o o3 \o o4, a4)
  BY <1>7, <1>9, HasConcat
<1> QED BY <1>3, <1>6, <1>10 DEF id, rels

\* One task more, which nothing is known of before; no use of a task that reads
\* changes.
Grown(t) ==
  /\ t \in Tasks /\ t \notin Known /\ Known' = Known \cup {t}
  /\ \A s \in Users : s # t => status'[s] = status[s]
  /\ \A s \in Tasks : s # t => kind'[s] = kind[s]
  /\ \A s \in Tasks : s # t /\ Present(s) /\ kind[s] = "read" => use'[s] = use[s]

\* Everybody else is what they were, and what leads to them still does.
LEMMA GrownOrder ==
  ASSUME FreshTasks, NEW t, Grown(t)
  PROVE  /\ t \in Users /\ ~Present(t) /\ ~IsCollection(t) /\ ~Writer(t) /\ ~Captured(t)
         /\ \A s \in Users : s # t => (Present(s)' <=> Present(s))
         /\ \A s \in Tasks : s # t => /\ IsCollection(s)' <=> IsCollection(s)
                                      /\ Writer(s)' <=> Writer(s)
                                      /\ Captured(s)' <=> Captured(s)
         /\ \A f : \A p \in Tasks : /\ InPast(f, p) => InPast(f, p)'
                                    /\ AntiPast(f, p) => AntiPast(f, p)'
         /\ \A p, q \in Tasks : p # t /\ q # t => (Order!Conflict(p, q)' <=> Order!Conflict(p, q))
<1>1. t \in Users /\ t \in Tasks /\ t \notin Known /\ Known' = Known \cup {t}
  BY UsersRun DEF Grown
<1>2. ~Present(t) /\ ~IsCollection(t) /\ ~Writer(t) /\ ~Captured(t)
  BY <1>1 DEF FreshTasks, Present, IsCollection, Writer, Captured
<1>3. \A s \in Users : s # t => (Present(s)' <=> Present(s))
  BY DEF Grown, Present
<1>4. ASSUME NEW s \in Tasks, s # t
      PROVE  /\ IsCollection(s)' <=> IsCollection(s)
             /\ Writer(s)' <=> Writer(s)
             /\ Captured(s)' <=> Captured(s)
  <2>1. Present(s)' <=> Present(s)
    BY <1>3, <1>4, UsersRun
  <2>2. IsCollection(s)' <=> IsCollection(s)
    BY <1>1, <1>4, <2>1 DEF IsCollection
  <2>3. kind'[s] = kind[s]
    BY <1>4 DEF Grown
  <2> QED BY <2>1, <2>2, <2>3 DEF Writer, Captured
<1>5. ASSUME NEW f, NEW p \in Tasks
      PROVE  (InPast(f, p) => InPast(f, p)') /\ (AntiPast(f, p) => AntiPast(f, p)')
  <2>1. \A v \in Tasks : Writer(v) => Writer(v)'
    BY <1>2, <1>4
  <2>2. \A v : Past(p, v) => Past(p, v)'
    BY DEF Past
  <2>3. InPast(f, p) => InPast(f, p)'
    BY <2>1, <2>2 DEF InPast
  <2>4. ASSUME Present(p), kind[p] = "read", use[p].anti_out = f
        PROVE  Present(p)' /\ kind'[p] = "read" /\ use'[p].anti_out = f
    <3>1. p # t /\ p \in Users
      BY <1>2, <2>4, UsersRun
    <3>2. use'[p] = use[p] /\ kind'[p] = kind[p]
      BY <2>4, <3>1 DEF Grown
    <3>3. Present(p)'
      BY <1>3, <2>4, <3>1
    <3> QED BY <2>4, <3>2, <3>3
  <2>5. AntiPast(f, p) => AntiPast(f, p)'
    BY <2>1, <2>2, <2>4 DEF AntiPast
  <2> QED BY <2>3, <2>5
<1>6. \A p, q \in Tasks : p # t /\ q # t => (Order!Conflict(p, q)' <=> Order!Conflict(p, q))
  BY DEF Grown, Order!Conflict
<1> QED BY <1>1, <1>2, <1>3, <1>4, <1>5, <1>6

\* Whoever is known was captured: a task of the top level by the main program, a
\* subtask of a plain handle by its task.
LEMMA KnownBounds ==
  ASSUME TypesOK, FreshTasks, NEW p \in Tasks, Captured(p)
  PROVE  /\ p[1] <= captures[Main] /\ captures[Main] \in Nat
         /\ p \in SubTasks /\ Indices = 0 => p[2] <= captures[<<p[1]>>]
<1>1. p \in Known
  BY DEF Captured, FreshTasks, Present, IsCollection
<1>2. captures[Main] \in Nat
  BY UsersRun DEF TypesOK
<1>3. CASE p \in TopTasks
  BY <1>1, <1>2, <1>3, TasksApart DEF Known
<1>4. CASE p \in SubTasks
  <2>1. <<p[1]>> \in Known /\ <<p[1]>> \in TopTasks /\ p \notin TopTasks /\ p # Main
    BY <1>1, <1>4, SubShape, TasksApart DEF FreshTasks
  <2>2. <<p[1]>>[1] = p[1]
    OBVIOUS
  <2>3. p[1] <= captures[Main]
    BY <2>1, <2>2, TasksApart DEF Known
  <2>4. Indices = 0 => p[2] <= captures[<<p[1]>>]
    BY <1>1, <2>1 DEF Known
  <2> QED BY <1>2, <2>3, <2>4
<1> QED BY <1>3, <1>4 DEF Tasks

\* A task of the top level that the main program has not come to is not there, nor are
\* its subtasks.
LEMMA NotYet ==
  ASSUME TypesOK, FreshTasks, NEW q \in Tasks, ~(q[1] <= captures[Main])
  PROVE  status[q] = "unregistered"
<1>1. SUFFICES ASSUME Present(q) PROVE FALSE
  BY DEF Present
<1>2. Captured(q)
  BY <1>1 DEF Captured
<1> QED BY <1>2, KnownBounds

\* The tasks that c has captured come before the next.
LEMMA SiblingsBefore ==
  ASSUME TypesOK, FreshTasks, NEW c \in {Main} \cup TopTasks, CanCapture(c),
         NEW t, t = Append(c, captures[c] + 1), NEW p \in Tasks, Captured(p), Parent(p) = c
  PROVE  Order!Before(p, t)
<1>1. /\ t \in Tasks /\ c \in Users
      /\ c = Main => t \in TopTasks /\ t = <<captures[Main] + 1>>
      /\ c # Main => Indices = 0 /\ t \in SubTasks /\ t = <<c[1], captures[c] + 1>> /\ c = <<c[1]>>
      /\ captures[c] \in Nat
  BY NewTask
<1>2. p[1] \in Nat
  BY TaskKinds
<1>3. CASE c = Main
  <2>1. t[1] = captures[Main] + 1
    BY <1>1, <1>3
  <2>2. p[1] <= captures[Main] /\ captures[Main] \in Nat
    BY KnownBounds
  <2>3. p[1] < t[1]
    BY <1>2, <2>1, <2>2
  <2> QED BY <1>1, <2>3, BeforeIs
<1>4. CASE c # Main
  <2>1. c \in Tasks /\ t[1] = c[1] /\ t[2] = captures[c] + 1 /\ t \in SubTasks /\ Indices = 0
    <3>1. t[1] = c[1] /\ t[2] = captures[c] + 1
      BY <1>1, <1>4
    <3> QED BY <1>1, <1>4, <3>1 DEF Tasks
  <2>2. p \in SubTasks /\ p[1] = c[1] /\ p[2] \in Nat
    BY <2>1, TaskKinds
  <2>3. p[2] <= captures[c]
    <3>1. <<p[1]>> = c
      BY <1>1, <1>4, <2>2
    <3> QED BY <2>1, <2>2, <3>1, KnownBounds
  <2>4. p[2] < t[2]
    <3>1. PICK n, m, j : n = captures[c] /\ m = p[2] /\ j = t[2]
      OBVIOUS
    <3>2. n \in Nat /\ m \in Nat /\ j = n + 1 /\ m <= n
      BY <1>1, <2>1, <2>2, <2>3, <3>1
    <3>3. m < j
      BY <3>2
    <3> QED BY <3>1, <3>3
  <2> QED BY <1>1, <2>1, <2>2, <2>4, BeforeIs
<1> QED BY <1>3, <1>4

\* Nothing that comes after the next task that c captures is ready yet.
LEMMA LaterUnstarted ==
  ASSUME Inv, OrderInv, NEW c \in {Main} \cup TopTasks, CanCapture(c),
         NEW t, t = Append(c, captures[c] + 1), NEW q \in Tasks, Order!Before(t, q)
  PROVE  status[q] \notin {"ready", "running", "done"}
<1>0. TypesOK /\ FreshTasks /\ ReadyInOrder
  BY DEF Inv, OrderInv
<1>1. /\ t \in Tasks /\ c \in Users
      /\ c = Main => t \in TopTasks /\ t = <<captures[Main] + 1>>
      /\ c # Main => Indices = 0 /\ t \in SubTasks /\ t = <<c[1], captures[c] + 1>> /\ c = <<c[1]>>
      /\ captures[c] \in Nat
  BY <1>0, NewTask
<1>2. q[1] \in Nat /\ (q \in SubTasks => q[2] \in Nat)
  BY TaskKinds
<1>3. CASE c = Main
  <2>1. t[1] = captures[Main] + 1 /\ t \notin SubTasks
    BY <1>1, <1>3, TasksApart
  <2>2. t[1] < q[1]
    BY <1>1, <2>1, BeforeIs
  <2>3. ~(q[1] <= captures[Main])
    BY <1>1, <1>2, <1>3, <2>1, <2>2
  <2> QED BY <1>0, <2>3, NotYet
<1>4. CASE c # Main
  <2>1. c \in Tasks /\ c \in TopTasks /\ t[1] = c[1] /\ t[2] = captures[c] + 1 /\ t \in SubTasks /\ Indices = 0
    <3>1. t[1] = c[1] /\ t[2] = captures[c] + 1
      BY <1>1, <1>4
    <3> QED BY <1>1, <1>4, <3>1 DEF Tasks
  <2>2. CASE t[1] < q[1]
    <3>1. Order!Before(c, q)
      BY <2>1, <2>2, BeforeIs
    <3>2. kind[c] = "write" /\ status[c] = "running"
      BY <1>4 DEF CanCapture
    <3>3. Order!Conflict(c, q) /\ Present(c)
      BY <3>2 DEF Order!Conflict, Present
    <3>4. SUFFICES ASSUME status[q] \in {"ready", "running", "done"} PROVE FALSE
      OBVIOUS
    <3>5. status[c] = "done"
      BY <1>0, <2>1, <3>1, <3>3, <3>4 DEF ReadyInOrder
    <3> QED BY <3>2, <3>5
  <2>3. CASE q \in SubTasks /\ t[1] = q[1] /\ t[2] < q[2]
    <3>1. SUFFICES ASSUME status[q] \in {"ready", "running", "done"} PROVE FALSE
      OBVIOUS
    <3>2. Captured(q)
      BY <3>1 DEF Captured, Present
    <3>3. <<q[1]>> = c
      BY <1>1, <1>4, <2>1, <2>3
    <3>4. q[2] <= captures[c]
      BY <1>0, <2>1, <2>3, <3>2, <3>3, KnownBounds
    <3>5. PICK n, m, j : n = captures[c] /\ m = q[2] /\ j = t[2]
      OBVIOUS
    <3>6. n \in Nat /\ m \in Nat /\ j = n + 1 /\ m <= n /\ j < m
      BY <1>1, <1>2, <2>1, <2>3, <3>4, <3>5
    <3> QED BY <3>6
  <2> QED BY <1>1, <2>2, <2>3, BeforeIs
<1> QED BY <1>3, <1>4

\* c captures t with the use v, and left is what it goes on with.
CaptureStep(c, t, k, v, left) ==
  /\ c \in {Main} \cup TopTasks /\ CanCapture(c) /\ t = Append(c, captures[c] + 1)
  /\ k \in {"read", "write"} /\ Linked(use[c], t, k, v, left)
  /\ use'[c] = left /\ \A d \in Users : d # c /\ d # t => use'[d] = use[d]
  /\ Grown(t) /\ PromisesStay
  /\ Captured(t)' /\ (Writer(t)' <=> k = "write")
  /\ status'[t] \in {"unregistered", "pending"}
  /\ Present(t)' => use'[t] = v /\ kind'[t] = k

\* Who they are.
LEMMA CaptureFacts ==
  ASSUME Inv, NEW c, NEW t, NEW k, NEW v, NEW left, CaptureStep(c, t, k, v, left)
  PROVE  /\ TypesOK /\ FreshTasks
         /\ c \in Users /\ t \in Tasks /\ t \in Users /\ t # c /\ t # Main /\ Parent(t) = c
         /\ c # Main => c \in Tasks /\ kind[c] = "write" /\ kind'[c] = "write"
         /\ status[c] = "running" /\ status'[c] = "running" /\ Present(c) /\ Present(c)'
         /\ Writes(c) /\ agenda[c] = <<>> /\ t \notin Known /\ Known' = Known \cup {t}
<1>1. TypesOK /\ FreshTasks
  BY DEF Inv
<1>2. /\ c \in {Main} \cup TopTasks /\ CanCapture(c) /\ t = Append(c, captures[c] + 1) /\ Grown(t)
  BY DEF CaptureStep
<1>3. /\ t \in Tasks /\ t \in Users /\ c \in Users /\ t # c /\ t # Main /\ Parent(t) = c
  BY <1>1, <1>2, NewTask
<1>4. c # Main => c \in Tasks
  BY <1>2 DEF Tasks
<1>5. status[c] = "running" /\ (c # Main => kind[c] = "write") /\ agenda[c] = <<>>
  BY <1>2 DEF CanCapture
<1>6. status'[c] = "running" /\ (c # Main => kind'[c] = "write")
  BY <1>2, <1>3, <1>4, <1>5 DEF Grown
<1> QED BY <1>1, <1>2, <1>3, <1>4, <1>5, <1>6 DEF Present, Writes, Grown

\* Nobody has captured from a use that may modify.
LEMMA NoneBefore ==
  ASSUME OrderInv, NEW c \in Users, Present(c), Writes(c), use[c].anti_dependency,
         NEW p \in Tasks, Captured(p), Parent(p) = c
  PROVE  FALSE
<1>1. WritersHold
  BY DEF OrderInv
<1>2. c # Main
  BY <1>1 DEF WritersHold
<1>3. c \in Tasks /\ kind[c] = "write"
  BY <1>2 DEF Users, Writes
<1>4. p \in SubTasks /\ p \notin TopTasks
  BY <1>3, TaskKinds
<1>5. Present(p)
  BY <1>4 DEF Captured, IsCollection
<1> QED BY <1>1, <1>3, <1>4, <1>5 DEF WritersHold

\* A new task has no subtasks.
LEMMA NoSubtasks ==
  ASSUME FreshTasks, NEW t, Grown(t), NEW p \in Tasks, Captured(p)' \/ Present(p)', Parent(p) = t
  PROVE  FALSE
<1>1. t \in Tasks /\ t \notin Known
  BY DEF Grown
<1>2. p \in SubTasks /\ t \in TopTasks /\ p \notin TopTasks /\ <<p[1]>> = t
  <2>1. p \in SubTasks /\ t \in TopTasks /\ p[1] = t[1]
    BY <1>1, TaskKinds
  <2> QED BY <2>1, TasksApart
<1>3. p # t /\ ~Present(p)
  <2>1. p \notin Known
    BY <1>1, <1>2 DEF FreshTasks
  <2> QED BY <1>2, <2>1 DEF FreshTasks, Present
<1>4. Present(p)'
  BY <1>2 DEF Captured, IsCollection
<1> QED BY <1>3, <1>4, UsersRun, GrownOrder

\* What is captured to be modified holds up the flows made for it.
LEMMA CaptureWriters ==
  ASSUME Inv, OrderInv, NEW c, NEW t, NEW k, NEW v, NEW left, CaptureStep(c, t, k, v, left)
  PROVE  WritersHold'
<1>0. WritersHold
  BY DEF OrderInv
<1>1. /\ TypesOK /\ FreshTasks
      /\ c \in Users /\ t \in Tasks /\ t \in Users /\ t # c /\ t # Main /\ Parent(t) = c
      /\ c # Main => c \in Tasks /\ kind[c] = "write" /\ kind'[c] = "write"
      /\ Present(c) /\ Writes(c)
  BY CaptureFacts
<1>2. PICK u : u = use[c]
  OBVIOUS
<1>3. /\ Linked(u, t, k, v, left) /\ k \in {"read", "write"}
      /\ use'[c] = left /\ \A d \in Users : d # c /\ d # t => use'[d] = use[d]
      /\ Grown(t) /\ (Present(t)' => use'[t] = v /\ kind'[t] = k)
  BY <1>2 DEF CaptureStep
<1>4. IF k = "read" /\ ~u.anti_dependency THEN left = u
      ELSE /\ left.in = (IF k = "read" THEN u.in ELSE Out(t)) /\ left.out = u.out
           /\ left.anti_in = (IF u.anti_dependency THEN u.anti_out ELSE u.anti_in)
           /\ ~left.anti_dependency /\ left.establishes_alias
  BY <1>3 DEF Linked
<1>5. ~left.anti_dependency
  BY <1>3, <1>4
<1>6. ~use'[Main].anti_dependency
  <2>1. CASE c = Main
    BY <1>3, <1>5, <2>1
  <2>2. CASE c # Main
    <3>1. use'[Main] = use[Main]
      BY <1>1, <1>3, <2>2, UsersRun
    <3> QED BY <1>0, <3>1 DEF WritersHold
  <2> QED BY <2>1, <2>2
<1>7. ASSUME NEW s \in Tasks, Present(s)', kind'[s] = "write"
      PROVE  /\ use'[s].out = Out(s)
             /\ IF use'[s].anti_dependency
                  THEN use'[s].anti_out = AntiOut(s) /\ \A p \in SubTasks : Present(p)' => Parent(p) # s
                  ELSE use'[s].anti_in = AntiOut(s) /\ use'[s].establishes_alias
  <2>1. CASE s = t
    <3>1. use'[s] = v /\ k = "write"
      BY <1>3, <1>7, <2>1
    <3>2. v.anti_dependency /\ v.out = Out(t) /\ v.anti_out = AntiOut(t)
      BY <1>3, <3>1 DEF Linked
    <3>3. \A p \in SubTasks : Present(p)' => Parent(p) # t
      BY <1>1, <1>3, NoSubtasks DEF Tasks
    <3> QED BY <2>1, <3>1, <3>2, <3>3
  <2>2. CASE s = c
    <3>1. use'[s] = left /\ kind[s] = "write" /\ Present(s) /\ use[s] = u
      <4>1. s # Main
        BY TaskKinds
      <4> QED BY <1>1, <1>2, <1>3, <2>2, <4>1
    <3>2. /\ u.out = Out(s)
          /\ u.anti_dependency => u.anti_out = AntiOut(s)
          /\ ~u.anti_dependency => u.anti_in = AntiOut(s) /\ u.establishes_alias
      BY <1>0, <3>1 DEF WritersHold
    <3>3. left.out = Out(s) /\ left.anti_in = AntiOut(s) /\ left.establishes_alias
      BY <1>4, <3>2
    <3> QED BY <1>5, <3>1, <3>3
  <2>3. CASE s # t /\ s # c
    <3>1. s \in Users /\ kind[s] = "write" /\ Present(s) /\ use'[s] = use[s]
      <4>1. s \in Users
        BY UsersRun
      <4>2. Present(s)
        BY <1>1, <1>3, <1>7, <2>3, <4>1, GrownOrder
      <4> QED BY <1>3, <1>7, <2>3, <4>1, <4>2 DEF Grown
    <3>2. /\ use[s].out = Out(s)
          /\ use[s].anti_dependency =>
               use[s].anti_out = AntiOut(s) /\ \A p \in SubTasks : Present(p) => Parent(p) # s
          /\ ~use[s].anti_dependency => use[s].anti_in = AntiOut(s) /\ use[s].establishes_alias
      BY <1>0, <3>1 DEF WritersHold
    <3>3. \A p \in SubTasks : Present(p)' /\ Parent(p) = s => Present(p)
      <4>1. \A p \in SubTasks : p \in Users
        BY UsersRun DEF Tasks
      <4> QED BY <1>1, <1>3, <2>3, <4>1, GrownOrder
    <3> QED BY <3>1, <3>2, <3>3
  <2> QED BY <2>1, <2>2, <2>3
<1> QED BY <1>6, <1>7 DEF WritersHold, Parent, Out, AntiOut

\* The indices that are registered go on as before.
LEMMA CaptureIndices ==
  ASSUME Inv, OrderInv, NEW c, NEW t, NEW k, NEW v, NEW left, CaptureStep(c, t, k, v, left)
  PROVE  IndexUses'
<1>0. IndexUses
  BY DEF OrderInv
<1>1. /\ TypesOK /\ FreshTasks
      /\ c \in Users /\ t \in Tasks /\ t \in Users /\ t # c /\ t # Main /\ Parent(t) = c
      /\ c # Main => c \in Tasks /\ kind[c] = "write" /\ kind'[c] = "write"
      /\ Present(c) /\ Writes(c)
  BY CaptureFacts
<1>3. /\ k \in {"read", "write"}
      /\ \A d \in Users : d # c /\ d # t => use'[d] = use[d]
      /\ Grown(t) /\ (Present(t)' => kind'[t] = k)
      /\ c \in {Main} \cup TopTasks /\ CanCapture(c) /\ t = Append(c, captures[c] + 1)
  BY DEF CaptureStep
<1>p. \A x, g : Promise(x, g) => Promise(x, g)'
  BY DEF CaptureStep, PromisesStay
<1>s. /\ \A s \in Tasks : s # t => (Captured(s)' <=> Captured(s))
      /\ \A f : \A p \in Tasks : AntiPast(f, p) => AntiPast(f, p)'
  BY <1>1, <1>3, GrownOrder
<1>4. SUFFICES ASSUME NEW q \in SubTasks, Present(q)', kind'[q] = "index"
      PROVE  /\ use'[q].anti_dependency
             /\ use'[q].out = Out(q) /\ use'[q].anti_out = AntiOut(q)
             /\ use'[q].anti_in = UnitOf(q, "anti_in")
             /\ Promise(<<UnitOf(q, "link_out"), Out(<<q[1]>>)>>, Out(q))'
             /\ Promise(<<UnitOf(q, "link_anti_out"), AntiOut(<<q[1]>>)>>, AntiOut(q))'
             /\ status'[q] = "pending" => \E g \in Flows :
                  /\ Promise(<<UnitOf(q, "anti_in"), use[q].anti_in>>, g)'
                  /\ \A p \in TopTasks : Captured(p)' /\ p[1] < q[1] => AntiPast(g, p)'
  BY DEF IndexUses
<1>5. q \in Tasks /\ q \in Users /\ q # t
  <2>1. q \in Tasks /\ q \in Users
    BY UsersRun DEF Tasks
  <2>2. q # t
    BY <1>3, <1>4
  <2> QED BY <2>1, <2>2
<1>6. Present(q) /\ kind[q] = "index" /\ status'[q] = status[q]
  <2>1. kind'[q] = kind[q] /\ status'[q] = status[q]
    BY <1>3, <1>5 DEF Grown
  <2> QED BY <1>4, <2>1 DEF Present
<1>7. q # c
  BY <1>1, <1>6, <1>5, TaskKinds
<1>8. use'[q] = use[q]
  BY <1>3, <1>5, <1>7
<1>9. /\ use[q].anti_dependency
      /\ use[q].out = Out(q) /\ use[q].anti_out = AntiOut(q)
      /\ use[q].anti_in = UnitOf(q, "anti_in")
  BY <1>0, <1>6 DEF IndexUses
<1>10. /\ Promise(<<UnitOf(q, "link_out"), Out(<<q[1]>>)>>, Out(q))
       /\ Promise(<<UnitOf(q, "link_anti_out"), AntiOut(<<q[1]>>)>>, AntiOut(q))
  BY <1>0, <1>6 DEF IndexUses
<1>11. /\ Promise(<<UnitOf(q, "link_out"), Out(<<q[1]>>)>>, Out(q))'
       /\ Promise(<<UnitOf(q, "link_anti_out"), AntiOut(<<q[1]>>)>>, AntiOut(q))'
  BY <1>p, <1>10
<1>12. ASSUME status'[q] = "pending"
       PROVE  \E g \in Flows :
                  /\ Promise(<<UnitOf(q, "anti_in"), use[q].anti_in>>, g)'
                  /\ \A p \in TopTasks : Captured(p)' /\ p[1] < q[1] => AntiPast(g, p)'
  <2>1. PICK g \in Flows :
                  /\ Promise(<<UnitOf(q, "anti_in"), use[q].anti_in>>, g)
                  /\ \A p \in TopTasks : Captured(p) /\ p[1] < q[1] => AntiPast(g, p)
    BY <1>0, <1>6, <1>12 DEF IndexUses
  <2>2. PICK ai : ai = use[q].anti_in
    OBVIOUS
  <2>3. Promise(<<UnitOf(q, "anti_in"), ai>>, g)'
    BY <1>p, <2>1, <2>2
  <2>4. use'[q].anti_in = ai
    BY <1>8, <2>2
  <2>5. ASSUME NEW p \in TopTasks, Captured(p)', p[1] < q[1] PROVE AntiPast(g, p)'
    <3>1. p \in Tasks
      BY TaskKinds DEF Tasks
    <3>2. p # t
      <4>1. SUFFICES ASSUME p = t PROVE FALSE
        OBVIOUS
      <4>2. c = Main
        BY <1>1, <2>5, <4>1, TopShape
      <4>3. t = <<captures[Main] + 1>>
        BY <1>1, <1>3, <4>2, NewTask
      <4>4. t[1] = captures[Main] + 1
        BY <4>3
      <4>5. q[1] <= captures[Main] /\ captures[Main] \in Nat /\ q[1] \in Nat
        BY <1>1, <1>5, <1>6, KnownBounds, TaskKinds DEF Captured
      <4> QED BY <2>5, <4>1, <4>4, <4>5
    <3>3. Captured(p)
      BY <1>s, <2>5, <3>1, <3>2
    <3>4. AntiPast(g, p)
      BY <2>1, <2>5, <3>3
    <3> QED BY <1>s, <3>1, <3>4
  <2> QED BY <2>3, <2>4, <2>5
<1>13. /\ use'[q].anti_dependency
       /\ use'[q].out = Out(q) /\ use'[q].anti_out = AntiOut(q)
       /\ use'[q].anti_in = UnitOf(q, "anti_in")
  BY <1>8, <1>9
<1> QED BY <1>11, <1>12, <1>13

\* What goes on from the capture waits for what was captured, as well as for all before.
LEMMA CaptureScopes ==
  ASSUME Inv, OrderInv, NEW c, NEW t, NEW k, NEW v, NEW left, CaptureStep(c, t, k, v, left)
  PROVE  ScopesCover'
<1>0. ScopesCover
  BY DEF OrderInv
<1>1. /\ TypesOK /\ FreshTasks
      /\ c \in Users /\ t \in Tasks /\ t \in Users /\ t # c /\ t # Main /\ Parent(t) = c
      /\ Present(c) /\ Writes(c)
  BY CaptureFacts
<1>2. PICK u : u = use[c]
  OBVIOUS
<1>3. /\ Linked(u, t, k, v, left) /\ k \in {"read", "write"}
      /\ use'[c] = left /\ \A d \in Users : d # c /\ d # t => use'[d] = use[d]
      /\ Grown(t) /\ (Present(t)' => use'[t] = v /\ kind'[t] = k)
      /\ Captured(t)' /\ (Writer(t)' <=> k = "write")
      /\ c \in {Main} \cup TopTasks /\ CanCapture(c) /\ t = Append(c, captures[c] + 1)
  BY <1>2 DEF CaptureStep
<1>s. /\ \A s \in Users : s # t => (Present(s)' <=> Present(s))
      /\ \A s \in Tasks : s # t => /\ Writer(s)' <=> Writer(s)
                                   /\ Captured(s)' <=> Captured(s)
      /\ \A f : \A p \in Tasks : /\ InPast(f, p) => InPast(f, p)'
                                 /\ AntiPast(f, p) => AntiPast(f, p)'
  BY <1>1, <1>3, GrownOrder
<1>4. SUFFICES ASSUME NEW d \in Users, Present(d)', Writes(d)', NEW p \in Tasks, Captured(p)', Parent(p) = d
               PROVE  (Writer(p)' => InPast(use[d].in, p)') /\ AntiPast(use[d].anti_out, p)'
  BY DEF ScopesCover, Parent
<1>5. d # t
  BY <1>1, <1>3, <1>4, NoSubtasks
<1>6. CASE d = c
  <2>1. /\ k = "write" => left.in = Out(t) /\ left.anti_out = AntiOut(t)
        /\ left.anti_out = v.anti_out
        /\ k = "read" /\ ~u.anti_dependency => left = u
    <3>1. CASE k = "read" /\ ~u.anti_dependency
      BY <1>3, <3>1 DEF Linked
    <3>2. CASE ~(k = "read" /\ ~u.anti_dependency)
      BY <1>3, <3>2 DEF Linked
    <3> QED BY <3>1, <3>2
  <2>2. PICK i, ao : i = left.in /\ ao = left.anti_out
    OBVIOUS
  <2>3. use'[d].in = i /\ use'[d].anti_out = ao
    BY <1>3, <1>6, <2>2
  <2>4. SUFFICES (Writer(p)' => InPast(i, p)') /\ AntiPast(ao, p)'
    BY <2>3
  <2>5. CASE k = "write"
    <3>1. i = Out(t) /\ ao = AntiOut(t) /\ Writer(t)'
      BY <1>3, <2>1, <2>2, <2>5
    <3>2. Past(p, t)
      <4>1. CASE p = t
        BY <4>1 DEF Past
      <4>2. CASE p # t
        <5>1. Captured(p)
          BY <1>4, <1>s, <4>2
        <5> QED BY <1>1, <1>3, <1>4, <1>6, <5>1, SiblingsBefore DEF Past
      <4> QED BY <4>1, <4>2
    <3>3. InPast(i, p)' /\ AntiPast(ao, p)'
      BY <1>1, <3>1, <3>2 DEF InPast, AntiPast, Past, Out, AntiOut
    <3> QED BY <3>3
  <2>6. CASE k = "read" /\ p = t
    <3>1. ~Writer(t)' /\ Present(t)'
      BY <1>3, <2>6 DEF Captured, Writer
    <3>2. use'[t] = v /\ kind'[t] = "read"
      BY <1>3, <2>6, <3>1
    <3>3. use'[t].anti_out = ao
      BY <2>1, <2>2, <3>2
    <3>4. AntiPast(ao, t)'
      BY <3>1, <3>2, <3>3 DEF AntiPast
    <3> QED BY <2>6, <3>1, <3>4
  <2>7. CASE k = "read" /\ p # t
    <3>1. Captured(p) /\ (Writer(p)' <=> Writer(p))
      BY <1>4, <1>s, <2>7
    <3>2. ~u.anti_dependency
      BY <1>1, <1>2, <1>4, <1>6, <3>1, NoneBefore
    <3>3. left = u
      BY <2>1, <2>7, <3>2
    <3>4. (Writer(p) => InPast(i, p)) /\ AntiPast(ao, p)
      BY <1>0, <1>1, <1>2, <1>4, <1>6, <2>2, <3>1, <3>3 DEF ScopesCover
    <3> QED BY <1>s, <3>1, <3>4
  <2> QED BY <1>3, <2>5, <2>6, <2>7
<1>7. CASE d # c
  <2>1. Present(d) /\ use'[d] = use[d]
    BY <1>3, <1>4, <1>5, <1>7, <1>s
  <2>2. Writes(d)
    <3>1. d # Main => d \in Tasks /\ kind'[d] = kind[d]
      BY <1>3, <1>5 DEF Users, Grown
    <3> QED BY <1>4, <3>1 DEF Writes
  <2>3. p # t
    BY <1>1, <1>4, <1>7
  <2>4. Captured(p) /\ (Writer(p)' <=> Writer(p))
    BY <1>4, <1>s, <2>3
  <2>5. PICK i, ao : i = use[d].in /\ ao = use[d].anti_out
    OBVIOUS
  <2>6. use'[d].in = i /\ use'[d].anti_out = ao
    BY <2>1, <2>5
  <2>7. (Writer(p) => InPast(i, p)) /\ AntiPast(ao, p)
    BY <1>0, <1>4, <2>1, <2>2, <2>4, <2>5 DEF ScopesCover
  <2>8. (Writer(p)' => InPast(i, p)') /\ AntiPast(ao, p)'
    BY <1>s, <2>4, <2>7
  <2> QED BY <2>6, <2>8
<1> QED BY <1>6, <1>7

\* What is captured waits for all that was captured before it from the same use.
LEMMA CaptureWaits ==
  ASSUME Inv, OrderInv, NEW c, NEW t, NEW k, NEW v, NEW left, CaptureStep(c, t, k, v, left),
         Present(t)' => /\ Promise(<<UnitOf(t, "wait_in"), t>>, v.in)'
                        /\ v.anti_dependency => Promise(<<UnitOf(t, "wait_anti_in"), t>>, v.anti_in)'
  PROVE  WaitsCover'
<1>0. WaitsCover /\ ScopesCover
  BY DEF OrderInv
<1>1. /\ TypesOK /\ FreshTasks
      /\ c \in Users /\ t \in Tasks /\ t \in Users /\ t # c /\ t # Main /\ Parent(t) = c
      /\ Present(c) /\ Writes(c) /\ status[c] = "running"
  BY CaptureFacts
<1>2. PICK u : u = use[c]
  OBVIOUS
<1>3. /\ Linked(u, t, k, v, left) /\ k \in {"read", "write"}
      /\ \A d \in Users : d # c /\ d # t => use'[d] = use[d]
      /\ Grown(t) /\ (Present(t)' => use'[t] = v /\ kind'[t] = k)
      /\ c \in {Main} \cup TopTasks /\ CanCapture(c) /\ t = Append(c, captures[c] + 1)
  BY <1>2 DEF CaptureStep
<1>p. \A x, g : Promise(x, g) => Promise(x, g)'
  BY DEF CaptureStep, PromisesStay
<1>s. /\ \A s \in Tasks : s # t => /\ Writer(s)' <=> Writer(s)
                                   /\ Captured(s)' <=> Captured(s)
      /\ \A f : \A p \in Tasks : /\ InPast(f, p) => InPast(f, p)'
                                 /\ AntiPast(f, p) => AntiPast(f, p)'
  BY <1>1, <1>3, GrownOrder
<1>4. SUFFICES ASSUME NEW s \in Tasks, status'[s] = "pending"
        PROVE  /\ Promise(<<UnitOf(s, "wait_in"), s>>, use[s].in)'
               /\ use'[s].anti_dependency => Promise(<<UnitOf(s, "wait_anti_in"), s>>, use[s].anti_in)'
               /\ kind'[s] # "read" => use'[s].anti_dependency
               /\ \A p \in Tasks : Captured(p)' /\ Parent(p) = Parent(s) /\ Order!Before(p, s) =>
                    /\ kind'[s] = "read" /\ Writer(p)' => InPast(use[s].in, p)'
                    /\ kind'[s] = "write" => AntiPast(use[s].anti_in, p)'
  BY DEF WaitsCover, Parent
<1>5. CASE s = t
  <2>1. Present(t)' /\ use'[t] = v /\ kind'[t] = k
    <3>1. Present(t)'
      BY <1>4, <1>5 DEF Present
    <3> QED BY <1>3, <3>1
  <2>2. PICK i, ai : i = v.in /\ ai = v.anti_in
    OBVIOUS
  <2>3. use'[s].in = i /\ use'[s].anti_in = ai
    BY <1>5, <2>1, <2>2
  <2>4. v.in = u.in /\ (v.anti_dependency <=> k # "read")
        /\ (k = "write" /\ ~u.anti_dependency => v.anti_in = u.anti_out)
    BY <1>3 DEF Linked
  <2>5. Promise(<<UnitOf(t, "wait_in"), t>>, i)'
    BY <2>1, <2>2
  <2>6. v.anti_dependency => Promise(<<UnitOf(t, "wait_anti_in"), t>>, ai)'
    BY <2>1, <2>2
  <2>7. kind'[s] # "read" => use'[s].anti_dependency
    BY <1>5, <2>1, <2>4
  <2>8. ASSUME NEW p \in Tasks, Captured(p)', Parent(p) = Parent(s), Order!Before(p, s)
        PROVE  /\ k = "read" /\ Writer(p)' => InPast(i, p)'
               /\ k = "write" => AntiPast(ai, p)'
    <3>1. p # t /\ Parent(p) = c
      BY <1>1, <1>5, <2>8, BeforeOnce
    <3>2. Captured(p) /\ (Writer(p)' <=> Writer(p))
      BY <1>s, <2>8, <3>1
    <3>3. ~u.anti_dependency
      BY <1>1, <1>2, <3>1, <3>2, NoneBefore
    <3>4. (Writer(p) => InPast(u.in, p)) /\ AntiPast(u.anti_out, p)
      BY <1>0, <1>1, <1>2, <3>1, <3>2 DEF ScopesCover
    <3>5. i = u.in /\ (k = "write" => ai = u.anti_out)
      BY <2>2, <2>4, <3>3
    <3>6. (Writer(p) => InPast(i, p)) /\ (k = "write" => AntiPast(ai, p))
      BY <3>4, <3>5
    <3> QED BY <1>s, <3>2, <3>6
  <2>9. use'[s].anti_dependency <=> v.anti_dependency
    BY <1>5, <2>1
  <2>10. \A p \in Tasks : Captured(p)' /\ Parent(p) = Parent(s) /\ Order!Before(p, s) =>
                    /\ kind'[s] = "read" /\ Writer(p)' => InPast(use[s].in, p)'
                    /\ kind'[s] = "write" => AntiPast(use[s].anti_in, p)'
    BY <1>5, <2>1, <2>3, <2>8
  <2>11. Promise(<<UnitOf(s, "wait_in"), s>>, use[s].in)'
    BY <1>5, <2>3, <2>5
  <2>12. use'[s].anti_dependency => Promise(<<UnitOf(s, "wait_anti_in"), s>>, use[s].anti_in)'
    BY <1>5, <2>3, <2>6, <2>9
  <2> QED BY <2>7, <2>10, <2>11, <2>12
<1>6. CASE s # t
  <2>1. s \in Users /\ status[s] = "pending" /\ kind'[s] = kind[s] /\ s # c
    <3>1. s \in Users
      BY UsersRun
    <3>2. status[s] = "pending"
      BY <1>3, <1>4, <1>6, <3>1 DEF Grown
    <3> QED BY <1>1, <1>3, <1>6, <3>1, <3>2 DEF Grown
  <2>2. use'[s] = use[s]
    BY <1>3, <1>6, <2>1
  <2>3. PICK i, ai : i = use[s].in /\ ai = use[s].anti_in
    OBVIOUS
  <2>4. use'[s].in = i /\ use'[s].anti_in = ai /\ (use'[s].anti_dependency <=> use[s].anti_dependency)
    BY <2>2, <2>3
  <2>5. /\ Promise(<<UnitOf(s, "wait_in"), s>>, i)
        /\ use[s].anti_dependency => Promise(<<UnitOf(s, "wait_anti_in"), s>>, ai)
    BY <1>0, <2>1, <2>3 DEF WaitsCover
  <2>6. kind[s] # "read" => use[s].anti_dependency
    BY <1>0, <2>1 DEF WaitsCover
  <2>7. Captured(s)
    BY <2>1 DEF Captured, Present
  <2>8. ASSUME NEW p \in Tasks, Captured(p)', Parent(p) = Parent(s), Order!Before(p, s)
        PROVE  /\ kind[s] = "read" /\ Writer(p)' => InPast(i, p)'
               /\ kind[s] = "write" => AntiPast(ai, p)'
    <3>1. p # t
      <4>1. SUFFICES ASSUME p = t PROVE FALSE
        OBVIOUS
      <4>2. Parent(s) = c
        BY <1>1, <2>8, <4>1
      <4>3. Order!Before(s, t)
        BY <1>1, <1>3, <2>7, <4>2, SiblingsBefore
      <4> QED BY <1>1, <2>8, <4>1, <4>3, BeforeOnce
    <3>2. Captured(p) /\ (Writer(p)' <=> Writer(p))
      BY <1>s, <2>8, <3>1
    <3>3. /\ kind[s] = "read" /\ Writer(p) => InPast(i, p)
          /\ kind[s] = "write" => AntiPast(ai, p)
      BY <1>0, <2>1, <2>3, <2>8, <3>2 DEF WaitsCover
    <3> QED BY <1>s, <3>2, <3>3
  <2>9. Promise(<<UnitOf(s, "wait_in"), s>>, use[s].in)'
    BY <1>p, <2>4, <2>5
  <2>10. use'[s].anti_dependency => Promise(<<UnitOf(s, "wait_anti_in"), s>>, use[s].anti_in)'
    BY <1>p, <2>4, <2>5
  <2>11. \A p \in Tasks : Captured(p)' /\ Parent(p) = Parent(s) /\ Order!Before(p, s) =>
                    /\ kind'[s] = "read" /\ Writer(p)' => InPast(use[s].in, p)'
                    /\ kind'[s] = "write" => AntiPast(use[s].anti_in, p)'
    BY <2>1, <2>4, <2>8
  <2>12. kind'[s] # "read" => use'[s].anti_dependency
    BY <2>1, <2>4, <2>6
  <2> QED BY <2>9, <2>10, <2>11, <2>12
<1> QED BY <1>5, <1>6

\* Aliases, in flows and what is ready concern nobody new.
LEMMA CaptureRest ==
  ASSUME Inv, OrderInv, NEW c, NEW t, NEW k, NEW v, NEW left, CaptureStep(c, t, k, v, left)
  PROVE  AliasesKept' /\ InKnown' /\ ReadyInOrder'
<1>0. AliasesKept /\ InKnown /\ ReadyInOrder
  BY DEF OrderInv
<1>1. /\ TypesOK /\ FreshTasks
      /\ c \in Users /\ t \in Tasks /\ t \in Users /\ t # c /\ t # Main /\ Parent(t) = c
      /\ Present(c) /\ Writes(c) /\ status'[c] = "running" /\ Known' = Known \cup {t}
  BY CaptureFacts
<1>2. PICK u : u = use[c]
  OBVIOUS
<1>3. /\ Linked(u, t, k, v, left) /\ k \in {"read", "write"} /\ use'[c] = left
      /\ \A d \in Users : d # c /\ d # t => use'[d] = use[d]
      /\ Grown(t) /\ (Present(t)' => use'[t] = v /\ kind'[t] = k)
      /\ status'[t] \in {"unregistered", "pending"}
      /\ c \in {Main} \cup TopTasks /\ CanCapture(c) /\ t = Append(c, captures[c] + 1)
  BY <1>2 DEF CaptureStep
<1>p. \A x, g : Promise(x, g) => Promise(x, g)'
  BY DEF CaptureStep, PromisesStay
<1>s. /\ \A s \in Users : s # t => (Present(s)' <=> Present(s))
      /\ \A p, q \in Tasks : p # t /\ q # t => (Order!Conflict(p, q)' <=> Order!Conflict(p, q))
  BY <1>1, <1>3, GrownOrder
<1>4. AliasesKept'
  <2>1. SUFFICES ASSUME NEW s \in Tasks, status'[s] = "done", kind'[s] = "write", use'[s].establishes_alias
        PROVE  /\ Promise(<<<<use[s].id, "alias_out">>, use[s].out>>, use[s].in)'
               /\ Promise(<<<<use[s].id, "alias_anti_in">>, use[s].anti_in>>, use[s].anti_out)'
    BY DEF AliasesKept
  <2>2. s \in Users /\ s # t /\ s # c
    BY <1>1, <1>3, <2>1, UsersRun
  <2>3. status[s] = "done" /\ kind[s] = "write" /\ use'[s] = use[s]
    BY <1>3, <2>1, <2>2 DEF Grown
  <2>4. PICK w : w = use[s]
    OBVIOUS
  <2>5. w.establishes_alias /\ use'[s] = w
    BY <2>1, <2>3, <2>4
  <2>6. /\ Promise(<<<<w.id, "alias_out">>, w.out>>, w.in)
        /\ Promise(<<<<w.id, "alias_anti_in">>, w.anti_in>>, w.anti_out)
    BY <1>0, <2>3, <2>4, <2>5 DEF AliasesKept
  <2>7. /\ Promise(<<<<w.id, "alias_out">>, w.out>>, w.in)'
        /\ Promise(<<<<w.id, "alias_anti_in">>, w.anti_in>>, w.anti_out)'
    BY <1>p, <2>6
  <2> QED BY <2>5, <2>7
<1>5. InKnown'
  <2>1. u.in[1][1] \in Known /\ v.in = u.in
    <3>1. u.in[1][1] \in Known
      BY <1>0, <1>1, <1>2 DEF InKnown
    <3> QED BY <1>3, <3>1 DEF Linked
  <2>2. left.in[1][1] \in Known'
    <3>1. CASE k = "read" /\ ~u.anti_dependency
      BY <1>1, <1>3, <2>1, <3>1 DEF Linked
    <3>2. CASE ~(k = "read" /\ ~u.anti_dependency)
      <4>1. left.in = u.in \/ left.in = Out(t)
        BY <1>3, <3>2 DEF Linked
      <4>2. Out(t)[1][1] = t
        BY <1>1, UnitNames
      <4> QED BY <1>1, <2>1, <4>1, <4>2
    <3> QED BY <3>1, <3>2
  <2>3. ASSUME NEW d \in Users, Present(d)' PROVE use'[d].in[1][1] \in Known'
    <3>1. CASE d = t
      BY <1>1, <1>3, <2>1, <2>3, <3>1
    <3>2. CASE d = c
      BY <1>3, <2>2, <3>2
    <3>3. CASE d # t /\ d # c
      <4>1. Present(d) /\ use'[d] = use[d]
        BY <1>3, <1>s, <2>3, <3>3
      <4> QED BY <1>0, <1>1, <4>1 DEF InKnown
    <3> QED BY <3>1, <3>2, <3>3
  <2> QED BY <2>3 DEF InKnown
<1>6. ReadyInOrder'
  <2>1. SUFFICES ASSUME NEW p \in Tasks, NEW s \in Tasks, Order!Before(p, s), Order!Conflict(p, s)',
                        Present(p)', status'[s] \in {"ready", "running", "done"}
        PROVE  status'[p] = "done"
    BY DEF ReadyInOrder
  <2>2. p \in Users /\ s \in Users /\ s # t
    BY <1>3, <2>1, UsersRun
  <2>3. status[s] \in {"ready", "running", "done"}
    BY <1>3, <2>1, <2>2 DEF Grown
  <2>4. p # t
    BY <1>3, <2>1, <2>3, LaterUnstarted
  <2>5. Present(p) /\ Order!Conflict(p, s)
    BY <1>s, <2>1, <2>2, <2>4
  <2>6. status[p] = "done"
    BY <1>0, <2>1, <2>3, <2>5 DEF ReadyInOrder
  <2> QED BY <1>3, <2>2, <2>4, <2>6 DEF Grown
<1> QED BY <1>4, <1>5, <1>6

\* What is captured has the family that a task of its kind has.
LEMMA CaptureFamilies ==
  ASSUME Inv, OrderInv, NEW c, NEW t, NEW k, NEW v, NEW left, CaptureStep(c, t, k, v, left),
         Present(t)' /\ Indices > 0 => k = "read"
  PROVE  Families'
<1>0. Families
  BY DEF OrderInv
<1>1. /\ TypesOK /\ FreshTasks
      /\ c \in Users /\ t \in Tasks /\ t \in Users /\ t # c /\ t # Main /\ Parent(t) = c
      /\ c # Main => c \in Tasks /\ kind[c] = "write" /\ kind'[c] = "write"
      /\ status'[c] = "running"
  BY CaptureFacts
<1>2. /\ c \in {Main} \cup TopTasks /\ CanCapture(c) /\ t = Append(c, captures[c] + 1)
      /\ k \in {"read", "write"} /\ Grown(t) /\ (Present(t)' => kind'[t] = k)
  BY DEF CaptureStep
<1>3. /\ Indices > 0 => c = Main /\ t \in TopTasks
      /\ c = Main => t \in TopTasks
      /\ c # Main => Indices = 0 /\ t \in SubTasks /\ t = <<c[1], captures[c] + 1>> /\ c = <<c[1]>>
  BY <1>1, <1>2, NewTask
<1>4. /\ \A s \in Users : s # t => (Present(s)' <=> Present(s)) /\ status'[s] = status[s]
      /\ \A s \in Tasks : s # t => (IsCollection(s)' <=> IsCollection(s)) /\ kind'[s] = kind[s]
  BY <1>1, <1>2, GrownOrder DEF Grown
<1>5. t \notin Known
  BY <1>2 DEF Grown
<1>6. ASSUME NEW p \in SubTasks, Present(p)'
      PROVE  IF Indices = 0 THEN /\ kind'[p] # "index" /\ kind'[<<p[1]>>] = "write"
                                 /\ status'[<<p[1]>>] \in {"running", "done"}
             ELSE kind'[p] = "index" /\ IsCollection(<<p[1]>>)'
  <2>1. p \in Tasks /\ p \in Users /\ <<p[1]>> \in TopTasks /\ p \notin TopTasks
    BY SubShape, UsersRun
  <2>2. CASE p = t
    <3>1. c # Main /\ Indices = 0
      BY <1>3, <2>1, <2>2
    <3>2. <<p[1]>> = c
      BY <1>3, <2>2, <3>1
    <3>3. kind'[p] = k /\ k # "index"
      BY <1>2, <1>6, <2>2
    <3>4. kind'[<<p[1]>>] = "write" /\ status'[<<p[1]>>] \in {"running", "done"}
      BY <1>1, <3>1, <3>2
    <3> QED BY <3>1, <3>3, <3>4
  <2>3. CASE p # t
    <3>1. Present(p)
      BY <1>4, <1>6, <2>1, <2>3
    <3>2. p \in Known /\ <<p[1]>> \in Known
      BY <1>1, <2>1, <3>1 DEF FreshTasks, Present
    <3>3. PICK s : s = <<p[1]>>
      OBVIOUS
    <3>4. s # t /\ s \in Tasks /\ s \in Users
      BY <1>5, <2>1, <3>2, <3>3, UsersRun DEF Tasks
    <3>5. kind'[p] = kind[p] /\ kind'[s] = kind[s] /\ status'[s] = status[s]
          /\ (IsCollection(s)' <=> IsCollection(s))
      BY <1>4, <2>1, <2>3, <3>4
    <3>6. CASE Indices = 0
      <4>1. kind[p] # "index" /\ kind[s] = "write" /\ status[s] \in {"running", "done"}
        BY <1>0, <3>1, <3>3, <3>6 DEF Families
      <4> QED BY <3>3, <3>5, <3>6, <4>1
    <3>7. CASE ~(Indices = 0)
      <4>1. kind[p] = "index" /\ IsCollection(s)
        BY <1>0, <3>1, <3>3, <3>7 DEF Families
      <4> QED BY <3>3, <3>5, <3>7, <4>1
    <3> QED BY <3>6, <3>7
  <2> QED BY <2>2, <2>3
<1>7. ASSUME NEW p \in TopTasks, Present(p)'
      PROVE  kind'[p] # "index" /\ (Indices > 0 => kind'[p] = "read")
  <2>1. p \in Tasks /\ p \in Users
    BY UsersRun DEF Tasks
  <2>2. CASE p = t
    BY <1>2, <1>7, <2>2
  <2>3. CASE p # t
    BY <1>0, <1>4, <1>7, <2>1, <2>3 DEF Families
  <2> QED BY <2>2, <2>3
<1> QED BY <1>6, <1>7 DEF Families

\* Nobody who captures has indices to register.
LEMMA NoIndicesLeft ==
  ASSUME Inv, OrderInv, NEW c \in {Main} \cup TopTasks, CanCapture(c)
  PROVE  /\ \A th \in Threads : Registers(agenda[th]) = {}
         /\ \A q \in SubTasks : IsCollection(<<q[1]>>) => Present(q)
<1>0. TypesOK /\ FreshTasks /\ RegistersHome /\ IndicesCome
  BY DEF Inv, OrderInv
<1>1. Indices > 0 => Registers(agenda[Main]) = {}
  <2>1. SUFFICES ASSUME Indices > 0 PROVE Registers(agenda[Main]) = {}
    OBVIOUS
  <2>2. PICK t : t = Append(c, captures[c] + 1)
    OBVIOUS
  <2>3. c = Main
    BY <1>0, <2>1, <2>2, NewTask
  <2>4. agenda[Main] = <<>>
    BY <2>3 DEF CanCapture
  <2> QED BY <2>4 DEF Registers
<1>2. ASSUME NEW th \in Threads, NEW op \in Registers(agenda[th]) PROVE FALSE
  <2>1. th = Main /\ IsCollection(op.task)
    BY <1>0, <1>2 DEF RegistersHome
  <2> QED BY <1>1, <1>2, <2>1 DEF IsCollection
<1>3. ASSUME NEW q \in SubTasks, IsCollection(<<q[1]>>), ~Present(q) PROVE FALSE
  <2>1. PICK op \in Registers(agenda[Main]) : op.task = <<q[1]>> /\ op.index <= q[2]
    BY <1>0, <1>3 DEF IndicesCome
  <2> QED BY <1>1, <1>3, <2>1 DEF IsCollection
<1> QED BY <1>2, <1>3

\* Flows that are made are of the new task, so nobody waits for them yet.
LEMMA MadeAwaited ==
  ASSUME NEW a \in Threads, NEW t, t \notin Known, NEW New, \A f \in New : f[1][1] = t,
         count' = [f \in Flows |-> IF f \in New THEN 1 ELSE count[f]], actions' = actions,
         agenda[a] = <<>> \/ Head(agenda[a]).do # "attach"
  PROVE  StillAwaited(a)
<1>1. ASSUME NEW g \in Flows, g[1][1] \in Known PROVE count'[g] = count[g]
  BY <1>1
<1> QED BY <1>1 DEF StillAwaited

\* A task is captured and registered in order.
LEMMA CaptureTaskOrder ==
  ASSUME Inv, OrderInv, NEW c \in {Main} \cup TopTasks, NEW k \in {"read", "write"}, CaptureTask(c, k)
  PROVE  OrderInv'
<1>0. TypesOK /\ FreshTasks /\ InKnown
  BY DEF Inv, OrderInv
<1>1. PICK t : t = Append(c, captures[c] + 1)
  OBVIOUS
<1>2. CanCapture(c) /\ (k = "write" => Indices = 0)
  BY DEF CaptureTask
<1>3. /\ t \in Tasks /\ t \in Users /\ c \in Users /\ t \notin Known /\ c \in Known
      /\ Parent(t) = c /\ t # c /\ t # Main /\ status[t] = "unregistered"
  BY <1>0, <1>1, <1>2, NewTask
<1>4. PICK u, cap : u = use[c] /\ cap = Parts(u, t, k)
  OBVIOUS
<1>5. /\ u \in Uses /\ Capturable(u, t) /\ GoodUse(u) /\ OwnId(c, u.id) /\ Writes(c)
      /\ agenda[c] = <<>> /\ status[c] = "running" /\ c \in Threads
  BY <1>1, <1>2, <1>4, Capturing
<1>6. PICK v, left, ops, New : v = cap.captured /\ left = cap.left /\ ops = cap.ops /\ New = cap.new
  OBVIOUS
<1>7. Captures(u, t, v, left, ops, New)
  BY <1>3, <1>4, <1>5, <1>6, CaptureGives
<1>a. Linked(u, t, k, v, left)
  BY <1>3, <1>4, <1>5, <1>6, CaptureLinks
<1>8. PICK M : M = MakePendingTask(t, v)
  OBVIOUS
<1>9. PICK X : X = ops \o M
  OBVIOUS
<1>10. /\ captures' = [captures EXCEPT ![c] = @ + 1]
       /\ use' = [use EXCEPT ![c] = left, ![t] = v]
       /\ count' = [f \in Flows |-> IF f \in New THEN 1 ELSE count[f]]
       /\ agenda' = [agenda EXCEPT ![c] = X]
       /\ kind' = [kind EXCEPT ![t] = k]
       /\ status' = [status EXCEPT ![t] = "pending"]
       /\ actions' = actions
  <2>1. cap = Capture(c, t, k)
    BY <1>4, CaptureParts
  <2> QED BY <1>1, <1>6, <1>8, <1>9, <2>1 DEF CaptureTask
<1>11. Known' = Known \cup {t}
  BY <1>0, <1>1, <1>2, <1>10, KnownMore
<1>12. /\ v \in Uses /\ v.id = <<t, "captured">> /\ left \in Uses
       /\ Sound(ops) /\ Names(ops) \subseteq UseIds \X {"anti_in", "out", "anti_out"}
  BY <1>7 DEF Captures
<1>13. GoodUse(v)' /\ \A f \in New : f[1][1] = t
  BY <1>3, <1>5, <1>7, <1>11, CapturedKnown
<1>14. /\ Sound(M) /\ Names(M) \subseteq {v.id} \X {"wait_in", "wait_anti_in", "setup"}
  BY <1>3, <1>8, <1>12, Making
<1>15. /\ Sound(X) /\ X \in Seq(Ops) /\ Registers(X) = {} /\ ops \in Seq(Ops) /\ M \in Seq(Ops)
  <2>1. Names(ops) \cap Names(M) = {}
    BY <1>12, <1>14
  <2>2. Sound(X)
    BY <1>9, <1>12, <1>14, <2>1, SoundConcat
  <2> QED BY <1>12, <1>14, <2>2 DEF Sound
<1>16. AgendaStep(c, X) /\ Rest(c) = <<>>
  <2>1. Rest(c) = <<>>
    BY <1>5 DEF Rest
  <2>2. X \o <<>> = X
    BY <1>15, ConcatEmptySeq
  <2> QED BY <1>10, <2>1, <2>2 DEF AgendaStep
<1>17. /\ use'[t] = v /\ use'[c] = left /\ status'[t] = "pending" /\ kind'[t] = k
       /\ \A d \in Users : d # t => status'[d] = status[d]
       /\ \A d \in Users : d # t /\ d # c => use'[d] = use[d]
       /\ \A d \in Tasks : d # t => kind'[d] = kind[d]
  BY <1>0, <1>3, <1>5, <1>10, <1>12 DEF TypesOK
<1>18. StillAwaited(c)
  BY <1>3, <1>5, <1>10, <1>13, MadeAwaited
<1>19. PromisesStay
  BY <1>0, <1>5, <1>11, <1>15, <1>16, <1>18, PromiseKept
<1>20. Grown(t)
  <2>1. \A s \in Tasks : s # t /\ Present(s) /\ kind[s] = "read" => use'[s] = use[s]
    <3>1. \A s \in Tasks : s = c => kind[s] = "write"
      BY <1>2, TaskKinds DEF CanCapture
    <3> QED BY <1>17, <3>1, UsersRun
  <2> QED BY <1>3, <1>11, <1>17, <2>1 DEF Grown
<1>21. Captured(t)' /\ (Writer(t)' <=> k = "write") /\ Present(t)'
  BY <1>17 DEF Captured, Writer, IsCollection, Present
<1>22. CaptureStep(c, t, k, v, left)
  BY <1>1, <1>2, <1>4, <1>a, <1>17, <1>19, <1>20, <1>21 DEF CaptureStep
<1>23. Families'
  BY <1>2, <1>22, CaptureFamilies, BoundsAssumption
<1>24. \A th \in Threads : Registers(agenda'[th]) = {}
  <2>1. \A th \in Threads : Registers(agenda[th]) = {}
    BY <1>2, NoIndicesLeft
  <2>2. Registers(Rest(c)) = {}
    BY <1>16 DEF Registers
  <2>3. \A th \in Threads : th # c => agenda'[th] = agenda[th]
    BY <1>0, <1>5, <1>15, <1>16, AgendaAfter
  <2>4. Registers(agenda'[c]) = Registers(X) \cup Registers(Rest(c))
    BY <1>0, <1>5, <1>15, <1>16, AgendaAfter
  <2> QED BY <1>15, <2>1, <2>2, <2>3, <2>4
<1>25. RegistersHome'
  BY <1>24 DEF RegistersHome
<1>26. IndicesCome'
  <2>1. SUFFICES ASSUME NEW q \in SubTasks, IsCollection(<<q[1]>>)', ~Present(q)' PROVE FALSE
    BY DEF IndicesCome
  <2>2. PICK s : s = <<q[1]>>
    OBVIOUS
  <2>3. s \in Tasks /\ q \in Users /\ s \in TopTasks /\ q \in Tasks
    BY <2>2, SubShape, UsersRun DEF Tasks
  <2>4. s # t /\ q # t
    BY <1>21, <2>1, <2>2 DEF IsCollection
  <2>5. IsCollection(s) /\ ~Present(q)
    BY <1>0, <1>20, <2>1, <2>2, <2>3, <2>4, GrownOrder
  <2> QED BY <1>2, <2>2, <2>5, NoIndicesLeft
<1>27. PICK wi, wai, si, sai, i, ai :
         /\ wi = UnitOf(t, "wait_in") /\ wai = UnitOf(t, "wait_anti_in")
         /\ si = Satisfy(t, wi) /\ sai = Satisfy(t, wai) /\ i = v.in /\ ai = v.anti_in
  OBVIOUS
<1>28. /\ Has(X, Attach(i, si)) /\ (v.anti_dependency => Has(X, Attach(ai, sai)))
  <2>1. wi = <<v.id, "wait_in">> /\ wai = <<v.id, "wait_anti_in">>
    BY <1>12, <1>27 DEF UnitOf
  <2>2. Has(M, Attach(i, si)) /\ (v.anti_dependency => Has(M, Attach(ai, sai)))
    BY <1>3, <1>8, <1>12, <1>27, <2>1, WaitsAttached
  <2> QED BY <1>9, <1>15, <2>2, HasConcat
<1>29. i \in Flows /\ ai \in Flows /\ i[1][1] \in Known' /\ ai[1][1] \in Known'
  <2>1. i \in Flows /\ ai \in Flows
    BY <1>12, <1>27 DEF Uses
  <2>2. i = u.in /\ u.in[1][1] \in Known
    <3>1. Present(c)
      BY <1>5 DEF Present
    <3> QED BY <1>0, <1>3, <1>4, <1>a, <1>27, <3>1 DEF InKnown, Linked
  <2>3. ai[1][1] \in Known'
    BY <1>13, <1>27 DEF GoodUse
  <2> QED BY <1>11, <2>1, <2>2, <2>3
<1>30. /\ si \in Payloads /\ OwedByOp(si) = {<<wi, t>>} /\ sai \in Payloads /\ OwedByOp(sai) = {<<wai, t>>}
  BY <1>3, <1>27, UnitNames, SatisfyOp
<1>31. /\ Promise(<<wi, t>>, i)' /\ (v.anti_dependency => Promise(<<wai, t>>, ai)')
  BY <1>0, <1>5, <1>15, <1>16, <1>28, <1>29, <1>30, PromiseOf
<1>32. WaitsCover'
  <2>1. /\ Promise(<<UnitOf(t, "wait_in"), t>>, v.in)'
        /\ v.anti_dependency => Promise(<<UnitOf(t, "wait_anti_in"), t>>, v.anti_in)'
    BY <1>27, <1>31
  <2> QED BY <1>22, <2>1, CaptureWaits
<1>33. WritersHold' /\ IndexUses' /\ ScopesCover'
  BY <1>22, CaptureWriters, CaptureIndices, CaptureScopes
<1>34. AliasesKept' /\ InKnown' /\ ReadyInOrder'
  BY <1>22, CaptureRest
<1> QED BY <1>23, <1>25, <1>26, <1>32, <1>33, <1>34 DEF OrderInv

\* A collection is captured in order, its indices still to come.
LEMMA CaptureCollectionOrder ==
  ASSUME Inv, OrderInv, CaptureCollection PROVE OrderInv'
<1>0. TypesOK /\ FreshTasks /\ WritersHold /\ ScopesCover
  BY DEF Inv, OrderInv
<1>1. PICK c, k, t : c = Main /\ k = "write" /\ t = Append(c, captures[c] + 1)
  OBVIOUS
<1>2. CanCapture(c) /\ c \in {Main} \cup TopTasks /\ Indices > 0 /\ k \in {"read", "write"}
  BY <1>1 DEF CaptureCollection
<1>3. /\ t \in Tasks /\ t \in Users /\ c \in Users /\ t \notin Known /\ c \in Known
      /\ Parent(t) = c /\ t # c /\ t # Main /\ status[t] = "unregistered"
      /\ t \in TopTasks /\ t = <<captures[Main] + 1>> /\ captures[Main] \in Nat
  BY <1>0, <1>1, <1>2, NewTask
<1>4. PICK u, cap : u = use[c] /\ cap = Parts(u, t, k)
  OBVIOUS
<1>5. /\ u \in Uses /\ Capturable(u, t) /\ GoodUse(u) /\ OwnId(c, u.id) /\ Writes(c)
      /\ agenda[c] = <<>> /\ status[c] = "running" /\ c \in Threads
  BY <1>1, <1>2, <1>4, Capturing
<1>6. PICK v, left, ops, New : v = cap.captured /\ left = cap.left /\ ops = cap.ops /\ New = cap.new
  OBVIOUS
<1>7. Captures(u, t, v, left, ops, New)
  BY <1>2, <1>3, <1>4, <1>5, <1>6, CaptureGives
<1>a. Linked(u, t, k, v, left)
  BY <1>2, <1>3, <1>4, <1>5, <1>6, CaptureLinks
<1>8. PICK rest, one : rest = RegisterFrom(t, 1, v) /\ one = <<rest>>
  OBVIOUS
<1>9. PICK X : X = ops \o one
  OBVIOUS
<1>10. /\ captures' = [captures EXCEPT ![c] = @ + 1]
       /\ use' = [use EXCEPT ![c] = left]
       /\ count' = [f \in Flows |-> IF f \in New THEN 1 ELSE count[f]]
       /\ agenda' = [agenda EXCEPT ![c] = X]
       /\ kind' = kind /\ status' = status /\ actions' = actions
  <2>1. cap = Capture(Main, <<captures[Main] + 1>>, "write")
    BY <1>1, <1>3, <1>4, CaptureParts
  <2> QED BY <1>1, <1>3, <1>6, <1>8, <1>9, <2>1 DEF CaptureCollection
<1>11. Known' = Known \cup {t}
  BY <1>0, <1>1, <1>2, <1>10, KnownMore
<1>12. v \in Uses /\ left \in Uses /\ Sound(ops)
  BY <1>7 DEF Captures
<1>13. \A f \in New : f[1][1] = t
  BY <1>3, <1>5, <1>7, <1>11, CapturedKnown
<1>14. rest \in Ops /\ rest.do = "register" /\ rest.task = t /\ rest.index = 1 /\ rest.use = v
  BY <1>3, <1>8, <1>12, RegisterOp DEF RegisterFrom
<1>15. /\ X \in Seq(Ops) /\ Registers(X) = {rest}
  <2>1. one \in Seq(Ops) /\ Registers(one) = {rest}
    <3>1. <<rest>> \in Seq(Ops) /\ Registers(<<rest>>) = {rest}
      BY <1>14, SingleOps, RegistersSingle
    <3> QED BY <1>8, <3>1
  <2>2. ops \in Seq(Ops) /\ Registers(ops) = {}
    BY <1>12 DEF Sound
  <2> QED BY <1>9, <2>1, <2>2, ConcatOps, RegistersConcat
<1>16. AgendaStep(c, X) /\ Rest(c) = <<>>
  <2>1. Rest(c) = <<>>
    BY <1>5 DEF Rest
  <2>2. X \o <<>> = X
    BY <1>15, ConcatEmptySeq
  <2> QED BY <1>10, <2>1, <2>2 DEF AgendaStep
<1>17. /\ use'[c] = left /\ captures'[Main] = captures[Main] + 1
       /\ \A d \in Users : d # c => use'[d] = use[d]
  BY <1>0, <1>1, <1>3, <1>5, <1>10, <1>12 DEF TypesOK
<1>18. StillAwaited(c)
  BY <1>3, <1>5, <1>10, <1>13, MadeAwaited
<1>19. PromisesStay
  BY <1>0, <1>5, <1>11, <1>15, <1>16, <1>18, PromiseKept
<1>20. Grown(t)
  <2>1. \A s \in Tasks : s # t /\ Present(s) /\ kind[s] = "read" => use'[s] = use[s]
    BY <1>1, <1>17, TaskKinds
  <2> QED BY <1>3, <1>10, <1>11, <2>1 DEF Grown
<1>21. IsCollection(t)' /\ Captured(t)' /\ Writer(t)' /\ ~Present(t)'
  <2>1. ~Present(t)' /\ t \in Known'
    BY <1>3, <1>10, <1>11 DEF Present
  <2> QED BY <1>2, <1>3, <2>1 DEF Captured, Writer, IsCollection
<1>22. CaptureStep(c, t, k, v, left)
  BY <1>1, <1>2, <1>3, <1>4, <1>a, <1>10, <1>17, <1>19, <1>20, <1>21 DEF CaptureStep
<1>23. Families'
  BY <1>21, <1>22, CaptureFamilies
<1>24. \A th \in Threads : Registers(agenda'[th]) = IF th = c THEN {rest} ELSE {}
  <2>1. \A th \in Threads : Registers(agenda[th]) = {}
    BY <1>2, NoIndicesLeft
  <2>2. Registers(Rest(c)) = {}
    BY <1>16 DEF Registers
  <2>3. \A th \in Threads : th # c => agenda'[th] = agenda[th]
    BY <1>0, <1>5, <1>15, <1>16, AgendaAfter
  <2>4. Registers(agenda'[c]) = Registers(X) \cup Registers(Rest(c))
    BY <1>0, <1>5, <1>15, <1>16, AgendaAfter
  <2> QED BY <1>15, <2>1, <2>2, <2>3, <2>4
<1>25. RegistersHome'
  <2>1. ~u.anti_dependency
    BY <1>0, <1>1, <1>4 DEF WritersHold
  <2>2. v.anti_out = AntiOut(t) /\ v.anti_in = u.anti_out
    BY <1>1, <1>a, <2>1 DEF Linked
  <2>3. v.anti_in # None
    BY <1>5, <2>2 DEF Capturable
  <2>4. ASSUME NEW p \in TopTasks, Captured(p)', p[1] < t[1] PROVE AntiPast(v.anti_in, p)'
    <3>1. p \in Tasks /\ Parent(p) = Main /\ p[1] \in Nat
      BY TopShape
    <3>2. p # t
      BY <1>3, <2>4, <3>1
    <3>3. Captured(p)
      BY <1>0, <1>20, <2>4, <3>1, <3>2, GrownOrder
    <3>4. Present(c) /\ c \in Users
      BY <1>3, <1>5 DEF Present
    <3>5. AntiPast(use[c].anti_out, p)
      BY <1>0, <1>1, <1>5, <3>1, <3>3, <3>4 DEF ScopesCover
    <3>6. PICK f : f = u.anti_out
      OBVIOUS
    <3>7. AntiPast(f, p)
      BY <1>4, <3>5, <3>6
    <3>8. AntiPast(f, p)'
      BY <1>0, <1>20, <3>1, <3>7, GrownOrder
    <3> QED BY <2>2, <3>6, <3>8
  <2>5. SUFFICES ASSUME NEW th \in Threads, NEW op \in Registers(agenda'[th])
        PROVE  /\ th = Main /\ op.task = <<captures'[Main]>> /\ IsCollection(op.task)'
               /\ op.use.anti_out = AntiOut(op.task) /\ op.use.anti_in # None
               /\ \A p \in TopTasks : Captured(p)' /\ p[1] < op.task[1] => AntiPast(op.use.anti_in, p)'
    BY DEF RegistersHome
  <2>6. th = c /\ op = rest
    BY <1>24, <2>5
  <2>7. op.task = t /\ op.use = v
    BY <1>14, <2>6
  <2>8. op.task = <<captures'[Main]>> /\ IsCollection(op.task)'
    BY <1>3, <1>17, <1>21, <2>7
  <2> QED BY <1>1, <2>2, <2>3, <2>4, <2>6, <2>7, <2>8
<1>26. IndicesCome'
  <2>1. SUFFICES ASSUME NEW q \in SubTasks, IsCollection(<<q[1]>>)', ~Present(q)'
                 PROVE  \E op \in Registers(agenda'[Main]) : op.task = <<q[1]>> /\ op.index <= q[2]
    BY DEF IndicesCome
  <2>2. PICK s : s = <<q[1]>>
    OBVIOUS
  <2>3. s \in Tasks /\ q \in Users /\ s \in TopTasks /\ q \in Tasks /\ q \notin TopTasks
    BY <2>2, SubShape, UsersRun DEF Tasks
  <2>4. CASE s = t
    <3>1. rest \in Registers(agenda'[Main])
      BY <1>1, <1>5, <1>24
    <3>2. q[2] \in 1..Indices
      <4>1. Indices # 0
        BY <1>2, BoundsAssumption
      <4>2. q[2] \in 1..(IF Indices = 0 THEN Subwidth ELSE Indices)
        BY SubShape
      <4> QED BY <4>1, <4>2
    <3>3. 1 <= q[2]
      BY <3>2
    <3> QED BY <1>14, <2>2, <2>4, <3>1, <3>3
  <2>5. CASE s # t
    <3>1. q # t
      BY <1>3, <2>3
    <3>2. IsCollection(s) /\ ~Present(q)
      BY <1>0, <1>20, <2>1, <2>2, <2>3, <2>5, <3>1, GrownOrder
    <3> QED BY <1>2, <2>2, <3>2, NoIndicesLeft
  <2> QED BY <2>4, <2>5
<1>27. WaitsCover'
  BY <1>21, <1>22, CaptureWaits
<1>28. WritersHold' /\ IndexUses' /\ ScopesCover'
  BY <1>22, CaptureWriters, CaptureIndices, CaptureScopes
<1>29. AliasesKept' /\ InKnown' /\ ReadyInOrder'
  BY <1>22, CaptureRest
<1> QED BY <1>23, <1>25, <1>26, <1>27, <1>28, <1>29 DEF OrderInv

\* The index p of the collection T, captured with w, is registered with the use v.
IndexStep(p, T, w, v) ==
  /\ p \in SubTasks /\ T = <<p[1]>> /\ T = <<captures[Main]>> /\ IsCollection(T)
  /\ Grown(p) /\ PromisesStay /\ captures' = captures
  /\ \A d \in Users : d # p => use'[d] = use[d]
  /\ use'[p] = v /\ status'[p] = "pending" /\ kind'[p] = "index"
  /\ \A q \in SubTasks : q[1] = p[1] /\ q[2] > p[2] => status[q] = "unregistered"
  /\ v.in = UnitOf(p, "in") /\ v.anti_dependency
  /\ v.out = Out(p) /\ v.anti_out = AntiOut(p) /\ v.anti_in = UnitOf(p, "anti_in")
  /\ w.anti_in \in Flows
  /\ \A q \in TopTasks : Captured(q) /\ q[1] < p[1] => AntiPast(w.anti_in, q)

\* Who is what then.
LEMMA IndexFacts ==
  ASSUME Inv, NEW p, NEW T, NEW w, NEW v, IndexStep(p, T, w, v)
  PROVE  /\ TypesOK /\ FreshTasks /\ p \in Tasks /\ p \in Users /\ p # Main /\ p \notin TopTasks
         /\ T \in TopTasks /\ T \in Tasks /\ T \in Users /\ T # p /\ Parent(p) = T /\ ~Present(T)
         /\ Present(p)' /\ Captured(p)' /\ ~Writer(p)' /\ ~IsCollection(p)'
         /\ Indices > 0 /\ ~(Indices = 0) /\ IsCollection(T)'
         /\ \A s \in Users : s # p => (Present(s)' <=> Present(s)) /\ status'[s] = status[s]
         /\ \A s \in Tasks : s # p => /\ IsCollection(s)' <=> IsCollection(s)
                                      /\ Writer(s)' <=> Writer(s)
                                      /\ Captured(s)' <=> Captured(s)
                                      /\ kind'[s] = kind[s]
         /\ \A f : \A q \in Tasks : /\ InPast(f, q) => InPast(f, q)'
                                    /\ AntiPast(f, q) => AntiPast(f, q)'
         /\ \A q, s \in Tasks : q # p /\ s # p => (Order!Conflict(q, s)' <=> Order!Conflict(q, s))
<1>1. /\ p \in SubTasks /\ T = <<p[1]>> /\ IsCollection(T) /\ Grown(p)
      /\ status'[p] = "pending" /\ kind'[p] = "index"
  BY DEF IndexStep
<1>2. TypesOK /\ FreshTasks
  BY DEF Inv
<1>3. /\ p \in Tasks /\ p \notin TopTasks /\ T \in TopTasks /\ Parent(p) = T
  BY <1>1, SubShape
<1>4. /\ p \in Users /\ p # Main /\ T \in Tasks /\ T \in Users /\ T # p
  BY <1>3, TaskKinds DEF Tasks
<1>5. ~Present(T) /\ Indices > 0 /\ ~(Indices = 0)
  BY <1>1, BoundsAssumption DEF IsCollection
<1>6. Present(p)' /\ Captured(p)' /\ ~Writer(p)' /\ ~IsCollection(p)'
  BY <1>1, <1>3 DEF Present, Captured, Writer, IsCollection
<1>7. /\ \A s \in Users : s # p => (Present(s)' <=> Present(s))
      /\ \A s \in Tasks : s # p => /\ IsCollection(s)' <=> IsCollection(s)
                                   /\ Writer(s)' <=> Writer(s)
                                   /\ Captured(s)' <=> Captured(s)
      /\ \A f : \A q \in Tasks : /\ InPast(f, q) => InPast(f, q)'
                                 /\ AntiPast(f, q) => AntiPast(f, q)'
      /\ \A q, s \in Tasks : q # p /\ s # p => (Order!Conflict(q, s)' <=> Order!Conflict(q, s))
  BY <1>1, <1>2, GrownOrder
<1>8. /\ \A s \in Users : s # p => status'[s] = status[s]
      /\ \A s \in Tasks : s # p => kind'[s] = kind[s]
  BY <1>1 DEF Grown
<1>9. IsCollection(T)'
  BY <1>1, <1>4, <1>7
<1> QED BY <1>2, <1>3, <1>4, <1>5, <1>6, <1>7, <1>8, <1>9

\* No task that writes is concerned, and the index belongs to its collection.
LEMMA IndexWriters ==
  ASSUME Inv, OrderInv, NEW p, NEW T, NEW w, NEW v, IndexStep(p, T, w, v)
  PROVE  WritersHold' /\ Families' /\ ScopesCover'
<1>0. WritersHold /\ Families /\ ScopesCover
  BY DEF OrderInv
<1>1. /\ TypesOK /\ FreshTasks /\ p \in Tasks /\ p \in Users /\ p # Main /\ p \notin TopTasks
      /\ T \in TopTasks /\ T \in Tasks /\ T \in Users /\ T # p /\ Parent(p) = T /\ ~Present(T)
      /\ ~(Indices = 0) /\ IsCollection(T)' /\ ~Writer(p)'
  BY IndexFacts
<1>2. /\ \A s \in Users : s # p => (Present(s)' <=> Present(s))
      /\ \A s \in Tasks : s # p => /\ IsCollection(s)' <=> IsCollection(s)
                                   /\ Writer(s)' <=> Writer(s)
                                   /\ Captured(s)' <=> Captured(s)
                                   /\ kind'[s] = kind[s]
      /\ \A f : \A q \in Tasks : /\ InPast(f, q) => InPast(f, q)'
                                 /\ AntiPast(f, q) => AntiPast(f, q)'
  BY IndexFacts
<1>3. /\ p \in SubTasks /\ T = <<p[1]>> /\ kind'[p] = "index"
      /\ \A d \in Users : d # p => use'[d] = use[d]
  BY DEF IndexStep
<1>4. WritersHold'
  <2>1. ~use'[Main].anti_dependency
    <3>1. use'[Main] = use[Main]
      BY <1>1, <1>3, UsersRun
    <3> QED BY <1>0, <3>1 DEF WritersHold
  <2>2. ASSUME NEW s \in Tasks, Present(s)', kind'[s] = "write"
        PROVE  /\ use'[s].out = Out(s)
               /\ IF use'[s].anti_dependency
                    THEN use'[s].anti_out = AntiOut(s) /\ \A q \in SubTasks : Present(q)' => Parent(q) # s
                    ELSE use'[s].anti_in = AntiOut(s) /\ use'[s].establishes_alias
    <3>1. s # p /\ s \in Users
      BY <1>3, <2>2, UsersRun
    <3>2. Present(s) /\ kind[s] = "write" /\ use'[s] = use[s]
      BY <1>2, <1>3, <2>2, <3>1
    <3>3. /\ use[s].out = Out(s)
          /\ IF use[s].anti_dependency
               THEN use[s].anti_out = AntiOut(s) /\ \A q \in SubTasks : Present(q) => Parent(q) # s
               ELSE use[s].anti_in = AntiOut(s) /\ use[s].establishes_alias
      BY <1>0, <3>2 DEF WritersHold
    <3>4. s # T
      BY <1>1, <3>2
    <3>5. ASSUME NEW q \in SubTasks, Present(q)', use[s].anti_dependency PROVE Parent(q) # s
      <4>1. CASE q = p
        BY <1>1, <3>4, <4>1
      <4>2. CASE q # p
        <5>1. q \in Users
          BY UsersRun DEF Tasks
        <5> QED BY <1>2, <3>3, <3>5, <4>2, <5>1
      <4> QED BY <4>1, <4>2
    <3> QED BY <3>2, <3>3, <3>5
  <2> QED BY <2>1, <2>2 DEF WritersHold, Parent
<1>5. Families'
  <2>1. ASSUME NEW q \in SubTasks, Present(q)' PROVE kind'[q] = "index" /\ IsCollection(<<q[1]>>)'
    <3>1. CASE q = p
      BY <1>1, <1>3, <3>1
    <3>2. CASE q # p
      <4>1. q \in Tasks /\ q \in Users /\ <<q[1]>> \in TopTasks
        BY SubShape, UsersRun
      <4>2. Present(q)
        BY <1>2, <2>1, <3>2, <4>1
      <4>3. PICK s : s = <<q[1]>>
        OBVIOUS
      <4>4. kind[q] = "index" /\ IsCollection(s)
        BY <1>0, <1>1, <4>2, <4>3 DEF Families
      <4>5. s \in Tasks /\ s # p
        BY <1>1, <4>1, <4>3 DEF Tasks
      <4> QED BY <1>2, <3>2, <4>1, <4>3, <4>4, <4>5
    <3> QED BY <3>1, <3>2
  <2>2. ASSUME NEW q \in TopTasks, Present(q)'
        PROVE  kind'[q] # "index" /\ (Indices > 0 => kind'[q] = "read")
    <3>1. q \in Tasks /\ q \in Users /\ q # p
      BY <1>1, UsersRun DEF Tasks
    <3>2. Present(q) /\ kind'[q] = kind[q]
      BY <1>2, <2>2, <3>1
    <3> QED BY <1>0, <3>2 DEF Families
  <2> QED BY <1>1, <2>1, <2>2 DEF Families
<1>6. ScopesCover'
  <2>1. SUFFICES ASSUME NEW c \in Users, Present(c)', Writes(c)', NEW q \in Tasks, Captured(q)', Parent(q) = c
        PROVE  (Writer(q)' => InPast(use[c].in, q)') /\ AntiPast(use[c].anti_out, q)'
    BY DEF ScopesCover, Parent
  <2>2. c # p
    BY <1>1, <1>3, <2>1 DEF Writes
  <2>3. Present(c) /\ use'[c] = use[c]
    BY <1>2, <1>3, <2>1, <2>2
  <2>4. Writes(c)
    BY <1>2, <2>1, <2>2 DEF Writes, Users
  <2>5. q # p
    BY <1>1, <2>1, <2>3
  <2>6. Captured(q) /\ (Writer(q)' <=> Writer(q))
    BY <1>2, <2>1, <2>5
  <2>7. PICK i, ao : i = use[c].in /\ ao = use[c].anti_out
    OBVIOUS
  <2>8. (Writer(q) => InPast(i, q)) /\ AntiPast(ao, q)
    BY <1>0, <2>1, <2>3, <2>4, <2>6, <2>7 DEF ScopesCover
  <2>9. (Writer(q)' => InPast(i, q)') /\ AntiPast(ao, q)'
    BY <1>2, <2>6, <2>8
  <2> QED BY <2>3, <2>7, <2>9
<1> QED BY <1>4, <1>5, <1>6

\* It waits for what its collection waits for, and holds the collection up.
LEMMA IndexWaits ==
  ASSUME Inv, OrderInv, NEW p, NEW T, NEW w, NEW v, IndexStep(p, T, w, v),
         Promise(<<UnitOf(p, "wait_in"), p>>, v.in)', Promise(<<UnitOf(p, "wait_anti_in"), p>>, v.anti_in)',
         Promise(<<UnitOf(p, "link_out"), Out(T)>>, Out(p))',
         Promise(<<UnitOf(p, "link_anti_out"), AntiOut(T)>>, AntiOut(p))',
         Promise(<<UnitOf(p, "anti_in"), v.anti_in>>, w.anti_in)'
  PROVE  IndexUses' /\ WaitsCover'
<1>0. IndexUses /\ WaitsCover /\ Families
  BY DEF OrderInv
<1>1. /\ TypesOK /\ FreshTasks /\ p \in Tasks /\ p \in Users /\ p # Main /\ p \notin TopTasks
      /\ T \in TopTasks /\ T \in Tasks /\ T \in Users /\ T # p /\ Parent(p) = T
      /\ ~(Indices = 0) /\ ~Writer(p)'
  BY IndexFacts
<1>2. /\ \A s \in Users : s # p => (Present(s)' <=> Present(s)) /\ status'[s] = status[s]
      /\ \A s \in Tasks : s # p => /\ Writer(s)' <=> Writer(s)
                                   /\ Captured(s)' <=> Captured(s)
                                   /\ kind'[s] = kind[s]
      /\ \A f : \A q \in Tasks : /\ InPast(f, q) => InPast(f, q)'
                                 /\ AntiPast(f, q) => AntiPast(f, q)'
  BY IndexFacts
<1>3. /\ p \in SubTasks /\ T = <<p[1]>> /\ kind'[p] = "index" /\ use'[p] = v
      /\ \A d \in Users : d # p => use'[d] = use[d]
      /\ v.in = UnitOf(p, "in") /\ v.anti_dependency
      /\ v.out = Out(p) /\ v.anti_out = AntiOut(p) /\ v.anti_in = UnitOf(p, "anti_in")
      /\ w.anti_in \in Flows
      /\ \A q \in TopTasks : Captured(q) /\ q[1] < p[1] => AntiPast(w.anti_in, q)
  BY DEF IndexStep
<1>p. \A x, g : Promise(x, g) => Promise(x, g)'
  BY DEF IndexStep, PromisesStay
<1>t. \A q \in TopTasks : q \in Tasks /\ q # p
  BY <1>1 DEF Tasks
<1>4. IndexUses'
  <2>1. SUFFICES ASSUME NEW q \in SubTasks, Present(q)', kind'[q] = "index"
        PROVE  /\ use'[q].anti_dependency
               /\ use'[q].out = Out(q) /\ use'[q].anti_out = AntiOut(q)
               /\ use'[q].anti_in = UnitOf(q, "anti_in")
               /\ Promise(<<UnitOf(q, "link_out"), Out(<<q[1]>>)>>, Out(q))'
               /\ Promise(<<UnitOf(q, "link_anti_out"), AntiOut(<<q[1]>>)>>, AntiOut(q))'
               /\ status'[q] = "pending" => \E g \in Flows :
                    /\ Promise(<<UnitOf(q, "anti_in"), use[q].anti_in>>, g)'
                    /\ \A s \in TopTasks : Captured(s)' /\ s[1] < q[1] => AntiPast(g, s)'
    BY DEF IndexUses
  <2>2. CASE q = p
    <3>1. PICK g, ai : g = w.anti_in /\ ai = v.anti_in
      OBVIOUS
    <3>2. g \in Flows /\ Promise(<<UnitOf(p, "anti_in"), ai>>, g)' /\ use'[q].anti_in = ai
      BY <1>3, <2>2, <3>1
    <3>3. Promise(<<UnitOf(q, "anti_in"), use[q].anti_in>>, g)'
      BY <2>2, <3>2
    <3>4. ASSUME NEW s \in TopTasks, Captured(s)', s[1] < q[1] PROVE AntiPast(g, s)'
      <4>1. Captured(s)
        BY <1>2, <1>t, <3>4
      <4>2. AntiPast(g, s)
        BY <1>3, <2>2, <3>1, <3>4, <4>1
      <4> QED BY <1>2, <1>t, <4>2
    <3>5. \E h \in Flows :
                    /\ Promise(<<UnitOf(q, "anti_in"), use[q].anti_in>>, h)'
                    /\ \A s \in TopTasks : Captured(s)' /\ s[1] < q[1] => AntiPast(h, s)'
      BY <3>2, <3>3, <3>4
    <3>6. /\ Promise(<<UnitOf(q, "link_out"), Out(<<q[1]>>)>>, Out(q))'
          /\ Promise(<<UnitOf(q, "link_anti_out"), AntiOut(<<q[1]>>)>>, AntiOut(q))'
      BY <1>3, <2>2
    <3>7. /\ use'[q].anti_dependency
          /\ use'[q].out = Out(q) /\ use'[q].anti_out = AntiOut(q)
          /\ use'[q].anti_in = UnitOf(q, "anti_in")
      BY <1>3, <2>2
    <3> QED BY <3>5, <3>6, <3>7
  <2>3. CASE q # p
    <3>1. q \in Tasks /\ q \in Users
      BY UsersRun DEF Tasks
    <3>2. Present(q) /\ kind[q] = "index" /\ status'[q] = status[q] /\ use'[q] = use[q]
      BY <1>2, <1>3, <2>1, <2>3, <3>1
    <3>3. /\ use[q].anti_dependency
          /\ use[q].out = Out(q) /\ use[q].anti_out = AntiOut(q)
          /\ use[q].anti_in = UnitOf(q, "anti_in")
      BY <1>0, <3>2 DEF IndexUses
    <3>4. /\ Promise(<<UnitOf(q, "link_out"), Out(<<q[1]>>)>>, Out(q))
          /\ Promise(<<UnitOf(q, "link_anti_out"), AntiOut(<<q[1]>>)>>, AntiOut(q))
      BY <1>0, <3>2 DEF IndexUses
    <3>5. /\ Promise(<<UnitOf(q, "link_out"), Out(<<q[1]>>)>>, Out(q))'
          /\ Promise(<<UnitOf(q, "link_anti_out"), AntiOut(<<q[1]>>)>>, AntiOut(q))'
      BY <1>p, <3>4
    <3>6. ASSUME status'[q] = "pending"
          PROVE  \E g \in Flows :
                    /\ Promise(<<UnitOf(q, "anti_in"), use[q].anti_in>>, g)'
                    /\ \A s \in TopTasks : Captured(s)' /\ s[1] < q[1] => AntiPast(g, s)'
      <4>1. PICK g \in Flows :
                    /\ Promise(<<UnitOf(q, "anti_in"), use[q].anti_in>>, g)
                    /\ \A s \in TopTasks : Captured(s) /\ s[1] < q[1] => AntiPast(g, s)
        BY <1>0, <3>2, <3>6 DEF IndexUses
      <4>2. PICK ai : ai = use[q].anti_in
        OBVIOUS
      <4>3. Promise(<<UnitOf(q, "anti_in"), ai>>, g)'
        BY <1>p, <4>1, <4>2
      <4>4. use'[q].anti_in = ai
        BY <3>2, <4>2
      <4>5. ASSUME NEW s \in TopTasks, Captured(s)', s[1] < q[1] PROVE AntiPast(g, s)'
        <5>1. Captured(s)
          BY <1>2, <1>t, <4>5
        <5>2. AntiPast(g, s)
          BY <4>1, <4>5, <5>1
        <5> QED BY <1>2, <1>t, <5>2
      <4> QED BY <4>3, <4>4, <4>5
    <3>7. /\ use'[q].anti_dependency
          /\ use'[q].out = Out(q) /\ use'[q].anti_out = AntiOut(q)
          /\ use'[q].anti_in = UnitOf(q, "anti_in")
      BY <3>2, <3>3
    <3> QED BY <3>5, <3>6, <3>7
  <2> QED BY <2>2, <2>3
<1>5. WaitsCover'
  <2>1. SUFFICES ASSUME NEW s \in Tasks, status'[s] = "pending"
        PROVE  /\ Promise(<<UnitOf(s, "wait_in"), s>>, use[s].in)'
               /\ use'[s].anti_dependency => Promise(<<UnitOf(s, "wait_anti_in"), s>>, use[s].anti_in)'
               /\ kind'[s] # "read" => use'[s].anti_dependency
               /\ \A q \in Tasks : Captured(q)' /\ Parent(q) = Parent(s) /\ Order!Before(q, s) =>
                    /\ kind'[s] = "read" /\ Writer(q)' => InPast(use[s].in, q)'
                    /\ kind'[s] = "write" => AntiPast(use[s].anti_in, q)'
    BY DEF WaitsCover, Parent
  <2>2. CASE s = p
    <3>1. PICK i, ai : i = v.in /\ ai = v.anti_in
      OBVIOUS
    <3>2. use'[s].in = i /\ use'[s].anti_in = ai /\ use'[s].anti_dependency /\ kind'[s] = "index"
      BY <1>3, <2>2, <3>1
    <3>3. Promise(<<UnitOf(p, "wait_in"), p>>, i)' /\ Promise(<<UnitOf(p, "wait_anti_in"), p>>, ai)'
      BY <3>1
    <3>4. Promise(<<UnitOf(s, "wait_in"), s>>, use[s].in)'
      BY <2>2, <3>2, <3>3
    <3>5. Promise(<<UnitOf(s, "wait_anti_in"), s>>, use[s].anti_in)'
      BY <2>2, <3>2, <3>3
    <3> QED BY <3>2, <3>4, <3>5
  <2>3. CASE s # p
    <3>1. s \in Users
      BY UsersRun
    <3>2. status[s] = "pending" /\ kind'[s] = kind[s] /\ use'[s] = use[s]
      BY <1>2, <1>3, <2>1, <2>3, <3>1
    <3>3. PICK i, ai : i = use[s].in /\ ai = use[s].anti_in
      OBVIOUS
    <3>4. use'[s].in = i /\ use'[s].anti_in = ai /\ (use'[s].anti_dependency <=> use[s].anti_dependency)
      BY <3>2, <3>3
    <3>5. /\ Promise(<<UnitOf(s, "wait_in"), s>>, i)
          /\ use[s].anti_dependency => Promise(<<UnitOf(s, "wait_anti_in"), s>>, ai)
      BY <1>0, <3>2, <3>3 DEF WaitsCover
    <3>6. kind[s] # "read" => use[s].anti_dependency
      BY <1>0, <3>2 DEF WaitsCover
    <3>7. Present(s)
      BY <3>2 DEF Present
    <3>8. ASSUME NEW q \in Tasks, Captured(q)', Parent(q) = Parent(s), Order!Before(q, s),
                 kind[s] \in {"read", "write"}
          PROVE  /\ kind[s] = "read" /\ Writer(q)' => InPast(i, q)'
                 /\ kind[s] = "write" => AntiPast(ai, q)'
      <4>1. q # p
        <5>1. SUFFICES ASSUME q = p PROVE FALSE
          OBVIOUS
        <5>2. s \in SubTasks
          BY <1>1, <3>8, <5>1, TaskKinds
        <5> QED BY <1>0, <1>1, <3>7, <3>8, <5>2 DEF Families
      <4>2. Captured(q) /\ (Writer(q)' <=> Writer(q))
        BY <1>2, <3>8, <4>1
      <4>3. /\ kind[s] = "read" /\ Writer(q) => InPast(i, q)
            /\ kind[s] = "write" => AntiPast(ai, q)
        BY <1>0, <3>2, <3>3, <3>8, <4>2 DEF WaitsCover
      <4> QED BY <1>2, <4>2, <4>3
    <3>9. Promise(<<UnitOf(s, "wait_in"), s>>, use[s].in)'
      BY <1>p, <3>4, <3>5
    <3>10. use'[s].anti_dependency => Promise(<<UnitOf(s, "wait_anti_in"), s>>, use[s].anti_in)'
      BY <1>p, <3>4, <3>5
    <3>11. \A q \in Tasks : Captured(q)' /\ Parent(q) = Parent(s) /\ Order!Before(q, s) =>
                    /\ kind'[s] = "read" /\ Writer(q)' => InPast(use[s].in, q)'
                    /\ kind'[s] = "write" => AntiPast(use[s].anti_in, q)'
      BY <3>2, <3>4, <3>8
    <3>12. kind'[s] # "read" => use'[s].anti_dependency
      BY <3>2, <3>4, <3>6
    <3> QED BY <3>9, <3>10, <3>11, <3>12
  <2> QED BY <2>2, <2>3
<1> QED BY <1>4, <1>5

\* Nothing that comes after it has started.
LEMMA IndexRest ==
  ASSUME Inv, OrderInv, NEW p, NEW T, NEW w, NEW v, IndexStep(p, T, w, v)
  PROVE  AliasesKept' /\ InKnown' /\ ReadyInOrder'
<1>0. AliasesKept /\ InKnown /\ ReadyInOrder
  BY DEF OrderInv
<1>1. /\ TypesOK /\ FreshTasks /\ p \in Tasks /\ p \in Users /\ p # Main /\ p \notin TopTasks
  BY IndexFacts
<1>2. /\ \A s \in Users : s # p => (Present(s)' <=> Present(s)) /\ status'[s] = status[s]
      /\ \A s \in Tasks : s # p => kind'[s] = kind[s]
      /\ \A q, s \in Tasks : q # p /\ s # p => (Order!Conflict(q, s)' <=> Order!Conflict(q, s))
  BY IndexFacts
<1>3. /\ p \in SubTasks /\ T = <<p[1]>> /\ T = <<captures[Main]>>
      /\ kind'[p] = "index" /\ use'[p] = v /\ status'[p] = "pending"
      /\ \A d \in Users : d # p => use'[d] = use[d]
      /\ v.in = UnitOf(p, "in") /\ Grown(p)
      /\ \A q \in SubTasks : q[1] = p[1] /\ q[2] > p[2] => status[q] = "unregistered"
  BY DEF IndexStep
<1>p. \A x, g : Promise(x, g) => Promise(x, g)'
  BY DEF IndexStep, PromisesStay
<1>4. AliasesKept'
  <2>1. SUFFICES ASSUME NEW s \in Tasks, status'[s] = "done", kind'[s] = "write", use'[s].establishes_alias
        PROVE  /\ Promise(<<<<use[s].id, "alias_out">>, use[s].out>>, use[s].in)'
               /\ Promise(<<<<use[s].id, "alias_anti_in">>, use[s].anti_in>>, use[s].anti_out)'
    BY DEF AliasesKept
  <2>2. s \in Users /\ s # p
    BY <1>3, <2>1, UsersRun
  <2>3. status[s] = "done" /\ kind[s] = "write" /\ use'[s] = use[s]
    BY <1>2, <1>3, <2>1, <2>2
  <2>4. PICK u : u = use[s]
    OBVIOUS
  <2>5. u.establishes_alias /\ use'[s] = u
    BY <2>1, <2>3, <2>4
  <2>6. /\ Promise(<<<<u.id, "alias_out">>, u.out>>, u.in)
        /\ Promise(<<<<u.id, "alias_anti_in">>, u.anti_in>>, u.anti_out)
    BY <1>0, <2>3, <2>4, <2>5 DEF AliasesKept
  <2>7. /\ Promise(<<<<u.id, "alias_out">>, u.out>>, u.in)'
        /\ Promise(<<<<u.id, "alias_anti_in">>, u.anti_in>>, u.anti_out)'
    BY <1>p, <2>6
  <2> QED BY <2>5, <2>7
<1>5. InKnown'
  <2>1. Known' = Known \cup {p} /\ v.in[1][1] = p
    BY <1>3 DEF Grown, UnitOf
  <2>2. ASSUME NEW d \in Users, Present(d)' PROVE use'[d].in[1][1] \in Known'
    <3>1. CASE d = p
      BY <1>3, <2>1, <3>1
    <3>2. CASE d # p
      <4>1. Present(d) /\ use'[d] = use[d]
        BY <1>2, <1>3, <2>2, <3>2
      <4> QED BY <1>0, <2>1, <4>1 DEF InKnown
    <3> QED BY <3>1, <3>2
  <2> QED BY <2>2 DEF InKnown
<1>6. ReadyInOrder'
  <2>1. SUFFICES ASSUME NEW q \in Tasks, NEW s \in Tasks, Order!Before(q, s), Order!Conflict(q, s)',
                        Present(q)', status'[s] \in {"ready", "running", "done"}
        PROVE  status'[q] = "done"
    BY DEF ReadyInOrder
  <2>2. q \in Users /\ s \in Users /\ s # p
    BY <1>3, <2>1, UsersRun
  <2>3. status[s] \in {"ready", "running", "done"}
    BY <1>2, <2>1, <2>2
  <2>4. q # p
    <3>1. SUFFICES ASSUME q = p PROVE FALSE
      OBVIOUS
    <3>2. \/ p[1] < s[1]
          \/ s \in SubTasks /\ p[1] = s[1] /\ p[2] < s[2]
      BY <1>1, <2>1, <3>1, BeforeIs
    <3>3. /\ p[1] \in Nat /\ s[1] \in Nat /\ p[2] \in Nat /\ (s \in SubTasks => s[2] \in Nat)
          /\ captures[Main] = p[1]
      <4>1. p[1] \in Nat /\ s[1] \in Nat /\ p[2] \in Nat /\ (s \in SubTasks => s[2] \in Nat)
        BY <1>1, <1>3, TaskKinds
      <4>2. captures[Main] = p[1]
        BY <1>3
      <4> QED BY <4>1, <4>2
    <3>4. CASE p[1] < s[1]
      <4>1. ~(s[1] <= captures[Main])
        BY <3>3, <3>4
      <4> QED BY <1>1, <2>3, <4>1, NotYet
    <3>5. CASE s \in SubTasks /\ p[1] = s[1] /\ p[2] < s[2]
      <4>1. s[2] > p[2]
        BY <3>3, <3>5
      <4>2. status[s] = "unregistered"
        BY <1>3, <3>5, <4>1
      <4> QED BY <2>3, <4>2
    <3> QED BY <3>2, <3>4, <3>5
  <2>5. Present(q) /\ Order!Conflict(q, s)
    BY <1>2, <2>1, <2>2, <2>4
  <2>6. status[q] = "done"
    BY <1>0, <2>1, <2>3, <2>5 DEF ReadyInOrder
  <2> QED BY <1>2, <2>2, <2>4, <2>6
<1> QED BY <1>4, <1>5, <1>6

\* One more index of a collection is registered in order.
LEMMA RegisterIndexOrder ==
  ASSUME Inv, OrderInv, NEW a \in Threads, DoRegister(a), Head(agenda[a]).index <= Indices
  PROVE  OrderInv'
<1>0. TypesOK /\ FreshTasks /\ RegistersOK /\ RegistersHome /\ IndicesCome
  BY DEF Inv, OrderInv
<1>1. PICK op, w, i, T, p, id, rels, v, rest, R, M :
        /\ op = Head(agenda[a]) /\ w = op.use /\ i = op.index /\ T = op.task
        /\ p = Append(T, i) /\ id = <<p, "captured">> /\ rels = IndexRels(w)
        /\ v = Registered(id, rels, TRUE) /\ rest = RegisterFrom(T, i + 1, w)
        /\ R = RegisterUse(id, rels, TRUE) /\ M = MakePendingTask(p, v)
  OBVIOUS
<1>2. agenda[a] # <<>> /\ op.do = "register"
  BY <1>1 DEF DoRegister, IsNext
<1>3. op \in Ops /\ w \in Uses /\ i \in Nat /\ T \in TopTasks /\ op \in Registers(agenda[a])
  <2>1. op \in Ops
    BY <1>1, <1>2, HeadFacts
  <2>2. op \in Registers(agenda[a])
    BY <1>0, <1>1, <1>2, RegistersTail DEF TypesOK
  <2> QED BY <1>1, <1>2, <2>1, <2>2, OpKinds
<1>4. GoodRegister(op)
  BY <1>0, <1>3 DEF RegistersOK
<1>5. /\ Indices > 0 /\ T \in Known /\ i \in 1..Indices /\ w.id = <<T, "captured">>
      /\ w.out = <<w.id, "out">> /\ w.anti_in[1][1] \in Known
      /\ status[p] = "unregistered"
      /\ \A j \in i..Indices : status[Append(T, j)] = "unregistered"
  <2>1. w = op.use /\ i = op.index /\ T = op.task /\ p = Append(T, i)
    BY <1>1
  <2>2. op.index <= Indices
    BY <1>1
  <2>3. /\ Indices > 0 /\ op.task \in Known /\ op.index \in 1..Indices
        /\ op.use.id = <<op.task, "captured">> /\ op.use.out = <<op.use.id, "out">>
        /\ op.use.anti_in[1][1] \in Known
        /\ status[Append(op.task, op.index)] = "unregistered"
        /\ \A j \in op.index..Indices : status[Append(op.task, j)] = "unregistered"
    BY <1>4, <2>2, IndexNext
  <2> QED BY <2>1, <2>3
<1>6. p \in SubTasks /\ p \in Tasks /\ p \in Users /\ p # Main /\ p = <<T[1], i>>
  <2>1. p \in SubTasks /\ p = <<T[1], i>>
    BY <1>1, <1>3, <1>5, TopSubTask
  <2>2. p # <<>>
    BY <2>1
  <2> QED BY <2>1, <2>2, UsersRun DEF Tasks, Main
<1>7. T = <<p[1]>> /\ p[1] = T[1] /\ p[2] = i /\ T # p
  <2>1. T = <<T[1]>> /\ Len(T) = 1
    BY <1>3, TopShape
  <2>2. p[1] = T[1] /\ p[2] = i /\ Len(p) = 2
    BY <1>6
  <2> QED BY <2>1, <2>2
<1>8. /\ a = Main /\ T = <<captures[Main]>> /\ IsCollection(T)
      /\ w.anti_out = AntiOut(T) /\ w.anti_in # None
      /\ \A q \in TopTasks : Captured(q) /\ q[1] < p[1] => AntiPast(w.anti_in, q)
  BY <1>0, <1>1, <1>3, <1>7, ZenonT(60), SMTT(30) DEF RegistersHome
<1>9. /\ agenda' = [agenda EXCEPT ![a] = ((R \o M) \o <<rest>>) \o Tail(@)]
      /\ use' = [use EXCEPT ![p] = v]
      /\ count' = [f \in Flows |-> IF f \in NewFlows(id, rels) THEN 1 ELSE count[f]]
      /\ kind' = [kind EXCEPT ![p] = "index"]
      /\ status' = [status EXCEPT ![p] = "pending"]
      /\ actions' = actions /\ captures' = captures
  <2>1. ~(Head(agenda[a]).index > Indices)
    BY <1>1, <1>5, BoundsAssumption
  <2>2. /\ agenda' = [agenda EXCEPT ![a] = ((R \o M) \o <<rest>>) \o Tail(@)]
        /\ use' = [use EXCEPT ![p] = v]
        /\ kind' = [kind EXCEPT ![p] = "index"]
        /\ status' = [status EXCEPT ![p] = "pending"]
    BY <1>1, <2>1, ZenonT(60), SMTT(30) DEF DoRegister
  <2>3. /\ count' = [f \in Flows |-> IF f \in NewFlows(id, rels) THEN 1 ELSE count[f]]
    BY <1>1, <2>1, ZenonT(60), SMTT(30) DEF DoRegister
  <2>4. actions' = actions /\ captures' = captures
    BY DEF DoRegister
  <2> QED BY <2>2, <2>3, <2>4
<1>10. /\ v \in Uses /\ v.id = id /\ v.in = <<id, "in">>
       /\ v.anti_dependency = TRUE
       /\ v.out = <<id, "out">> /\ v.anti_out = <<id, "anti_out">>
       /\ v.anti_in = <<id, "anti_in">>
       /\ Sound(R) /\ Names(R) \subseteq {id} \X {"in", "anti_in", "link_out", "link_anti_out"}
  <2> DEFINE ident == <<p, "captured">>
             part == Registered(ident, IndexRels(w), TRUE)
             ops == RegisterUse(ident, IndexRels(w), TRUE)
  <2>1. /\ part \in Uses /\ part.id = ident /\ part.in = <<ident, "in">>
        /\ part.anti_dependency = TRUE
        /\ part.out = <<ident, "out">> /\ part.anti_out = <<ident, "anti_out">>
        /\ part.anti_in = (IF w.anti_in = None THEN None ELSE <<ident, "anti_in">>)
        /\ Sound(ops)
        /\ Names(ops) \subseteq {ident} \X {"in", "anti_in", "link_out", "link_anti_out"}
    BY <1>3, <1>6, IndexedUse
  <2>2. ident = id /\ part = v /\ ops = R
    BY <1>1
  <2> HIDE DEF ident, part, ops
  <2> QED BY <1>8, <2>1, <2>2
<1>11. /\ Sound(M) /\ Names(M) \subseteq {id} \X {"wait_in", "wait_anti_in", "setup"}
  BY <1>1, <1>6, <1>10, Making, ZenonT(120), SMTT(30)
<1>12. Known' = Known \cup {p} /\ p \notin Known
  BY <1>0, <1>5, <1>6, <1>9, KnownIndex
<1>13. PICK RM, one, X : RM = R \o M /\ one = <<rest>> /\ X = RM \o one
  OBVIOUS
<1>14. /\ RM \in Seq(Ops) /\ R \in Seq(Ops) /\ M \in Seq(Ops) /\ Registers(RM) = {}
  <2>1. Names(R) \cap Names(M) = {}
    BY <1>10, <1>11
  <2>2. Sound(RM)
    BY <1>10, <1>11, <1>13, <2>1, SoundConcat
  <2> QED BY <1>10, <1>11, <2>2 DEF Sound
<1>15. /\ rest \in Ops /\ rest.do = "register" /\ rest.task = T /\ rest.index = i + 1 /\ rest.use = w
       /\ one \in Seq(Ops) /\ Registers(one) = {rest}
  <2>1. rest \in Ops /\ rest.do = "register" /\ rest.task = T /\ rest.index = i + 1 /\ rest.use = w
    <3>1. PICK n : n = i + 1
      OBVIOUS
    <3>2. n \in Nat /\ rest = RegisterFrom(T, n, w)
      BY <1>1, <1>3, <3>1
    <3>3. rest \in Ops /\ rest.do = "register"
      BY <1>3, <3>2, RegisterOp
    <3>4. rest.task = T /\ rest.index = n /\ rest.use = w
      BY <3>2 DEF RegisterFrom
    <3> QED BY <3>1, <3>3, <3>4
  <2>2. <<rest>> \in Seq(Ops) /\ Registers(<<rest>>) = {rest}
    BY <2>1, SingleOps, RegistersSingle
  <2> QED BY <1>13, <2>1, <2>2
<1>16. X \in Seq(Ops) /\ Registers(X) = {rest}
  <2>1. X \in Seq(Ops)
    BY <1>13, <1>14, <1>15, ConcatOps
  <2>2. Registers(X) = Registers(RM) \cup Registers(one)
    BY <1>13, <1>14, <1>15, RegistersConcat
  <2> QED BY <1>14, <1>15, <2>1, <2>2
<1>17. AgendaStep(a, X)
  <2>1. agenda' = [agenda EXCEPT ![a] = X \o Tail(@)]
    BY <1>9, <1>13
  <2> QED BY <1>0, <1>2, <1>16, <2>1, DropHead
<1>18. StillAwaited(a)
  <2>1. PICK New : New = NewFlows(id, rels)
    OBVIOUS
  <2>2. \A f \in New : f[1][1] = p
    BY <1>1, <2>1 DEF NewFlows
  <2>3. Head(agenda[a]).do # "attach"
    BY <1>1, <1>2
  <2> QED BY <1>9, <1>12, <2>1, <2>2, <2>3, MadeAwaited
<1>19. PromisesStay
  BY <1>0, <1>12, <1>16, <1>17, <1>18, PromiseKept
<1>20. /\ use'[p] = v /\ status'[p] = "pending" /\ kind'[p] = "index"
       /\ \A c \in Users : c # p => use'[c] = use[c] /\ status'[c] = status[c]
       /\ \A c \in Tasks : c # p => kind'[c] = kind[c]
  BY <1>0, <1>6, <1>9, <1>10 DEF TypesOK
<1>21. Grown(p)
  BY <1>6, <1>12, <1>20, UsersRun DEF Grown
<1>22. \A q \in SubTasks : q[1] = p[1] /\ q[2] > p[2] => status[q] = "unregistered"
  <2>1. SUFFICES ASSUME NEW q \in SubTasks, q[1] = p[1], q[2] > p[2] PROVE status[q] = "unregistered"
    OBVIOUS
  <2>2. q = <<q[1], q[2]>> /\ q[2] \in Nat /\ q[2] \in 1..(IF Indices = 0 THEN Subwidth ELSE Indices)
    BY SubShape
  <2>3. Indices # 0
    BY <1>5, BoundsAssumption
  <2>4. PICK j : j = q[2]
    OBVIOUS
  <2>5. j \in 1..Indices /\ j > i
    BY <1>7, <2>1, <2>2, <2>3, <2>4
  <2>6. j \in i..Indices
    BY <1>3, <2>5, BoundsAssumption
  <2>7. Append(T, j) = <<T[1], j>>
    BY <1>3, <1>5, <2>5, TopSubTask
  <2>8. q = Append(T, j)
    BY <1>7, <2>1, <2>2, <2>4, <2>7
  <2> QED BY <1>5, <2>6, <2>8
<1>23. w.anti_in \in Flows /\ w.out \in Flows /\ w.anti_out \in Flows
  BY <1>3 DEF Uses
<1>24. IndexStep(p, T, w, v)
  <2>1. v.in = UnitOf(p, "in") /\ v.out = Out(p) /\ v.anti_out = AntiOut(p) /\ v.anti_in = UnitOf(p, "anti_in")
    BY <1>1, <1>10, ZenonT(60), SMTT(30) DEF UnitOf, Out, AntiOut
  <2> QED BY <1>6, <1>7, <1>8, <1>9, <1>10, <1>19, <1>20, <1>21, <1>22, <1>23, <2>1 DEF IndexStep
<1>25. WritersHold' /\ Families' /\ ScopesCover' /\ AliasesKept' /\ InKnown' /\ ReadyInOrder'
  BY <1>24, IndexWriters, IndexRest
<1>26. PICK o, ao, ai, i2, g, lo, la, ua, wi, wai, dlo, dla, dai, si, sai :
         /\ o = Out(p) /\ ao = AntiOut(p) /\ ai = UnitOf(p, "anti_in") /\ i2 = UnitOf(p, "in")
         /\ g = w.anti_in /\ lo = UnitOf(p, "link_out") /\ la = UnitOf(p, "link_anti_out") /\ ua = ai
         /\ wi = UnitOf(p, "wait_in") /\ wai = UnitOf(p, "wait_anti_in")
         /\ dlo = Decrement(w.out, lo) /\ dla = Decrement(w.anti_out, la) /\ dai = Decrement(ai, ua)
         /\ si = Satisfy(p, wi) /\ sai = Satisfy(p, wai)
  OBVIOUS
<1>27. v.in = i2 /\ v.anti_in = ai /\ w.out = Out(T) /\ w.anti_out = AntiOut(T)
       /\ wi = <<v.id, "wait_in">> /\ wai = <<v.id, "wait_anti_in">>
  BY <1>1, <1>5, <1>8, <1>10, <1>26 DEF UnitOf, Out
<1>28. /\ Has(R, Attach(o, dlo)) /\ Has(R, Attach(ao, dla)) /\ Has(R, Attach(g, dai))
  <2> DEFINE ops == RegisterUse(<<p, "captured">>, IndexRels(w), TRUE)
  <2>1. /\ Has(ops, Attach(Out(p), Decrement(w.out, UnitOf(p, "link_out"))))
        /\ Has(ops, Attach(AntiOut(p), Decrement(w.anti_out, UnitOf(p, "link_anti_out"))))
        /\ w.anti_in # None =>
              Has(ops, Attach(w.anti_in, Decrement(UnitOf(p, "anti_in"), UnitOf(p, "anti_in"))))
    BY <1>3, <1>6, IndexAttached
  <2>2. ops = R
    BY <1>1
  <2> HIDE DEF ops
  <2> QED BY <1>8, <1>26, <2>1, <2>2
<1>29. Has(M, Attach(i2, si)) /\ Has(M, Attach(ai, sai))
  BY <1>1, <1>6, <1>10, <1>26, <1>27, WaitsAttached
<1>30. /\ Has(X, Attach(o, dlo)) /\ Has(X, Attach(ao, dla)) /\ Has(X, Attach(g, dai))
       /\ Has(X, Attach(i2, si)) /\ Has(X, Attach(ai, sai))
  <2>1. /\ Has(RM, Attach(o, dlo)) /\ Has(RM, Attach(ao, dla)) /\ Has(RM, Attach(g, dai))
        /\ Has(RM, Attach(i2, si)) /\ Has(RM, Attach(ai, sai))
    BY <1>13, <1>14, <1>28, <1>29, HasConcat
  <2> QED BY <1>13, <1>14, <1>15, <2>1, HasConcat
<1>31. /\ o \in Flows /\ ao \in Flows /\ ai \in Flows /\ i2 \in Flows /\ g \in Flows
       /\ lo \in FlowUnits /\ la \in FlowUnits /\ ua \in FlowUnits
       /\ wi \in WaitUnits /\ wai \in WaitUnits
  BY <1>6, <1>23, <1>26, UnitNames
<1>32. /\ o[1][1] \in Known' /\ ao[1][1] \in Known' /\ ai[1][1] \in Known' /\ i2[1][1] \in Known'
       /\ g[1][1] \in Known'
  <2>1. o[1][1] = p /\ ao[1][1] = p /\ ai[1][1] = p /\ i2[1][1] = p
    BY <1>26 DEF Out, AntiOut, UnitOf
  <2> QED BY <1>5, <1>12, <1>26, <2>1
<1>33. /\ dlo \in Payloads /\ OwedByOp(dlo) = {<<lo, w.out>>}
       /\ dla \in Payloads /\ OwedByOp(dla) = {<<la, w.anti_out>>}
       /\ dai \in Payloads /\ OwedByOp(dai) = {<<ua, ai>>}
       /\ si \in Payloads /\ OwedByOp(si) = {<<wi, p>>} /\ sai \in Payloads /\ OwedByOp(sai) = {<<wai, p>>}
  BY <1>6, <1>23, <1>26, <1>31, DecrementOp, SatisfyOp, SMTT(60), ZenonT(60)
<1>34. PICK wo, wao : wo = w.out /\ wao = w.anti_out
  OBVIOUS
<1>35. /\ Promise(<<lo, wo>>, o)' /\ Promise(<<la, wao>>, ao)' /\ Promise(<<ua, ai>>, g)'
  BY <1>0, <1>16, <1>17, <1>30, <1>31, <1>32, <1>33, <1>34, PromiseOf
<1>36. Promise(<<wi, p>>, i2)' /\ Promise(<<wai, p>>, ai)'
  BY <1>0, <1>16, <1>17, <1>30, <1>31, <1>32, <1>33, PromiseOf
<1>37. IndexUses' /\ WaitsCover'
  <2>1. /\ Promise(<<UnitOf(p, "wait_in"), p>>, v.in)' /\ Promise(<<UnitOf(p, "wait_anti_in"), p>>, v.anti_in)'
    BY <1>26, <1>27, <1>36
  <2>2. /\ Promise(<<UnitOf(p, "link_out"), Out(T)>>, Out(p))'
        /\ Promise(<<UnitOf(p, "link_anti_out"), AntiOut(T)>>, AntiOut(p))'
        /\ Promise(<<UnitOf(p, "anti_in"), v.anti_in>>, w.anti_in)'
    BY <1>26, <1>27, <1>34, <1>35
  <2> QED BY <1>24, <2>1, <2>2, IndexWaits
<1>38. /\ \A s \in Users : s # p => (Present(s)' <=> Present(s))
       /\ \A s \in Tasks : s # p => /\ IsCollection(s)' <=> IsCollection(s)
                                    /\ Captured(s)' <=> Captured(s)
       /\ \A f : \A q \in Tasks : AntiPast(f, q) => AntiPast(f, q)'
       /\ p \notin TopTasks /\ Present(p)'
  BY <1>24, IndexFacts
<1>39. ASSUME NEW th \in Threads, NEW op2 \in Registers(agenda'[th])
       PROVE  op2 \in Registers(agenda[th]) \/ (th = a /\ op2 = rest)
  <2>1. CASE th = a
    <3>1. Registers(agenda'[a]) = Registers(X) \cup Registers(Rest(a))
      BY <1>0, <1>16, <1>17, AgendaAfter
    <3>2. Registers(Rest(a)) \subseteq Registers(agenda[a])
      BY <1>0, RestFacts
    <3> QED BY <1>16, <1>39, <2>1, <3>1, <3>2
  <2>2. CASE th # a
    BY <1>0, <1>16, <1>17, <1>39, <2>2, AgendaAfter
  <2> QED BY <2>1, <2>2
<1>40. RegistersHome'
  <2>1. SUFFICES ASSUME NEW th \in Threads, NEW op2 \in Registers(agenda'[th])
        PROVE  /\ th = Main /\ op2.task = <<captures'[Main]>> /\ IsCollection(op2.task)'
               /\ op2.use.anti_out = AntiOut(op2.task) /\ op2.use.anti_in # None
               /\ \A q \in TopTasks : Captured(q)' /\ q[1] < op2.task[1] => AntiPast(op2.use.anti_in, q)'
    BY DEF RegistersHome
  <2>2. PICK op3 \in Registers(agenda[th]) : op2.task = op3.task /\ op2.use = op3.use
    <3>1. CASE op2 \in Registers(agenda[th])
      BY <3>1
    <3>2. CASE th = a /\ op2 = rest
      BY <1>1, <1>3, <1>15, <3>2
    <3> QED BY <1>39, <2>1, <3>1, <3>2
  <2>3. /\ th = Main /\ op3.task = <<captures[Main]>> /\ IsCollection(op3.task)
        /\ op3.use.anti_out = AntiOut(op3.task) /\ op3.use.anti_in # None
        /\ \A q \in TopTasks : Captured(q) /\ q[1] < op3.task[1] => AntiPast(op3.use.anti_in, q)
    BY <1>0 DEF RegistersHome
  <2>4. PICK s, f : s = op3.task /\ f = op3.use.anti_in
    OBVIOUS
  <2>5. s \in Tasks /\ s # p /\ IsCollection(s)
    BY <1>38, <2>3, <2>4 DEF IsCollection, Tasks
  <2>6. IsCollection(s)'
    BY <1>38, <2>5
  <2>7. ASSUME NEW q \in TopTasks, Captured(q)', q[1] < s[1] PROVE AntiPast(f, q)'
    <3>1. q \in Tasks /\ q # p
      BY <1>38 DEF Tasks
    <3>2. Captured(q)
      BY <1>38, <2>7, <3>1
    <3>3. AntiPast(f, q)
      BY <2>3, <2>4, <2>7, <3>2
    <3> QED BY <1>38, <3>1, <3>3
  <2> QED BY <1>9, <2>2, <2>3, <2>4, <2>6, <2>7
<1>41. IndicesCome'
  <2>1. SUFFICES ASSUME NEW q \in SubTasks, IsCollection(<<q[1]>>)', ~Present(q)'
                 PROVE  \E op2 \in Registers(agenda'[Main]) : op2.task = <<q[1]>> /\ op2.index <= q[2]
    BY DEF IndicesCome
  <2>2. PICK s : s = <<q[1]>>
    OBVIOUS
  <2>3. s \in Tasks /\ q \in Users /\ s \in TopTasks /\ s # p /\ q # p /\ Main \in Threads
    BY <1>38, <2>1, <2>2, SubShape, UsersRun DEF Tasks
  <2>4. IsCollection(s) /\ ~Present(q)
    BY <1>38, <2>1, <2>2, <2>3
  <2>5. PICK op2 \in Registers(agenda[Main]) : op2.task = s /\ op2.index <= q[2]
    BY <1>0, <2>2, <2>4 DEF IndicesCome
  <2>6. PICK k \in DOMAIN agenda[Main] : op2 = agenda[Main][k] /\ op2.do = "register"
    BY <2>5 DEF Registers
  <2>7. CASE k = 1
    <3>1. op2 = op
      BY <1>0, <1>1, <1>2, <1>8, <2>6, <2>7, HeadTyped
    <3>2. q[1] = T[1] /\ i <= q[2]
      BY <1>1, <2>2, <2>5, <3>1
    <3>3. q = <<q[1], q[2]>> /\ q[2] \in Nat
      BY SubShape
    <3>4. q[2] # i
      BY <1>6, <2>3, <3>2, <3>3
    <3>5. PICK j : j = q[2]
      OBVIOUS
    <3>6. i + 1 <= j
      BY <1>3, <3>2, <3>3, <3>4, <3>5
    <3>7. rest \in Registers(agenda'[Main])
      <4>1. Registers(agenda'[a]) = Registers(X) \cup Registers(Rest(a))
        BY <1>0, <1>16, <1>17, AgendaAfter
      <4> QED BY <1>8, <1>16, <4>1
    <3> QED BY <1>1, <1>15, <2>2, <2>5, <3>1, <3>5, <3>6, <3>7
  <2>8. CASE k # 1
    <3>1. \E j \in DOMAIN agenda'[Main] : agenda'[Main][j] = agenda[Main][k]
      BY <1>0, <1>16, <1>17, <2>3, <2>6, <2>8, OpStays
    <3>2. op2 \in Registers(agenda'[Main])
      BY <2>6, <3>1 DEF Registers
    <3> QED BY <2>2, <2>5, <3>2
  <2> QED BY <2>7, <2>8
<1> QED BY <1>25, <1>37, <1>40, <1>41 DEF OrderInv

-----------------------------------------------------------------------------
(* Every task is in order                                                   *)

\* At first there is only the main program.
LEMMA InitOrder == Init => OrderInv
<1> SUFFICES ASSUME Init PROVE OrderInv
  OBVIOUS
<1> DEFINE id  == <<Main, "captured">>
           v   == Registered(id, InitialRels, FALSE)
           ops == RegisterUse(id, InitialRels, FALSE)
<1>1. v.in = <<id, "in">> /\ ~v.anti_dependency /\ Sound(ops)
  <2>1. ~v.anti_dependency /\ Sound(ops)
    BY InitialUse
  <2>2. v.in = <<id, "in">>
    BY DEF Registered, InitialRels, FlowFor, IsNew, Relationship
  <2> QED BY <2>1, <2>2
<1>2. /\ use = [c \in Users |-> v]
      /\ agenda = [th \in Threads |-> IF th = Main THEN ops ELSE <<>>]
      /\ captures = [c \in Users |-> 0]
      /\ status = [c \in Users |-> IF c = Main THEN "running" ELSE "unregistered"]
  BY DEF Init, Users
<1>3. id[1] = Main
  OBVIOUS
<1> HIDE DEF v, ops, id
<1>4. /\ use[Main] = v /\ captures[Main] = 0
      /\ \A t \in Tasks : status[t] = "unregistered" /\ t # Main
      /\ \A th \in Threads : agenda[th] = IF th = Main THEN ops ELSE <<>>
  BY <1>2, UsersRun, TaskKinds
<1>5. \A th \in Threads : Registers(agenda[th]) = {}
  <2>1. Registers(ops) = {}
    BY <1>1 DEF Sound
  <2>2. Registers(<<>>) = {}
    BY DEF Registers
  <2> QED BY <1>4, <2>1, <2>2
<1>6. \A t \in TopTasks : t \notin Known
  <2>1. SUFFICES ASSUME NEW t \in TopTasks PROVE t \notin Known
    OBVIOUS
  <2>2. t[1] \in 1..Width /\ t \notin SubTasks /\ t # Main
    BY TasksApart
  <2>3. ~(t[1] <= captures[Main])
    BY <1>4, <2>2, BoundsAssumption
  <2> QED BY <2>2, <2>3 DEF Known
<1>7. \A t \in Tasks : ~Present(t) /\ ~IsCollection(t) /\ ~Captured(t)
  <2>1. \A t \in Tasks : ~Present(t) /\ ~IsCollection(t)
    BY <1>4, <1>6 DEF Present, IsCollection
  <2> QED BY <2>1 DEF Captured
<1>8. TopTasks \subseteq Tasks /\ SubTasks \subseteq Tasks
  BY DEF Tasks
<1>9. RegistersHome
  BY <1>5 DEF RegistersHome
<1>10. IndicesCome
  <2>1. \A q \in SubTasks : ~IsCollection(<<q[1]>>)
    BY <1>6 DEF IsCollection
  <2> QED BY <2>1 DEF IndicesCome
<1>11. Families /\ WritersHold /\ IndexUses
  BY <1>1, <1>4, <1>7, <1>8 DEF Families, WritersHold, IndexUses
<1>12. ScopesCover
  BY <1>7 DEF ScopesCover
<1>13. WaitsCover /\ AliasesKept
  BY <1>4 DEF WaitsCover, AliasesKept
<1>14. InKnown
  <2>1. SUFFICES ASSUME NEW c \in Users, Present(c) PROVE use[c].in[1][1] \in Known
    BY DEF InKnown
  <2>2. c = Main
    BY <1>7, <2>1 DEF Users
  <2>3. use[c].in = <<id, "in">>
    BY <1>1, <1>4, <2>2
  <2>4. use[c].in[1][1] = Main
    BY <1>3, <2>3
  <2> QED BY <2>4 DEF Known
<1>15. ReadyInOrder
  BY <1>7 DEF ReadyInOrder
<1> QED BY <1>9, <1>10, <1>11, <1>12, <1>13, <1>14, <1>15 DEF OrderInv

\* Every step keeps tasks in order.
LEMMA NextOrder == ASSUME Inv, OrderInv, [Next]_vars PROVE OrderInv'
<1>1. ASSUME NEW th \in Threads, Step(th) PROVE OrderInv'
  <2>1. CASE DoIncrement(th)
    BY <2>1, IncrementOrder
  <2>2. CASE DoDecrement(th)
    BY <2>2, DecrementOrder
  <2>3. CASE DoAttach(th)
    BY <2>3, AttachOrder
  <2>4. CASE DoEnqueue(th)
    BY <2>4, EnqueueOrder
  <2>5. CASE DoSatisfy(th)
    BY <2>5, SatisfyOrder
  <2>6. CASE DoRegister(th)
    <3>1. Head(agenda[th]).index \in Nat
      <4>1. agenda[th] # <<>> /\ Head(agenda[th]).do = "register"
        BY <2>6 DEF DoRegister, IsNext
      <4> QED BY <4>1, HeadFacts, OpKinds
    <3>2. CASE Head(agenda[th]).index > Indices
      BY <2>6, <3>2, RegisterLastOrder
    <3>3. CASE Head(agenda[th]).index <= Indices
      BY <2>6, <3>3, RegisterIndexOrder
    <3> QED BY <3>1, <3>2, <3>3, BoundsAssumption
  <2> QED BY <1>1, <2>1, <2>2, <2>3, <2>4, <2>5, <2>6 DEF Step
<1>2. ASSUME NEW c \in {Main} \cup TopTasks, NEW k \in {"read", "write"}, CaptureTask(c, k)
      PROVE  OrderInv'
  BY <1>2, CaptureTaskOrder
<1>3. CASE CaptureCollection
  BY <1>3, CaptureCollectionOrder
<1>4. ASSUME NEW t \in Tasks, Start(t) PROVE OrderInv'
  BY <1>4, StartOrder
<1>5. ASSUME NEW c \in {Main} \cup Tasks, Finish(c) PROVE OrderInv'
  <2>1. c \in Users
    BY DEF Users
  <2> QED BY <1>5, <2>1, FinishOrder
<1>6. ASSUME NEW w \in Helpers, RunCallable(w) PROVE OrderInv'
  BY <1>6, RunCallableOrder
<1>7. CASE UNCHANGED vars
  BY <1>7, StutterOrder
<1> QED BY <1>1, <1>2, <1>3, <1>4, <1>5, <1>6, <1>7 DEF Next

\* What is ready, runs or is done has found everything before it that it conflicts with
\* done, for any width and depth of the program and any number of indices and workers.
THEOREM FlowsOrderInvariant == Spec => [](Inv /\ OrderInv)
<1>1. Init => Inv /\ OrderInv
  BY InitInv, InitOrder
<1>2. Inv /\ OrderInv /\ [Next]_vars => (Inv /\ OrderInv)'
  BY NextInv, NextOrder
<1> QED BY <1>1, <1>2, PTL DEF Spec

-----------------------------------------------------------------------------
(* The flows implement the order                                            *)

\* A task that starts or is done is the only one whose status changes.
LEMMA OrderMoves ==
  ASSUME NEW t \in Tasks, NEW v \in {"running", "done"},
         \A s \in Tasks : status'[s] = IF s = t THEN v ELSE status[s]
  PROVE  OrderStatus' = [OrderStatus EXCEPT ![t] = v]
<1>1. \A s \in Tasks : OrderStatus'[s] = IF s = t THEN v ELSE OrderStatus[s]
  BY DEF OrderStatus
<1>2. OrderStatus' = [s \in Tasks |-> OrderStatus'[s]]
  BY DEF OrderStatus
<1>3. OrderStatus = [s \in Tasks |-> OrderStatus[s]]
  BY DEF OrderStatus
<1> QED BY <1>1, <1>2, <1>3

\* A step that changes no status but between pending and ready is none of the order's.
LEMMA OrderStutters ==
  ASSUME kind' = kind,
         \A t \in Tasks : \/ status'[t] = status[t]
                          \/ status[t] = "pending" /\ status'[t] = "ready"
  PROVE  UNCHANGED Order!orderVars
<1>1. OrderStatus' = OrderStatus
  BY DEF OrderStatus
<1> QED BY <1>1 DEF Order!orderVars

\* Registering a task is a step of the order, when none after it has started.
LEMMA OrderRegisters ==
  ASSUME TypesOK, NEW t \in Tasks, NEW k \in {"read", "write", "index"},
         status[t] = "unregistered", status' = [status EXCEPT ![t] = "pending"],
         kind' = [kind EXCEPT ![t] = k],
         \A q \in Tasks : Order!Before(t, q) => status[q] \notin {"ready", "running", "done"}
  PROVE  Order!Next
<1>1. PICK S : S = {t}
  OBVIOUS
<1>2. S \in SUBSET Tasks /\ k \in Order!Kinds /\ S # {}
  BY <1>1 DEF Order!Kinds
<1>3. \A q \in Tasks : /\ status'[q] = IF q = t THEN "pending" ELSE status[q]
                       /\ kind'[q] = IF q = t THEN k ELSE kind[q]
  BY UsersRun DEF TypesOK
<1>4. OrderStatus' = [q \in Tasks |-> IF q \in S THEN "registered" ELSE OrderStatus[q]]
  BY <1>1, <1>3 DEF OrderStatus
<1>5. kind' = [q \in Tasks |-> IF q \in S THEN k ELSE kind[q]]
  BY <1>1 DEF TypesOK
<1>6. \A q \in S : OrderStatus[q] = "unregistered"
  BY <1>1 DEF OrderStatus
<1>7. Order!Register(S, k)
  BY <1>2, <1>4, <1>5, <1>6 DEF Order!Register
<1>8. Order!InOrder(S, k)
  <2>1. \A q \in Tasks : OrderStatus[q] \in {"running", "done"} => status[q] \in {"running", "done"}
    BY DEF OrderStatus
  <2> QED BY <1>1, <2>1 DEF Order!InOrder
<1> QED BY <1>2, <1>7, <1>8 DEF Order!Next

\* Every step of the flows is one of the order, or none.
LEMMA NextImplementsOrder ==
  ASSUME Inv, OrderInv, [Next]_vars PROVE [Order!Next]_(Order!orderVars)
<1>0. TypesOK /\ FreshTasks /\ RegistersOK /\ WaitsPending /\ RegistersHome /\ ReadyInOrder
  BY DEF Inv, OrderInv
<1> DEFINE goal == [Order!Next]_(Order!orderVars)
<1>a. ASSUME kind' = kind,
             \A t \in Tasks : \/ status'[t] = status[t]
                              \/ status[t] = "pending" /\ status'[t] = "ready"
      PROVE  goal
  BY <1>a, OrderStutters
<1>1. ASSUME NEW th \in Threads, Step(th) PROVE goal
  <2>1. CASE DoIncrement(th) \/ DoDecrement(th) \/ DoAttach(th) \/ DoEnqueue(th)
    <3>1. kind' = kind /\ status' = status
      BY <2>1 DEF DoIncrement, DoDecrement, DoAttach, DoEnqueue
    <3> QED BY <1>a, <3>1
  <2>2. CASE DoSatisfy(th)
    <3>1. PICK h, t, x : h = Head(agenda[th]) /\ t = h.counter /\ x = <<h.unit, t>>
      OBVIOUS
    <3>2. /\ agenda[th] # <<>> /\ h.do = "satisfy" /\ kind' = kind
          /\ status' = IF need[t] = 1 THEN [status EXCEPT ![t] = "ready"] ELSE status
      BY <2>2, <3>1 DEF DoSatisfy, IsNext
    <3>3. h \in Ops /\ h.unit \in WaitUnits /\ t \in Tasks
      BY <3>1, <3>2, HeadFacts, OpKinds
    <3>4. status[t] = "pending"
      <4>1. x \in OwedByOp(h)
        BY <3>1, <3>2 DEF OwedByOp
      <4>2. x \in Owed
        BY <3>1, <3>2, <4>1, HeadFacts
      <4> QED BY <1>0, <3>1, <3>3, <4>2 DEF WaitsPending
    <3>5. \A s \in Tasks : \/ status'[s] = status[s]
                           \/ status[s] = "pending" /\ status'[s] = "ready"
      BY <1>0, <3>2, <3>4, UsersRun DEF TypesOK
    <3> QED BY <1>a, <3>2, <3>5
  <2>3. CASE DoRegister(th) /\ Head(agenda[th]).index > Indices
    <3>1. kind' = kind /\ status' = status
      BY <2>3, ZenonT(60), SMTT(30) DEF DoRegister
    <3> QED BY <1>a, <3>1
  <2>4. CASE DoRegister(th) /\ ~(Head(agenda[th]).index > Indices)
    <3>1. PICK op, T, i, p : op = Head(agenda[th]) /\ T = op.task /\ i = op.index /\ p = Append(T, i)
      OBVIOUS
    <3>2. /\ agenda[th] # <<>> /\ op.do = "register"
          /\ status' = [status EXCEPT ![p] = "pending"] /\ kind' = [kind EXCEPT ![p] = "index"]
      BY <2>4, <3>1 DEF DoRegister, IsNext
    <3>3. op \in Ops /\ i \in Nat /\ T \in TopTasks /\ op \in Registers(agenda[th])
      <4>1. op \in Ops
        BY <3>1, <3>2, HeadFacts
      <4>2. op \in Registers(agenda[th])
        BY <1>0, <3>1, <3>2, RegistersTail DEF TypesOK
      <4> QED BY <3>1, <3>2, <4>1, <4>2, OpKinds
    <3>4. GoodRegister(op)
      BY <1>0, <3>3 DEF RegistersOK
    <3>5. Indices > 0 /\ i \in 1..Indices /\ \A j \in i..Indices : status[Append(T, j)] = "unregistered"
      BY <2>4, <3>1, <3>3, <3>4, BoundsAssumption DEF GoodRegister
    <3>6. p \in SubTasks /\ p \in Tasks /\ p = <<T[1], i>> /\ T = <<T[1]>> /\ status[p] = "unregistered"
      <4>1. p \in SubTasks /\ p = <<T[1], i>> /\ T = <<T[1]>>
        BY <3>1, <3>3, <3>5, TopSubTask, TopShape
      <4>2. i \in i..Indices
        BY <3>5, BoundsAssumption
      <4> QED BY <3>1, <3>5, <4>1, <4>2 DEF Tasks
    <3>7. T = <<captures[Main]>>
      BY <1>0, <3>1, <3>3 DEF RegistersHome
    <3>8. ASSUME NEW q \in Tasks, Order!Before(p, q) PROVE status[q] \notin {"ready", "running", "done"}
      <4>1. p[1] < q[1] \/ (q \in SubTasks /\ p[1] = q[1] /\ p[2] < q[2])
        BY <3>6, <3>8, BeforeIs
      <4>2. p[1] = T[1] /\ p[2] = i /\ T[1] = captures[Main] /\ p[1] \in Nat /\ q[1] \in Nat
        BY <3>6, <3>7, TaskKinds
      <4>3. CASE p[1] < q[1]
        <5>1. ~(q[1] <= captures[Main])
          BY <4>2, <4>3
        <5> QED BY <1>0, <5>1, NotYet
      <4>4. CASE q \in SubTasks /\ p[1] = q[1] /\ p[2] < q[2]
        <5>1. q = <<q[1], q[2]>> /\ q[2] \in Nat /\ q[2] \in 1..(IF Indices = 0 THEN Subwidth ELSE Indices)
          BY <4>4, SubShape
        <5>2. PICK j : j = q[2]
          OBVIOUS
        <5>3. Indices # 0 /\ Indices \in Nat
          BY <3>5, BoundsAssumption
        <5>4. j \in 1..Indices /\ j \in Nat /\ i < j
          BY <4>2, <4>4, <5>1, <5>2, <5>3
        <5>5. j \in i..Indices
          BY <3>3, <5>3, <5>4
        <5>6. Append(T, j) = <<T[1], j>>
          BY <3>3, <3>5, <5>4, TopSubTask
        <5>7. q = Append(T, j)
          BY <4>2, <4>4, <5>1, <5>2, <5>6
        <5> QED BY <3>5, <5>5, <5>7
      <4> QED BY <4>1, <4>3, <4>4
    <3> QED BY <1>0, <3>2, <3>6, <3>8, OrderRegisters
  <2> QED BY <1>1, <2>1, <2>2, <2>3, <2>4 DEF Step
<1>2. ASSUME NEW c \in {Main} \cup TopTasks, NEW k \in {"read", "write"}, CaptureTask(c, k) PROVE goal
  <2>1. PICK t : t = Append(c, captures[c] + 1)
    OBVIOUS
  <2>2. /\ CanCapture(c) /\ kind' = [kind EXCEPT ![t] = k] /\ status' = [status EXCEPT ![t] = "pending"]
    BY <1>2, <2>1 DEF CaptureTask
  <2>3. t \in Tasks /\ status[t] = "unregistered"
    BY <1>0, <2>1, <2>2, NewTask
  <2>4. \A q \in Tasks : Order!Before(t, q) => status[q] \notin {"ready", "running", "done"}
    BY <2>1, <2>2, LaterUnstarted
  <2> QED BY <1>0, <2>2, <2>3, <2>4, OrderRegisters
<1>3. CASE CaptureCollection
  <2>1. kind' = kind /\ status' = status
    BY <1>3 DEF CaptureCollection
  <2> QED BY <1>a, <2>1
<1>4. ASSUME NEW t \in Tasks, Start(t) PROVE goal
  <2>1. status[t] = "ready" /\ status' = [status EXCEPT ![t] = "running"] /\ kind' = kind
    BY <1>4 DEF Start
  <2>2. \A s \in Tasks : status'[s] = IF s = t THEN "running" ELSE status[s]
    BY <1>0, <2>1, UsersRun DEF TypesOK
  <2>3. OrderStatus[t] = "registered" /\ OrderStatus' = [OrderStatus EXCEPT ![t] = "running"]
    <3>1. OrderStatus[t] = "registered"
      BY <2>1 DEF OrderStatus
    <3> QED BY <2>2, <3>1, OrderMoves
  <2>4. ASSUME NEW p \in Tasks, Order!Before(p, t), OrderStatus[p] # "unregistered", Order!Conflict(p, t)
        PROVE  OrderStatus[p] = "done"
    <3>1. Present(p)
      BY <2>4 DEF OrderStatus, Present
    <3>2. status[p] = "done"
      BY <1>0, <2>1, <2>4, <3>1 DEF ReadyInOrder
    <3> QED BY <3>2 DEF OrderStatus
  <2>5. Order!Start(t)
    BY <2>1, <2>3, <2>4 DEF Order!Start
  <2> QED BY <2>5 DEF Order!Next
<1>5. ASSUME NEW c \in {Main} \cup Tasks, Finish(c) PROVE goal
  <2>1. status[c] = "running" /\ status' = [status EXCEPT ![c] = "done"] /\ kind' = kind
    BY <1>5 DEF Finish
  <2>2. \A s \in Tasks : status'[s] = IF s = c THEN "done" ELSE status[s]
    BY <1>0, <2>1, UsersRun DEF TypesOK
  <2>3. CASE c = Main
    <3>1. \A s \in Tasks : status'[s] = status[s]
      BY <2>2, <2>3, TaskKinds
    <3> QED BY <1>a, <2>1, <3>1
  <2>4. CASE c \in Tasks
    <3>1. OrderStatus[c] = "running" /\ OrderStatus' = [OrderStatus EXCEPT ![c] = "done"]
      <4>1. OrderStatus[c] = "running"
        BY <2>1, <2>4 DEF OrderStatus
      <4> QED BY <2>2, <2>4, <4>1, OrderMoves
    <3>2. Order!Finish(c)
      BY <2>1, <3>1 DEF Order!Finish
    <3> QED BY <2>4, <3>2 DEF Order!Next
  <2> QED BY <2>3, <2>4
<1>6. ASSUME NEW w \in Helpers, RunCallable(w) PROVE goal
  <2>1. kind' = kind /\ status' = status
    BY <1>6 DEF RunCallable
  <2> QED BY <1>a, <2>1
<1>7. CASE UNCHANGED vars
  <2>1. kind' = kind /\ status' = status
    BY <1>7 DEF vars
  <2> QED BY <1>a, <2>1
<1> QED BY <1>1, <1>2, <1>3, <1>4, <1>5, <1>6, <1>7 DEF Next

\* At first no task is registered.
LEMMA InitImplementsOrder == Init => Order!Init
<1>1. ASSUME Init PROVE OrderStatus = [t \in Tasks |-> "unregistered"]
  <2>1. \A t \in Tasks : status[t] = "unregistered"
    BY <1>1, TaskKinds DEF Init
  <2> QED BY <2>1 DEF OrderStatus
<1> QED BY <1>1 DEF Init, Order!Init

\* Everything that the flows do is a step of DataOrder or none: whatever is
\* captured from what, however the threads interleave, a task starts only when
\* all that comes before it and conflicts with it is done.
THEOREM ImplementsOrderSafety == Spec => Order!Init /\ [][Order!Next]_(Order!orderVars)
<1>1. Init => Order!Init
  BY InitImplementsOrder
<1>2. Inv /\ OrderInv /\ [Next]_vars => [Order!Next]_(Order!orderVars)
  BY NextImplementsOrder
<1> QED BY <1>1, <1>2, FlowsOrderInvariant, PTL DEF Spec

-----------------------------------------------------------------------------
(* What the order that the flows implement gives to a program               *)

\* A step of the order keeps the types of statuses and kinds.
LEMMA StepKeepsTypes ==
  ASSUME Order!Types, [Order!Next]_(Order!orderVars) PROVE Order!Types'
<1>1. ASSUME NEW S \in SUBSET Tasks, NEW k \in Order!Kinds, Order!Register(S, k)
      PROVE  Order!Types'
  BY <1>1 DEF Order!Types, Order!Register
<1>2. ASSUME NEW t \in Tasks, Order!Start(t) \/ Order!Finish(t) PROVE Order!Types'
  BY <1>2 DEF Order!Types, Order!Start, Order!Finish
<1>3. CASE UNCHANGED Order!orderVars
  BY <1>3 DEF Order!Types, Order!orderVars
<1> QED BY <1>1, <1>2, <1>3 DEF Order!Next

\* In the first state of the order no task has started.
LEMMA InitKeepsOrder == Order!Init => Order!Types /\ Order!StartedInOrder
BY DEF Order!Init, Order!Types, Order!Kinds, Order!StartedInOrder

\* Statuses and kinds keep their types, so that a comparison with them decides.
THEOREM OrderTypes == Order!Spec => []Order!Types
BY InitKeepsOrder, StepKeepsTypes, PTL DEF Order!Spec

\* A task starts only when all that it conflicts with and that come before it
\* are done, and nothing is registered before a task that has started.
LEMMA StepKeepsOrder ==
  ASSUME Order!Types, Order!StartedInOrder, [Order!Next]_(Order!orderVars)
  PROVE  Order!StartedInOrder'
<1> SUFFICES ASSUME NEW p \in Tasks, NEW t \in Tasks,
                    Order!Before(p, t), Order!Conflict(p, t)',
                    OrderStatus'[t] \in {"running", "done"}, OrderStatus'[p] # "unregistered"
             PROVE  OrderStatus'[p] = "done"
  BY DEF Order!StartedInOrder, Order!Before
<1>1. ASSUME NEW S \in SUBSET Tasks, NEW k \in Order!Kinds, Order!Register(S, k), Order!InOrder(S, k)
      PROVE  OrderStatus'[p] = "done"
  <2>1. OrderStatus[t] \in {"running", "done"} /\ t \notin S /\ kind'[t] = kind[t]
    BY <1>1 DEF Order!Register, Order!Types
  <2>2. CASE p \in S
    <3>1. k = "read" /\ kind[t] = "read"
      BY <1>1, <2>1, <2>2 DEF Order!InOrder
    <3>2. kind'[p] = "read"
      BY <1>1, <2>2, <3>1 DEF Order!Register
    <3> QED BY <2>1, <3>1, <3>2 DEF Order!Conflict
  <2>3. CASE p \notin S
    <3>1. OrderStatus'[p] = OrderStatus[p] /\ kind'[p] = kind[p]
      BY <1>1, <2>3 DEF Order!Register
    <3>2. Order!Conflict(p, t)
      BY <2>1, <3>1 DEF Order!Conflict
    <3> QED BY <2>1, <3>1, <3>2 DEF Order!StartedInOrder
  <2> QED BY <2>2, <2>3
<1>2. ASSUME NEW u \in Tasks, Order!Start(u) PROVE OrderStatus'[p] = "done"
  <2>1. Order!Conflict(p, t) /\ OrderStatus[p] # "unregistered"
    BY <1>2 DEF Order!Conflict, Order!Start, Order!Types
  <2>2. OrderStatus[p] = "done"
    BY <1>2, <2>1 DEF Order!Start, Order!StartedInOrder, Order!Types
  <2> QED BY <1>2, <2>2 DEF Order!Start, Order!Types
<1>3. ASSUME NEW u \in Tasks, Order!Finish(u) PROVE OrderStatus'[p] = "done"
  <2>1. /\ Order!Conflict(p, t) /\ OrderStatus[p] # "unregistered"
        /\ OrderStatus[t] \in {"running", "done"}
    BY <1>3 DEF Order!Conflict, Order!Finish, Order!Types
  <2> QED BY <1>3, <2>1 DEF Order!Finish, Order!StartedInOrder, Order!Types
<1>4. CASE UNCHANGED Order!orderVars
  BY <1>4 DEF Order!orderVars, Order!StartedInOrder, Order!Conflict
<1> QED BY <1>1, <1>2, <1>3, <1>4 DEF Order!Next

\* Every task that has started came after all it conflicts with: the promise of
\* the flows is sequential semantics, whatever is registered in between.
THEOREM Sequential == Order!Spec => []Order!StartedInOrder
BY InitKeepsOrder, StepKeepsTypes, StepKeepsOrder, PTL DEF Order!Spec

\* Tasks that have started in order do not overlap where they conflict.
LEMMA OrderExcludes == Order!StartedInOrder => Order!NoOverlap
BY DEF Order!StartedInOrder, Order!NoOverlap

\* A writer never runs beside a reader or writer that is not its ancestor or
\* its subtask.
THEOREM Exclusive == Order!Spec => []Order!NoOverlap
BY OrderExcludes, Sequential, PTL

\* What a program is given by the flows themselves: every task that runs or has run
\* has found all that comes before it and conflicts with it done, whatever the threads
\* interleave, captures and collections included.
THEOREM FlowsSequential == Spec => []Order!StartedInOrder
BY ImplementsOrderSafety, InitKeepsOrder, StepKeepsTypes, StepKeepsOrder, PTL

\* Two tasks that conflict on the data of the handle never run at once, unless one is
\* a subtask of the other: the flows keep tasks from racing on it.
THEOREM FlowsExclusive == Spec => []Order!NoOverlap
BY OrderExcludes, FlowsSequential, PTL
=============================================================================
