---------------------------- MODULE FlowsProofs ----------------------------
(***************************************************************************)
(* The counts of flows and of tasks for programs of any width and depth,   *)
(* collections of any size and any number of workers: what each counts is  *)
(* exactly what somebody will still give back, so that no assert of a      *)
(* ready trigger fails.                                                    *)
(*                                                                         *)
(* A count says how many decrements are to come, not whose: the invariant  *)
(* gives each of them a name, its unit, and follows it from the increment  *)
(* that is to be made (ToCome), which has to find the flow not yet ready,  *)
(* through uses, agendas, attached actions and ready queues (Owed) to the  *)
(* decrement.                                                              *)
(***************************************************************************)
EXTENDS Flows, FiniteSetTheorems, SequenceTheorems, TLAPS

-----------------------------------------------------------------------------
(* What there is                                                            *)

\* Whoever has a use of the handle.
Users == {Main} \cup Tasks

\* The operations that may be attached to a counter.
Payloads == [do : {"decrement", "enqueue"}, counter : Flows, unit : FlowUnits]
              \cup [do : {"satisfy"}, counter : Tasks, unit : WaitUnits]

\* The uses that register_use makes.
Uses == [id : UseIds, in : Flows, anti_in : Flows, out : Flows, anti_out : Flows,
         anti_dependency : BOOLEAN, establishes_alias : BOOLEAN]

\* The operations on an agenda.
Ops == Payloads
  \cup [do : {"increment"}, counter : Flows, unit : FlowUnits]
  \cup [do : {"attach"}, counter : Flows, action : Payloads]
  \cup [do : {"register"}, task : TopTasks, index : Nat, use : Uses]

\* A unit together with the counter that it belongs to.
Tokens == (FlowUnits \X Flows) \cup (WaitUnits \X Tasks)

\* What s gives back after its k-th operation.
Later(s, k) == UNION {OwedByOp(s[j]) : j \in (k + 1)..Len(s)}

\* No unit is taken twice by s.
TakenOnce(s) ==
  \A i, j \in DOMAIN s :
    s[i].do = "increment" /\ s[j].do = "increment" /\ s[i].unit = s[j].unit => i = j

-----------------------------------------------------------------------------
(* Operations one by one *)

\* A decrement owes its unit, and so does one that goes to a ready queue first.
LEMMA DecrementOp ==
  ASSUME NEW f \in Flows, NEW u \in FlowUnits
  PROVE  /\ Decrement(f, u) \in Payloads /\ EnqueueDecrement(f, u) \in Payloads
         /\ Decrement(f, u) \in Ops /\ EnqueueDecrement(f, u) \in Ops
         /\ OwedByOp(Decrement(f, u)) = {<<u, f>>}
         /\ OwedByOp(EnqueueDecrement(f, u)) = {<<u, f>>}
         /\ Decrement(f, u).do = "decrement" /\ EnqueueDecrement(f, u).do = "enqueue"
BY DEF Decrement, EnqueueDecrement, Payloads, Ops, OwedByOp

\* The wait of a task is owed by the operation that satisfies it.
LEMMA SatisfyOp ==
  ASSUME NEW t \in Tasks, NEW u \in WaitUnits
  PROVE  /\ Satisfy(t, u) \in Payloads /\ Satisfy(t, u) \in Ops
         /\ OwedByOp(Satisfy(t, u)) = {<<u, t>>}
         /\ Satisfy(t, u).do = "satisfy"
BY DEF Satisfy, Payloads, Ops, OwedByOp

\* An increment owes nothing: it takes.
LEMMA IncrementOp ==
  ASSUME NEW f \in Flows, NEW u \in FlowUnits
  PROVE  /\ Increment(f, u) \in Ops
         /\ OwedByOp(Increment(f, u)) = {}
         /\ Increment(f, u).do = "increment"
         /\ Increment(f, u).unit = u
         /\ Increment(f, u).counter = f
BY DEF Increment, Ops, OwedByOp

\* An attached action owes what it will give back when it runs.
LEMMA AttachOp ==
  ASSUME NEW f \in Flows, NEW a \in Payloads
  PROVE  /\ Attach(f, a) \in Ops
         /\ OwedByOp(Attach(f, a)) = OwedByOp(a)
         /\ Attach(f, a).do = "attach"
BY DEF Attach, Ops, Payloads, OwedByOp

\* The loop over the indices owes the use of the whole collection, released at its end.
LEMMA RegisterOp ==
  ASSUME NEW t \in TopTasks, NEW i \in Nat, NEW v \in Uses
  PROVE  /\ RegisterFrom(t, i, v) \in Ops
         /\ OwedByOp(RegisterFrom(t, i, v)) = OwedByUse(v)
         /\ RegisterFrom(t, i, v).do = "register"
BY DEF RegisterFrom, Ops, OwedByOp

\* What kind an operation is says which fields it has.
LEMMA OpKinds ==
  ASSUME NEW op \in Ops
  PROVE  /\ op.do \in {"decrement", "enqueue", "satisfy", "increment", "attach", "register"}
         /\ op.do \in {"decrement", "enqueue", "increment"} =>
              op.counter \in Flows /\ op.unit \in FlowUnits
         /\ op.do \in {"decrement", "enqueue", "satisfy"} => op \in Payloads
         /\ op.do = "satisfy" => op.counter \in Tasks /\ op.unit \in WaitUnits
         /\ op.do = "attach" => op.counter \in Flows /\ op.action \in Payloads
         /\ op.do = "register" => op.task \in TopTasks /\ op.index \in Nat /\ op.use \in Uses
BY DEF Ops, Payloads

\* What has been attached is run from an agenda.
LEMMA PayloadsAreOps == Payloads \subseteq Ops
BY DEF Ops

\* Every operation owes units of counters that there are.
LEMMA OwedTyped ==
  ASSUME NEW op \in Ops PROVE OwedByOp(op) \subseteq Tokens
<1>1. ASSUME NEW u \in Uses PROVE OwedByUse(u) \subseteq Tokens
  BY <1>1 DEF OwedByUse, Uses, Tokens, FlowUnits
<1>2. ASSUME NEW p \in Payloads PROVE <<p.unit, p.counter>> \in Tokens
  BY <1>2 DEF Payloads, Tokens
<1> QED BY <1>1, <1>2, OpKinds DEF OwedByOp

-----------------------------------------------------------------------------
(* Sequences of operations *)

\* Two sequences one after the other owe and take what each of them does.
LEMMA ConcatOps ==
  ASSUME NEW s \in Seq(Ops), NEW t \in Seq(Ops)
  PROVE  /\ s \o t \in Seq(Ops)
         /\ OwedByOps(s \o t) = OwedByOps(s) \cup OwedByOps(t)
         /\ TakenByOps(s \o t) = TakenByOps(s) \cup TakenByOps(t)
<1>1. /\ s \o t \in Seq(Ops) /\ DOMAIN (s \o t) = 1..(Len(s) + Len(t))
      /\ \A i \in 1..(Len(s) + Len(t)) :
           (s \o t)[i] = IF i <= Len(s) THEN s[i] ELSE t[i - Len(s)]
  BY ConcatProperties
<1>2. DOMAIN s = 1..Len(s) /\ DOMAIN t = 1..Len(t) /\ Len(s) \in Nat /\ Len(t) \in Nat
  OBVIOUS
<1>3. \A i \in DOMAIN t : Len(s) + i \in DOMAIN (s \o t) /\ (s \o t)[Len(s) + i] = t[i]
  BY <1>1, <1>2
<1>4. \A i \in DOMAIN s : i \in DOMAIN (s \o t) /\ (s \o t)[i] = s[i]
  BY <1>1, <1>2
<1>5. \A i \in DOMAIN (s \o t) : \/ i \in DOMAIN s /\ (s \o t)[i] = s[i]
                                 \/ i - Len(s) \in DOMAIN t /\ (s \o t)[i] = t[i - Len(s)]
  BY <1>1, <1>2
<1>6. OwedByOps(s \o t) = OwedByOps(s) \cup OwedByOps(t)
  BY <1>3, <1>4, <1>5 DEF OwedByOps
<1>7. TakenByOps(s \o t) = TakenByOps(s) \cup TakenByOps(t)
  BY <1>3, <1>4, <1>5, ZenonT(120), SMTT(30) DEF TakenByOps
<1> QED BY <1>1, <1>6, <1>7

\* A single operation owes and takes nothing twice.
LEMMA SingleOps ==
  ASSUME NEW op \in Ops
  PROVE  /\ <<op>> \in Seq(Ops)
         /\ OwedByOps(<<op>>) = OwedByOp(op)
         /\ TakenByOps(<<op>>) = IF op.do = "increment" THEN {<<op.unit, op.counter>>} ELSE {}
         /\ Once(<<op>>) /\ TakenOnce(<<op>>)
BY DEF OwedByOps, TakenByOps, Once, TakenOnce

\* Nothing to do owes and takes nothing.
LEMMA NoOps ==
  /\ <<>> \in Seq(Ops) /\ OwedByOps(<<>>) = {} /\ TakenByOps(<<>>) = {}
  /\ Once(<<>>) /\ TakenOnce(<<>>)
BY DEF OwedByOps, TakenByOps, Once, TakenOnce

\* The head and the tail of an agenda, place by place.
LEMMA TailOps ==
  ASSUME NEW s \in Seq(Ops), s # <<>>
  PROVE  /\ Head(s) \in Ops /\ Tail(s) \in Seq(Ops) /\ Head(s) = s[1] /\ 1 \in DOMAIN s
         /\ Len(Tail(s)) = Len(s) - 1
         /\ \A i \in DOMAIN Tail(s) : i + 1 \in DOMAIN s /\ Tail(s)[i] = s[i + 1]
         /\ \A i \in DOMAIN s : i = 1 \/ (i - 1 \in DOMAIN Tail(s) /\ s[i] = Tail(s)[i - 1])
BY DEF OwedByOps, TakenByOps

\* What is owed and taken by an agenda is so by its head or by its tail, and not by both.
LEMMA TailOwes ==
  ASSUME NEW s \in Seq(Ops), s # <<>>
  PROVE  /\ OwedByOps(s) = OwedByOp(Head(s)) \cup OwedByOps(Tail(s))
         /\ TakenByOps(s) = TakenByOps(Tail(s)) \cup
              (IF Head(s).do = "increment" THEN {<<Head(s).unit, Head(s).counter>>} ELSE {})
         /\ Once(s) => Once(Tail(s)) /\ OwedByOp(Head(s)) \cap OwedByOps(Tail(s)) = {}
         /\ TakenOnce(s) => TakenOnce(Tail(s))
         /\ TakenOnce(s) /\ Head(s).do = "increment" =>
              \A x \in TakenByOps(Tail(s)) : x[1] # Head(s).unit
<1>1. OwedByOps(s) = OwedByOp(Head(s)) \cup OwedByOps(Tail(s))
  <2>1. ASSUME NEW x \in OwedByOps(s) PROVE x \in OwedByOp(Head(s)) \cup OwedByOps(Tail(s))
    <3>1. PICK i \in DOMAIN s : x \in OwedByOp(s[i])
      BY <2>1 DEF OwedByOps
    <3>2. CASE i = 1
      BY <3>1, <3>2, TailOps
    <3>3. CASE i # 1
      <4>1. i - 1 \in DOMAIN Tail(s) /\ s[i] = Tail(s)[i - 1]
        BY <3>3, TailOps
      <4> QED BY <3>1, <4>1 DEF OwedByOps
    <3> QED BY <3>2, <3>3
  <2>2. OwedByOp(Head(s)) \subseteq OwedByOps(s)
    <3>1. Head(s) = s[1] /\ 1 \in DOMAIN s
      BY TailOps
    <3> QED BY <3>1 DEF OwedByOps
  <2>3. OwedByOps(Tail(s)) \subseteq OwedByOps(s)
    <3>1. \A i \in DOMAIN Tail(s) : i + 1 \in DOMAIN s /\ Tail(s)[i] = s[i + 1]
      BY TailOps
    <3> QED BY <3>1 DEF OwedByOps
  <2> QED BY <2>1, <2>2, <2>3
<1>2. TakenByOps(s) = TakenByOps(Tail(s)) \cup
              (IF Head(s).do = "increment" THEN {<<Head(s).unit, Head(s).counter>>} ELSE {})
  <2>1. ASSUME NEW x \in TakenByOps(s)
        PROVE  \/ x \in TakenByOps(Tail(s))
               \/ Head(s).do = "increment" /\ x = <<Head(s).unit, Head(s).counter>>
    <3>1. PICK i \in DOMAIN s : s[i].do = "increment" /\ x = <<s[i].unit, s[i].counter>>
      BY <2>1 DEF TakenByOps
    <3>2. CASE i = 1
      BY <3>1, <3>2, TailOps
    <3>3. CASE i # 1
      <4>1. i - 1 \in DOMAIN Tail(s) /\ s[i] = Tail(s)[i - 1]
        BY <3>3, TailOps
      <4> QED BY <3>1, <4>1 DEF TakenByOps
    <3> QED BY <3>2, <3>3
  <2>2. \A i \in DOMAIN Tail(s) : i + 1 \in DOMAIN s /\ Tail(s)[i] = s[i + 1]
    BY TailOps
  <2>3. TakenByOps(Tail(s)) \subseteq TakenByOps(s)
    BY <2>2 DEF TakenByOps
  <2>4. Head(s).do = "increment" => <<Head(s).unit, Head(s).counter>> \in TakenByOps(s)
    BY TailOps DEF TakenByOps
  <2> QED BY <2>1, <2>3, <2>4
<1>3. ASSUME Once(s) PROVE Once(Tail(s)) /\ OwedByOp(Head(s)) \cap OwedByOps(Tail(s)) = {}
  <2>1. \A i, j \in DOMAIN Tail(s) : i # j => i + 1 # j + 1
    OBVIOUS
  <2>2. Once(Tail(s))
    BY TailOps, <1>3, <2>1 DEF Once
  <2>3. ASSUME NEW i \in DOMAIN Tail(s) PROVE OwedByOp(Head(s)) \cap OwedByOp(Tail(s)[i]) = {}
    <3>1. i + 1 # 1
      OBVIOUS
    <3> QED BY TailOps, <1>3, <3>1 DEF Once
  <2> QED BY <2>2, <2>3 DEF OwedByOps
<1>4. ASSUME TakenOnce(s) PROVE TakenOnce(Tail(s))
  <2>1. \A i, j \in DOMAIN Tail(s) : i + 1 = j + 1 => i = j
    OBVIOUS
  <2> QED BY TailOps, <1>4, <2>1 DEF TakenOnce
<1>5. ASSUME TakenOnce(s), Head(s).do = "increment"
      PROVE  \A x \in TakenByOps(Tail(s)) : x[1] # Head(s).unit
  <2>1. \A i \in DOMAIN Tail(s) : i + 1 # 1
    OBVIOUS
  <2> QED BY TailOps, <1>5, <2>1 DEF TakenOnce, TakenByOps
<1> QED BY <1>1, <1>2, <1>3, <1>4, <1>5

\* Sequences with different units owe and take nothing twice when put together.
LEMMA ConcatOnce ==
  ASSUME NEW s \in Seq(Ops), NEW t \in Seq(Ops)
  PROVE  /\ Once(s) /\ Once(t) /\ OwedByOps(s) \cap OwedByOps(t) = {} => Once(s \o t)
         /\ /\ TakenOnce(s) /\ TakenOnce(t)
            /\ \A x \in TakenByOps(s), y \in TakenByOps(t) : x[1] # y[1]
            => TakenOnce(s \o t)
<1>1. /\ DOMAIN (s \o t) = 1..(Len(s) + Len(t))
      /\ \A i \in 1..(Len(s) + Len(t)) :
           (s \o t)[i] = IF i <= Len(s) THEN s[i] ELSE t[i - Len(s)]
  BY ConcatProperties
<1>2. DOMAIN s = 1..Len(s) /\ DOMAIN t = 1..Len(t) /\ Len(s) \in Nat /\ Len(t) \in Nat
  OBVIOUS
<1>3. \A i \in DOMAIN (s \o t) :
        \/ i \in DOMAIN s /\ (s \o t)[i] = s[i]
        \/ i - Len(s) \in DOMAIN t /\ (s \o t)[i] = t[i - Len(s)]
  BY <1>1, <1>2
<1>4. \A i, j \in DOMAIN (s \o t) : i # j => i - Len(s) # j - Len(s)
  BY <1>1, <1>2
<1>5. ASSUME Once(s), Once(t), OwedByOps(s) \cap OwedByOps(t) = {} PROVE Once(s \o t)
  <2>1. \A i \in DOMAIN s : OwedByOp(s[i]) \subseteq OwedByOps(s)
    BY DEF OwedByOps
  <2>2. \A i \in DOMAIN t : OwedByOp(t[i]) \subseteq OwedByOps(t)
    BY DEF OwedByOps
  <2>3. SUFFICES ASSUME NEW i \in DOMAIN (s \o t), NEW j \in DOMAIN (s \o t), i # j
                PROVE  OwedByOp((s \o t)[i]) \cap OwedByOp((s \o t)[j]) = {}
    BY DEF Once
  <2>4. CASE i \in DOMAIN s /\ (s \o t)[i] = s[i] /\ j \in DOMAIN s /\ (s \o t)[j] = s[j]
    BY <1>5, <2>3, <2>4 DEF Once
  <2>5. CASE /\ i - Len(s) \in DOMAIN t /\ (s \o t)[i] = t[i - Len(s)]
             /\ j - Len(s) \in DOMAIN t /\ (s \o t)[j] = t[j - Len(s)]
    BY <1>4, <1>5, <2>3, <2>5 DEF Once
  <2>6. CASE /\ i \in DOMAIN s /\ (s \o t)[i] = s[i]
             /\ j - Len(s) \in DOMAIN t /\ (s \o t)[j] = t[j - Len(s)]
    BY <1>5, <2>1, <2>2, <2>6
  <2>7. CASE /\ j \in DOMAIN s /\ (s \o t)[j] = s[j]
             /\ i - Len(s) \in DOMAIN t /\ (s \o t)[i] = t[i - Len(s)]
    BY <1>5, <2>1, <2>2, <2>7
  <2> QED BY <1>3, <2>4, <2>5, <2>6, <2>7
<1>6. ASSUME TakenOnce(s), TakenOnce(t),
             \A x \in TakenByOps(s), y \in TakenByOps(t) : x[1] # y[1]
      PROVE  TakenOnce(s \o t)
  <2>1. \A i \in DOMAIN s : s[i].do = "increment" => <<s[i].unit, s[i].counter>> \in TakenByOps(s)
    BY DEF TakenByOps
  <2>2. \A i \in DOMAIN t : t[i].do = "increment" => <<t[i].unit, t[i].counter>> \in TakenByOps(t)
    BY DEF TakenByOps
  <2>3. \A i \in DOMAIN s, j \in DOMAIN t :
          s[i].do = "increment" /\ t[j].do = "increment" => s[i].unit # t[j].unit
    BY <1>6, <2>1, <2>2
  <2>4. SUFFICES ASSUME NEW i \in DOMAIN (s \o t), NEW j \in DOMAIN (s \o t),
                        (s \o t)[i].do = "increment", (s \o t)[j].do = "increment",
                        (s \o t)[i].unit = (s \o t)[j].unit
                PROVE  i = j
    BY DEF TakenOnce
  <2>5. CASE i \in DOMAIN s /\ (s \o t)[i] = s[i] /\ j \in DOMAIN s /\ (s \o t)[j] = s[j]
    BY <1>6, <2>4, <2>5 DEF TakenOnce
  <2>6. CASE /\ i - Len(s) \in DOMAIN t /\ (s \o t)[i] = t[i - Len(s)]
             /\ j - Len(s) \in DOMAIN t /\ (s \o t)[j] = t[j - Len(s)]
    BY <1>4, <1>6, <2>4, <2>6 DEF TakenOnce
  <2> QED BY <1>3, <2>3, <2>4, <2>5, <2>6
<1> QED BY <1>5, <1>6

\* What is owed later in a sequence.
LEMMA LaterConcat ==
  ASSUME NEW s \in Seq(Ops), NEW t \in Seq(Ops), NEW k \in Nat \ {0}, k <= Len(s)
  PROVE  Later(s \o t, k) = Later(s, k) \cup OwedByOps(t)
<1>a. /\ DOMAIN (s \o t) = 1..(Len(s) + Len(t)) /\ Len(s \o t) = Len(s) + Len(t)
      /\ \A i \in 1..(Len(s) + Len(t)) :
           (s \o t)[i] = IF i <= Len(s) THEN s[i] ELSE t[i - Len(s)]
  BY ConcatProperties
<1>b. DOMAIN s = 1..Len(s) /\ DOMAIN t = 1..Len(t) /\ Len(s) \in Nat /\ Len(t) \in Nat
  OBVIOUS
<1>1. \A i \in (k + 1)..(Len(s) + Len(t)) :
        \/ i \in (k + 1)..Len(s) /\ (s \o t)[i] = s[i]
        \/ i - Len(s) \in DOMAIN t /\ (s \o t)[i] = t[i - Len(s)]
  BY <1>a, <1>b
<1>2. \A i \in (k + 1)..Len(s) : i \in (k + 1)..(Len(s) + Len(t)) /\ (s \o t)[i] = s[i]
  BY <1>a, <1>b
<1>3. \A i \in DOMAIN t : Len(s) + i \in (k + 1)..(Len(s) + Len(t)) /\ (s \o t)[Len(s) + i] = t[i]
  BY <1>a, <1>b
<1>4. ASSUME NEW x \in Later(s \o t, k) PROVE x \in Later(s, k) \cup OwedByOps(t)
  <2>1. PICK i \in (k + 1)..(Len(s) + Len(t)) : x \in OwedByOp((s \o t)[i])
    BY <1>a, <1>4 DEF Later
  <2> QED BY <1>1, <2>1 DEF Later, OwedByOps
<1>5. ASSUME NEW x \in Later(s, k) PROVE x \in Later(s \o t, k)
  BY <1>a, <1>2, <1>5 DEF Later
<1>6. ASSUME NEW x \in OwedByOps(t) PROVE x \in Later(s \o t, k)
  BY <1>a, <1>3, <1>6 DEF Later, OwedByOps
<1> QED BY <1>4, <1>5, <1>6

\* Putting something in front does not change what comes later.
LEMMA LaterInRest ==
  ASSUME NEW s \in Seq(Ops), NEW t \in Seq(Ops), NEW k \in Nat \ {0}
  PROVE  Later(s \o t, Len(s) + k) = Later(t, k)
<1>a. /\ DOMAIN (s \o t) = 1..(Len(s) + Len(t)) /\ Len(s \o t) = Len(s) + Len(t)
      /\ \A i \in 1..(Len(s) + Len(t)) :
           (s \o t)[i] = IF i <= Len(s) THEN s[i] ELSE t[i - Len(s)]
  BY ConcatProperties
<1>b. DOMAIN s = 1..Len(s) /\ DOMAIN t = 1..Len(t) /\ Len(s) \in Nat /\ Len(t) \in Nat
  OBVIOUS
<1>1. \A i \in (Len(s) + k + 1)..(Len(s) + Len(t)) :
        i - Len(s) \in (k + 1)..Len(t) /\ (s \o t)[i] = t[i - Len(s)]
  BY <1>a, <1>b
<1>2. \A i \in (k + 1)..Len(t) : /\ Len(s) + i \in (Len(s) + k + 1)..(Len(s) + Len(t))
                                 /\ (s \o t)[Len(s) + i] = t[i]
  BY <1>a, <1>b
<1>3. ASSUME NEW x \in Later(s \o t, Len(s) + k) PROVE x \in Later(t, k)
  <2>1. PICK i \in (Len(s) + k + 1)..(Len(s) + Len(t)) : x \in OwedByOp((s \o t)[i])
    BY <1>a, <1>3 DEF Later
  <2> QED BY <1>1, <2>1 DEF Later
<1>4. ASSUME NEW x \in Later(t, k) PROVE x \in Later(s \o t, Len(s) + k)
  <2>1. PICK i \in (k + 1)..Len(t) : x \in OwedByOp(t[i])
    BY <1>4 DEF Later
  <2> QED BY <1>a, <1>2, <2>1 DEF Later
<1> QED BY <1>3, <1>4

\* And neither does taking the head away.
LEMMA LaterInTail ==
  ASSUME NEW s \in Seq(Ops), s # <<>>, NEW k \in Nat \ {0}
  PROVE  Later(Tail(s), k) = Later(s, k + 1)
<1>b. DOMAIN s = 1..Len(s) /\ Len(s) \in Nat
  OBVIOUS
<1>1. Len(Tail(s)) = Len(s) - 1 /\ \A i \in 1..(Len(s) - 1) : Tail(s)[i] = s[i + 1]
  BY TailOps
<1>2. \A i \in (k + 1)..Len(Tail(s)) : i + 1 \in (k + 1 + 1)..Len(s) /\ Tail(s)[i] = s[i + 1]
  BY <1>b, <1>1
<1>3. \A i \in (k + 1 + 1)..Len(s) : i - 1 \in (k + 1)..Len(Tail(s)) /\ Tail(s)[i - 1] = s[i]
  BY <1>b, <1>1
<1> QED BY <1>2, <1>3 DEF Later

\* What is owed later is owed.
LEMMA LaterOwed ==
  ASSUME NEW s \in Seq(Ops), NEW k \in Nat
  PROVE  Later(s, k) \subseteq OwedByOps(s)
<1>1. DOMAIN s = 1..Len(s)
  OBVIOUS
<1> QED BY <1>1 DEF Later, OwedByOps

\* The indices and collections that are still to be registered.
Registers(s) == {s[k] : k \in {i \in DOMAIN s : s[i].do = "register"}}

\* Collections are registered by either of two sequences.
LEMMA RegistersConcat ==
  ASSUME NEW s \in Seq(Ops), NEW t \in Seq(Ops)
  PROVE  Registers(s \o t) = Registers(s) \cup Registers(t)
<1>1. /\ DOMAIN (s \o t) = 1..(Len(s) + Len(t))
      /\ \A i \in 1..(Len(s) + Len(t)) :
           (s \o t)[i] = IF i <= Len(s) THEN s[i] ELSE t[i - Len(s)]
  BY ConcatProperties
<1>2. DOMAIN s = 1..Len(s) /\ DOMAIN t = 1..Len(t) /\ Len(s) \in Nat /\ Len(t) \in Nat
  OBVIOUS
<1>3. \A i \in DOMAIN t : Len(s) + i \in DOMAIN (s \o t) /\ (s \o t)[Len(s) + i] = t[i]
  BY <1>1, <1>2
<1>4. \A i \in DOMAIN s : i \in DOMAIN (s \o t) /\ (s \o t)[i] = s[i]
  BY <1>1, <1>2
<1>5. \A i \in DOMAIN (s \o t) : \/ i \in DOMAIN s /\ (s \o t)[i] = s[i]
                                 \/ i - Len(s) \in DOMAIN t /\ (s \o t)[i] = t[i - Len(s)]
  BY <1>1, <1>2
<1>6. ASSUME NEW x \in Registers(s \o t) PROVE x \in Registers(s) \cup Registers(t)
  <2>1. PICK i \in DOMAIN (s \o t) : (s \o t)[i].do = "register" /\ x = (s \o t)[i]
    BY <1>6 DEF Registers
  <2>2. CASE i \in DOMAIN s /\ (s \o t)[i] = s[i]
    BY <2>1, <2>2 DEF Registers
  <2>3. CASE i - Len(s) \in DOMAIN t /\ (s \o t)[i] = t[i - Len(s)]
    BY <2>1, <2>3 DEF Registers
  <2> QED BY <1>5, <2>2, <2>3
<1>7. ASSUME NEW x \in Registers(s) PROVE x \in Registers(s \o t)
  BY <1>4, <1>7 DEF Registers
<1>8. ASSUME NEW x \in Registers(t) PROVE x \in Registers(s \o t)
  <2>1. PICK i \in DOMAIN t : t[i].do = "register" /\ x = t[i]
    BY <1>8 DEF Registers
  <2> QED BY <1>3, <2>1 DEF Registers
<1> QED BY <1>6, <1>7, <1>8

\* A single operation registers a collection or none.
LEMMA RegistersSingle ==
  ASSUME NEW op \in Ops
  PROVE  Registers(<<op>>) = IF op.do = "register" THEN {op} ELSE {}
BY DEF Registers

\* No collection is registered by the tail only.
LEMMA RegistersTail ==
  ASSUME NEW s \in Seq(Ops), s # <<>>
  PROVE  /\ Registers(Tail(s)) \subseteq Registers(s)
         /\ Head(s).do = "register" => Head(s) \in Registers(s)
BY TailOps DEF Registers

\* An increment in s \o t, when t has none.
LEMMA ConcatLater ==
  ASSUME NEW s \in Seq(Ops), NEW t \in Seq(Ops), TakenByOps(t) = {},
         NEW k \in DOMAIN (s \o t), (s \o t)[k].do = "increment"
  PROVE  /\ k \in DOMAIN s /\ s[k] = (s \o t)[k]
         /\ Later(s \o t, k) = Later(s, k) \cup OwedByOps(t)
<1>1. /\ DOMAIN (s \o t) = 1..(Len(s) + Len(t)) /\ Len(s \o t) = Len(s) + Len(t)
      /\ \A i \in 1..(Len(s) + Len(t)) :
           (s \o t)[i] = IF i <= Len(s) THEN s[i] ELSE t[i - Len(s)]
  BY ConcatProperties
<1>2. DOMAIN s = 1..Len(s) /\ DOMAIN t = 1..Len(t) /\ Len(s) \in Nat /\ Len(t) \in Nat
  OBVIOUS
<1>3. \A i \in DOMAIN t : t[i].do # "increment"
  BY DEF TakenByOps
<1>4. k <= Len(s)
  BY <1>1, <1>2, <1>3
<1>5. k \in Nat \ {0} /\ k \in DOMAIN s /\ s[k] = (s \o t)[k]
  BY <1>1, <1>2, <1>4
<1>6. Later(s \o t, k) = Later(s, k) \cup OwedByOps(t)
  BY <1>4, <1>5, LaterConcat
<1> QED BY <1>5, <1>6

\* Two operations owe and take what each of them does.
LEMMA TwoOps ==
  ASSUME NEW a \in Ops, NEW b \in Ops
  PROVE  /\ <<a, b>> \in Seq(Ops)
         /\ OwedByOps(<<a, b>>) = OwedByOp(a) \cup OwedByOp(b)
         /\ a.do = "increment" /\ b.do # "increment" =>
              TakenByOps(<<a, b>>) = {<<a.unit, a.counter>>}
<1> DEFINE s == <<a, b>>
<1>1. DOMAIN s = {1, 2} /\ s[1] = a /\ s[2] = b /\ s \in Seq(Ops)
  OBVIOUS
<1> HIDE DEF s
<1>2. OwedByOps(s) = OwedByOp(a) \cup OwedByOp(b)
  BY <1>1 DEF OwedByOps
<1>3. a.do = "increment" /\ b.do # "increment" => TakenByOps(s) = {<<a.unit, a.counter>>}
  BY <1>1 DEF TakenByOps
<1> QED BY <1>1, <1>2, <1>3 DEF s

\* A sequence of operations for one use, in parts with different units.
Sound(s) == s \in Seq(Ops) /\ Once(s) /\ TakenOnce(s) /\ Registers(s) = {}

\* The units that s gives back or takes.
Names(s) == {x[1] : x \in OwedByOps(s) \cup TakenByOps(s)}

\* Sequences with different units are as sound together as each of them is.
LEMMA SoundConcat ==
  ASSUME NEW s, NEW t, Sound(s), Sound(t), Names(s) \cap Names(t) = {}
  PROVE  /\ Sound(s \o t)
         /\ OwedByOps(s \o t) = OwedByOps(s) \cup OwedByOps(t)
         /\ TakenByOps(s \o t) = TakenByOps(s) \cup TakenByOps(t)
         /\ Names(s \o t) = Names(s) \cup Names(t)
<1>1. s \in Seq(Ops) /\ t \in Seq(Ops)
  BY DEF Sound
<1>2. /\ s \o t \in Seq(Ops)
      /\ OwedByOps(s \o t) = OwedByOps(s) \cup OwedByOps(t)
      /\ TakenByOps(s \o t) = TakenByOps(s) \cup TakenByOps(t)
  BY <1>1, ConcatOps
<1>3. Names(s \o t) = Names(s) \cup Names(t)
  BY <1>2 DEF Names
<1>4. OwedByOps(s) \cap OwedByOps(t) = {}
  BY DEF Names
<1>5. \A x \in TakenByOps(s), y \in TakenByOps(t) : x[1] # y[1]
  BY DEF Names
<1> QED BY <1>1, <1>2, <1>3, <1>4, <1>5, ConcatOnce, RegistersConcat DEF Sound

\* Nothing to do, and one operation, are sound.
LEMMA SoundParts ==
  /\ Sound(<<>>) /\ Names(<<>>) = {}
  /\ \A op \in Ops : op.do # "register" => Sound(<<op>>)
<1>1. Sound(<<>>) /\ Names(<<>>) = {}
  BY NoOps DEF Sound, Names, Registers
<1>2. ASSUME NEW op \in Ops, op.do # "register" PROVE Sound(<<op>>)
  BY <1>2, SingleOps, RegistersSingle DEF Sound
<1> QED BY <1>1, <1>2

-----------------------------------------------------------------------------
(* What release_use and make_pending_task do *)

\* Releasing one flow of a use gives back the unit of that use for it.
LEMMA DecrementOfUse ==
  ASSUME NEW u \in Uses, NEW role \in {"anti_in", "out", "anti_out"}
  PROVE  /\ Sound(DecrementOf(u, role)) /\ TakenByOps(DecrementOf(u, role)) = {}
         /\ OwedByOps(DecrementOf(u, role)) =
              IF u[role] = None THEN {} ELSE {<<<<u.id, role>>, u[role]>>}
         /\ Names(DecrementOf(u, role)) \subseteq {<<u.id, role>>}
<1>1. u[role] \in Flows /\ <<u.id, role>> \in FlowUnits
  BY DEF Uses, FlowUnits
<1>2. CASE u[role] = None
  BY <1>2, SoundParts, NoOps DEF DecrementOf
<1>3. CASE u[role] # None
  <2> DEFINE op == Decrement(u[role], <<u.id, role>>)
  <2>1. op \in Ops /\ OwedByOp(op) = {<<<<u.id, role>>, u[role]>>} /\ op.do = "decrement"
    BY <1>1, DecrementOp
  <2>2. DecrementOf(u, role) = <<op>>
    BY <1>3 DEF DecrementOf
  <2> HIDE DEF op
  <2>3. /\ Sound(<<op>>) /\ TakenByOps(<<op>>) = {}
        /\ OwedByOps(<<op>>) = {<<<<u.id, role>>, u[role]>>}
    BY <2>1, SingleOps, SoundParts
  <2>4. Names(<<op>>) \subseteq {<<u.id, role>>}
    BY <2>3 DEF Names
  <2> QED BY <1>3, <2>2, <2>3, <2>4
<1> QED BY <1>2, <1>3

\* The units that hold up the flows that a use aliases to others.
AliasTokens(u) ==
  {<<<<u.id, "alias_out">>, u.out>>}
    \cup IF u.anti_in = None THEN {} ELSE {<<<<u.id, "alias_anti_in">>, u.anti_in>>}

\* An alias takes a unit of the one flow, and gives it back when the other is ready.
LEMMA AliasPart ==
  ASSUME NEW f \in Flows, NEW g \in Flows, NEW unit \in FlowUnits
  PROVE  /\ Sound(AliasTo(f, g, unit))
         /\ OwedByOps(AliasTo(f, g, unit)) = {<<unit, f>>}
         /\ TakenByOps(AliasTo(f, g, unit)) = {<<unit, f>>}
         /\ Names(AliasTo(f, g, unit)) = {unit}
         /\ Len(AliasTo(f, g, unit)) = 2
         /\ AliasTo(f, g, unit)[2].do # "increment"
         /\ Later(AliasTo(f, g, unit), 1) = {<<unit, f>>}
<1> DEFINE a == Increment(f, unit)
           b == Attach(g, EnqueueDecrement(f, unit))
<1>1. /\ a \in Ops /\ OwedByOp(a) = {} /\ a.do = "increment" /\ a.unit = unit /\ a.counter = f
  BY IncrementOp
<1>2. /\ b \in Ops /\ OwedByOp(b) = {<<unit, f>>} /\ b.do = "attach"
  BY DecrementOp, AttachOp
<1>3. AliasTo(f, g, unit) = <<a, b>>
  BY DEF AliasTo
<1> HIDE DEF a, b
<1>4. /\ <<a, b>> \in Seq(Ops) /\ OwedByOps(<<a, b>>) = {<<unit, f>>}
      /\ TakenByOps(<<a, b>>) = {<<unit, f>>}
  BY <1>1, <1>2, TwoOps
<1>5. Once(<<a, b>>) /\ TakenOnce(<<a, b>>)
  BY <1>1, <1>2 DEF Once, TakenOnce
<1>6. Names(<<a, b>>) = {unit}
  <2>1. <<unit, f>>[1] = unit
    OBVIOUS
  <2>2. Names(<<a, b>>) = {x[1] : x \in {<<unit, f>>}}
    BY <1>4 DEF Names
  <2> QED BY <2>1, <2>2
<1>7. Later(<<a, b>>, 1) = {<<unit, f>>}
  BY <1>2 DEF Later
<1>8. Registers(<<a, b>>) = {}
  BY <1>1, <1>2 DEF Registers
<1> QED BY <1>2, <1>3, <1>4, <1>5, <1>6, <1>7, <1>8 DEF Sound

\* release_use gives back what the use owes, and leaves what its alias takes.
LEMMA Releasing ==
  ASSUME NEW u \in Uses
  PROVE  LET alias == IF u.establishes_alias THEN EstablishAlias(u) ELSE <<>>
             rest  == (IF u.anti_dependency THEN <<>> ELSE DecrementOf(u, "anti_in"))
                        \o DecrementOf(u, "out") \o DecrementOf(u, "anti_out")
         IN  /\ ReleaseUse(u) = alias \o rest
             /\ Sound(ReleaseUse(u)) /\ Sound(alias) /\ Sound(rest)
             /\ OwedByOps(rest) = OwedByUse(u) /\ TakenByOps(rest) = {}
             /\ OwedByOps(alias) = IF u.establishes_alias THEN AliasTokens(u) ELSE {}
             /\ TakenByOps(alias) = IF u.establishes_alias THEN AliasTokens(u) ELSE {}
             /\ Names(rest) \subseteq {u.id} \X {"anti_in", "out", "anti_out"}
             /\ Names(alias) \subseteq {u.id} \X {"alias_out", "alias_anti_in"}
             /\ \A k \in DOMAIN alias : alias[k].do = "increment" =>
                  <<alias[k].unit, alias[k].counter>> \in Later(alias, k)
<1> DEFINE alias == IF u.establishes_alias THEN EstablishAlias(u) ELSE <<>>
           d1 == IF u.anti_dependency THEN <<>> ELSE DecrementOf(u, "anti_in")
           d2 == DecrementOf(u, "out")
           d3 == DecrementOf(u, "anti_out")
           rest == d1 \o d2 \o d3
<1>1. /\ Sound(d1) /\ TakenByOps(d1) = {}
      /\ OwedByOps(d1) = IF u.anti_dependency \/ u.anti_in = None THEN {}
                         ELSE {<<<<u.id, "anti_in">>, u.anti_in>>}
      /\ Names(d1) \subseteq {<<u.id, "anti_in">>}
  BY DecrementOfUse, SoundParts, NoOps
<1>2. /\ Sound(d2) /\ TakenByOps(d2) = {}
      /\ OwedByOps(d2) = IF u.out = None THEN {} ELSE {<<<<u.id, "out">>, u.out>>}
      /\ Names(d2) \subseteq {<<u.id, "out">>}
  BY DecrementOfUse
<1>3. /\ Sound(d3) /\ TakenByOps(d3) = {}
      /\ OwedByOps(d3) = IF u.anti_out = None THEN {} ELSE {<<<<u.id, "anti_out">>, u.anti_out>>}
      /\ Names(d3) \subseteq {<<u.id, "anti_out">>}
  BY DecrementOfUse
<1> HIDE DEF d1, d2, d3
<1>4. /\ Sound(d1 \o d2) /\ OwedByOps(d1 \o d2) = OwedByOps(d1) \cup OwedByOps(d2)
      /\ TakenByOps(d1 \o d2) = {} /\ Names(d1 \o d2) = Names(d1) \cup Names(d2)
  <2>1. Names(d1) \cap Names(d2) = {}
    BY <1>1, <1>2
  <2> QED BY <1>1, <1>2, <2>1, SoundConcat
<1>5. /\ Sound(rest) /\ OwedByOps(rest) = OwedByOps(d1) \cup OwedByOps(d2) \cup OwedByOps(d3)
      /\ TakenByOps(rest) = {} /\ Names(rest) = Names(d1) \cup Names(d2) \cup Names(d3)
  <2>1. Names(d1 \o d2) \cap Names(d3) = {}
    BY <1>1, <1>2, <1>3, <1>4
  <2> QED BY <1>3, <1>4, <2>1, SoundConcat
<1>6. OwedByOps(rest) = OwedByUse(u)
  BY <1>1, <1>2, <1>3, <1>5 DEF OwedByUse
<1>7. Names(rest) \subseteq {u.id} \X {"anti_in", "out", "anti_out"}
  BY <1>1, <1>2, <1>3, <1>5
<1>8. /\ Sound(alias)
      /\ OwedByOps(alias) = IF u.establishes_alias THEN AliasTokens(u) ELSE {}
      /\ TakenByOps(alias) = IF u.establishes_alias THEN AliasTokens(u) ELSE {}
      /\ Names(alias) \subseteq {u.id} \X {"alias_out", "alias_anti_in"}
      /\ \A k \in DOMAIN alias : alias[k].do = "increment" =>
           <<alias[k].unit, alias[k].counter>> \in Later(alias, k)
  <2>0. u.out \in Flows /\ u.in \in Flows /\ u.anti_in \in Flows /\ u.anti_out \in Flows
        /\ <<u.id, "alias_out">> \in FlowUnits /\ <<u.id, "alias_anti_in">> \in FlowUnits
    BY DEF Uses, FlowUnits
  <2>1. CASE ~u.establishes_alias
    BY <2>1, SoundParts, NoOps
  <2>2. CASE u.establishes_alias
    <3> DEFINE a1 == AliasTo(u.out, u.in, <<u.id, "alias_out">>)
               a2 == IF u.anti_in = None THEN <<>>
                     ELSE AliasTo(u.anti_in, u.anti_out, <<u.id, "alias_anti_in">>)
               x1 == <<<<u.id, "alias_out">>, u.out>>
               x2 == <<<<u.id, "alias_anti_in">>, u.anti_in>>
    <3>1. /\ Sound(a1) /\ OwedByOps(a1) = {x1} /\ TakenByOps(a1) = {x1}
          /\ Names(a1) = {<<u.id, "alias_out">>} /\ Len(a1) = 2 /\ a1[2].do # "increment"
          /\ Later(a1, 1) = {x1}
      BY <2>0, AliasPart, SMTT(60), ZenonT(60)
    <3>2. /\ Sound(a2)
          /\ OwedByOps(a2) = IF u.anti_in = None THEN {} ELSE {x2}
          /\ TakenByOps(a2) = IF u.anti_in = None THEN {} ELSE {x2}
          /\ Names(a2) \subseteq {<<u.id, "alias_anti_in">>}
          /\ Len(a2) = IF u.anti_in = None THEN 0 ELSE 2
          /\ u.anti_in # None => a2[2].do # "increment" /\ Later(a2, 1) = {x2}
      <4>1. CASE u.anti_in = None
        <5>1. a2 = <<>> /\ Len(<<>>) = 0
          BY <4>1
        <5> HIDE DEF a2
        <5> QED BY <4>1, <5>1, SoundParts, NoOps
      <4>2. CASE u.anti_in # None
        <5>1. a2 = AliasTo(u.anti_in, u.anti_out, <<u.id, "alias_anti_in">>)
          BY <4>2
        <5> HIDE DEF a2
        <5> QED BY <2>0, <4>2, <5>1, AliasPart, SMTT(60), ZenonT(60)
      <4> QED BY <4>1, <4>2
    <3>3. alias = a1 \o a2
      BY <2>2 DEF EstablishAlias
    <3> HIDE DEF a1, a2, alias
    <3>4. /\ Sound(a1 \o a2) /\ OwedByOps(a1 \o a2) = OwedByOps(a1) \cup OwedByOps(a2)
          /\ TakenByOps(a1 \o a2) = TakenByOps(a1) \cup TakenByOps(a2)
          /\ Names(a1 \o a2) = Names(a1) \cup Names(a2)
      BY <3>1, <3>2, SoundConcat
    <3>5. OwedByOps(alias) = AliasTokens(u) /\ TakenByOps(alias) = AliasTokens(u)
      BY <3>1, <3>2, <3>3, <3>4 DEF AliasTokens
    <3>6. Names(alias) \subseteq {u.id} \X {"alias_out", "alias_anti_in"}
      BY <3>1, <3>2, <3>3, <3>4
    <3>7. ASSUME NEW k \in DOMAIN alias, alias[k].do = "increment"
          PROVE  <<alias[k].unit, alias[k].counter>> \in Later(alias, k)
      <4>1. a1 \in Seq(Ops) /\ a2 \in Seq(Ops)
        BY <3>1, <3>2 DEF Sound
      <4>2. DOMAIN alias = 1..(2 + Len(a2)) /\ \A i \in DOMAIN alias :
              alias[i] = IF i <= 2 THEN a1[i] ELSE a2[i - 2]
        <5>1. Len(a1 \o a2) = 2 + Len(a2) /\ DOMAIN (a1 \o a2) = 1..(2 + Len(a2))
              /\ \A i \in 1..(2 + Len(a2)) :
                   (a1 \o a2)[i] = IF i <= 2 THEN a1[i] ELSE a2[i - 2]
          <6>1. /\ Len(a1 \o a2) = Len(a1) + Len(a2) /\ DOMAIN (a1 \o a2) = 1..(Len(a1) + Len(a2))
                /\ \A i \in 1..(Len(a1) + Len(a2)) :
                     (a1 \o a2)[i] = IF i <= Len(a1) THEN a1[i] ELSE a2[i - Len(a1)]
            BY <4>1, ConcatProperties
          <6> QED BY <3>1, <6>1
        <5> QED BY <3>3, <5>1
      <4>3. CASE k = 1
        <5>1. <<a1[1].unit, a1[1].counter>> \in TakenByOps(a1)
          BY <3>1, <3>7, <4>1, <4>2, <4>3, SMTT(60), ZenonT(60) DEF TakenByOps
        <5>2. Later(a1 \o a2, 1) = Later(a1, 1) \cup OwedByOps(a2)
          <6>1. 1 \in Nat \ {0} /\ 1 <= Len(a1)
            BY <3>1
          <6> QED BY <4>1, <6>1, LaterConcat
        <5> QED BY <3>1, <3>3, <4>2, <4>3, <5>1, <5>2, SMTT(60), ZenonT(60)
      <4>4. CASE k = 3
        <5>1. u.anti_in # None
          BY <3>2, <4>2, <4>4
        <5>2. <<a2[1].unit, a2[1].counter>> \in TakenByOps(a2)
          BY <3>2, <3>7, <4>1, <4>2, <4>4, <5>1 DEF TakenByOps
        <5>3. Later(a1 \o a2, Len(a1) + 1) = Later(a2, 1)
          <6>1. 1 \in Nat \ {0}
            OBVIOUS
          <6> QED BY <4>1, <6>1, LaterInRest
        <5> QED BY <3>1, <3>2, <3>3, <4>2, <4>4, <5>1, <5>2, <5>3
      <4>5. k # 2
        BY <3>1, <3>7, <4>2
      <4>6. k # 4
        BY <3>2, <3>7, <4>2
      <4> QED BY <3>2, <4>2, <4>3, <4>4, <4>5, <4>6
    <3> QED BY <2>2, <3>3, <3>4, <3>5, <3>6, <3>7
  <2> QED BY <2>1, <2>2
<1> HIDE DEF alias
<1>9. ReleaseUse(u) = alias \o rest
  <2>1. ReleaseUse(u) = alias \o d1 \o d2 \o d3
    BY DEF ReleaseUse, alias, d1, d2, d3
  <2>2. alias \in Seq(Ops) /\ d1 \in Seq(Ops) /\ d2 \in Seq(Ops) /\ d3 \in Seq(Ops)
    BY <1>1, <1>2, <1>3, <1>8 DEF Sound
  <2>3. d1 \o d2 \in Seq(Ops)
    BY <2>2, ConcatOps
  <2>4. (alias \o d1) \o d2 = alias \o (d1 \o d2)
    BY <2>2, ConcatAssociative
  <2>5. \A d \in Seq(Ops) : (alias \o d) \o d3 = alias \o (d \o d3)
    BY <2>2, ConcatAssociative, SMTT(90), ZenonT(60)
  <2>6. (alias \o (d1 \o d2)) \o d3 = alias \o ((d1 \o d2) \o d3)
    BY <2>3, <2>5
  <2> QED BY <2>1, <2>4, <2>6
<1>10. Sound(alias \o rest)
  <2>1. Names(alias) \cap Names(rest) = {}
    BY <1>7, <1>8
  <2> QED BY <1>5, <1>8, <2>1, SoundConcat
<1>11. QED
  BY <1>5, <1>6, <1>7, <1>8, <1>9, <1>10 DEF alias, d1, d2, d3

\* What the pending operation of a task with use u waits for.
WaitTokens(t, u) ==
  {<<<<u.id, name>>, t>> : name \in {"wait_in", "setup"}
                              \cup (IF u.anti_dependency THEN {"wait_anti_in"} ELSE {})}

\* make_pending_task owes exactly what the task is made to wait for.
LEMMA Making ==
  ASSUME NEW t \in Tasks, NEW u \in Uses
  PROVE  /\ Sound(MakePendingTask(t, u)) /\ TakenByOps(MakePendingTask(t, u)) = {}
         /\ OwedByOps(MakePendingTask(t, u)) = WaitTokens(t, u)
         /\ Names(MakePendingTask(t, u)) \subseteq {u.id} \X {"wait_in", "wait_anti_in", "setup"}
<1> DEFINE a == Attach(u.in, Satisfy(t, <<u.id, "wait_in">>))
           b == Attach(u.anti_in, Satisfy(t, <<u.id, "wait_anti_in">>))
           c == Satisfy(t, <<u.id, "setup">>)
           m == IF u.anti_dependency THEN <<b>> ELSE <<>>
<1>0. /\ <<u.id, "wait_in">> \in WaitUnits /\ <<u.id, "wait_anti_in">> \in WaitUnits
      /\ <<u.id, "setup">> \in WaitUnits /\ u.in \in Flows /\ u.anti_in \in Flows
  BY DEF Uses, WaitUnits
<1>1. a \in Ops /\ OwedByOp(a) = {<<<<u.id, "wait_in">>, t>>} /\ a.do = "attach"
  BY <1>0, SatisfyOp, AttachOp
<1>2. b \in Ops /\ OwedByOp(b) = {<<<<u.id, "wait_anti_in">>, t>>} /\ b.do = "attach"
  BY <1>0, SatisfyOp, AttachOp
<1>3. c \in Ops /\ OwedByOp(c) = {<<<<u.id, "setup">>, t>>} /\ c.do = "satisfy"
  BY <1>0, SatisfyOp
<1>4. MakePendingTask(t, u) = <<a>> \o m \o <<c>>
  BY DEF MakePendingTask
<1> HIDE DEF a, b, c
<1>5. /\ Sound(<<a>>) /\ OwedByOps(<<a>>) = {<<<<u.id, "wait_in">>, t>>} /\ TakenByOps(<<a>>) = {}
  BY <1>1, SoundParts, SingleOps
<1>6. /\ Sound(<<c>>) /\ OwedByOps(<<c>>) = {<<<<u.id, "setup">>, t>>} /\ TakenByOps(<<c>>) = {}
  BY <1>3, SoundParts, SingleOps
<1>7. /\ Sound(m) /\ TakenByOps(m) = {}
      /\ OwedByOps(m) = IF u.anti_dependency THEN {<<<<u.id, "wait_anti_in">>, t>>} ELSE {}
  BY <1>2, SoundParts, SingleOps, NoOps
<1> HIDE DEF m
<1>8. Names(<<a>>) = {<<u.id, "wait_in">>} /\ Names(<<c>>) = {<<u.id, "setup">>}
      /\ Names(m) \subseteq {<<u.id, "wait_anti_in">>}
  <2>1. \A unit, f : <<unit, f>>[1] = unit
    OBVIOUS
  <2>2. /\ Names(<<a>>) = {x[1] : x \in {<<<<u.id, "wait_in">>, t>>}}
        /\ Names(<<c>>) = {x[1] : x \in {<<<<u.id, "setup">>, t>>}}
    BY <1>5, <1>6 DEF Names
  <2>3. Names(m) \subseteq {x[1] : x \in {<<<<u.id, "wait_anti_in">>, t>>}}
    BY <1>7 DEF Names
  <2> QED BY <2>1, <2>2, <2>3
<1>9. /\ Sound(<<a>> \o m) /\ OwedByOps(<<a>> \o m) = OwedByOps(<<a>>) \cup OwedByOps(m)
      /\ TakenByOps(<<a>> \o m) = {} /\ Names(<<a>> \o m) = Names(<<a>>) \cup Names(m)
  <2>1. Names(<<a>>) \cap Names(m) = {}
    BY <1>8
  <2> QED BY <1>5, <1>7, <2>1, SoundConcat
<1>10. /\ Sound(<<a>> \o m \o <<c>>) /\ TakenByOps(<<a>> \o m \o <<c>>) = {}
       /\ OwedByOps(<<a>> \o m \o <<c>>) = OwedByOps(<<a>>) \cup OwedByOps(m) \cup OwedByOps(<<c>>)
       /\ Names(<<a>> \o m \o <<c>>) = Names(<<a>>) \cup Names(m) \cup Names(<<c>>)
  <2>1. Names(<<a>> \o m) \cap Names(<<c>>) = {}
    BY <1>8, <1>9
  <2> QED BY <1>6, <1>9, <2>1, SoundConcat
<1>11. OwedByOps(<<a>> \o m \o <<c>>) = WaitTokens(t, u)
  BY <1>5, <1>6, <1>7, <1>10 DEF WaitTokens
<1>12. Names(<<a>> \o m \o <<c>>) \subseteq {u.id} \X {"wait_in", "wait_anti_in", "setup"}
  BY <1>8, <1>10
<1> QED BY <1>4, <1>10, <1>11, <1>12

\* The same of four parts.
LEMMA SoundConcat4 ==
  ASSUME NEW a, NEW b, NEW c, NEW d, Sound(a), Sound(b), Sound(c), Sound(d),
         Names(a) \cap Names(b) = {}, Names(a) \cap Names(c) = {}, Names(a) \cap Names(d) = {},
         Names(b) \cap Names(c) = {}, Names(b) \cap Names(d) = {}, Names(c) \cap Names(d) = {}
  PROVE  /\ Sound(a \o b \o c \o d)
         /\ OwedByOps(a \o b \o c \o d)
              = OwedByOps(a) \cup OwedByOps(b) \cup OwedByOps(c) \cup OwedByOps(d)
         /\ TakenByOps(a \o b \o c \o d)
              = TakenByOps(a) \cup TakenByOps(b) \cup TakenByOps(c) \cup TakenByOps(d)
         /\ Names(a \o b \o c \o d) = Names(a) \cup Names(b) \cup Names(c) \cup Names(d)
<1>1. /\ Sound(a \o b) /\ OwedByOps(a \o b) = OwedByOps(a) \cup OwedByOps(b)
      /\ TakenByOps(a \o b) = TakenByOps(a) \cup TakenByOps(b)
      /\ Names(a \o b) = Names(a) \cup Names(b)
  BY SoundConcat
<1>2. /\ Sound((a \o b) \o c) /\ OwedByOps((a \o b) \o c) = OwedByOps(a \o b) \cup OwedByOps(c)
      /\ TakenByOps((a \o b) \o c) = TakenByOps(a \o b) \cup TakenByOps(c)
      /\ Names((a \o b) \o c) = Names(a \o b) \cup Names(c)
  <2>1. Names(a \o b) \cap Names(c) = {}
    BY <1>1
  <2> QED BY <1>1, <2>1, SoundConcat
<1>3. /\ Sound(((a \o b) \o c) \o d)
      /\ OwedByOps(((a \o b) \o c) \o d) = OwedByOps((a \o b) \o c) \cup OwedByOps(d)
      /\ TakenByOps(((a \o b) \o c) \o d) = TakenByOps((a \o b) \o c) \cup TakenByOps(d)
      /\ Names(((a \o b) \o c) \o d) = Names((a \o b) \o c) \cup Names(d)
  <2>1. Names((a \o b) \o c) \cap Names(d) = {}
    BY <1>1, <1>2
  <2> QED BY <1>2, <2>1, SoundConcat
<1> QED BY <1>1, <1>2, <1>3

\* A part that does nothing, is one increment, or is one operation that gives back.
LEMMA NoPart ==
  ASSUME NEW s, s = <<>>
  PROVE  Sound(s) /\ OwedByOps(s) = {} /\ TakenByOps(s) = {} /\ Names(s) = {}
BY SoundParts, NoOps

\* One increment takes its unit.
LEMMA TakingPart ==
  ASSUME NEW f \in Flows, NEW unit \in FlowUnits, NEW s, s = <<Increment(f, unit)>>
  PROVE  /\ Sound(s) /\ OwedByOps(s) = {} /\ TakenByOps(s) = {<<unit, f>>}
         /\ Names(s) \subseteq {unit}
<1> DEFINE op == Increment(f, unit)
<1>1. /\ op \in Ops /\ OwedByOp(op) = {} /\ op.do = "increment" /\ op.unit = unit
      /\ op.counter = f
  BY IncrementOp
<1> HIDE DEF op
<1>2. Sound(<<op>>) /\ OwedByOps(<<op>>) = {} /\ TakenByOps(<<op>>) = {<<unit, f>>}
  BY <1>1, SoundParts, SingleOps
<1>3. Names(<<op>>) \subseteq {unit}
  BY <1>2 DEF Names
<1> QED BY <1>2, <1>3 DEF op

\* A new flow or anti-flow is made ready once, now or when another is.
LEMMA ReadyPart ==
  ASSUME NEW id \in UseIds, NEW role \in {"in", "anti_in", "out", "anti_out"}, NEW f \in Flows,
         NEW s, s = <<MakeReady(id, role)>> \/ s = <<Attach(f, MakeReady(id, role))>>
  PROVE  /\ Sound(s) /\ OwedByOps(s) = {<<<<id, role>>, <<id, role>>>>} /\ TakenByOps(s) = {}
         /\ Names(s) \subseteq {<<id, role>>}
<1> DEFINE a == MakeReady(id, role)
           b == Attach(f, a)
<1>0. <<id, role>> \in Flows /\ <<id, role>> \in FlowUnits
  BY DEF Flows, FlowUnits, Roles
<1>1. a \in Payloads /\ a \in Ops /\ OwedByOp(a) = {<<<<id, role>>, <<id, role>>>>}
      /\ a.do = "decrement"
  BY <1>0, DecrementOp DEF MakeReady
<1> HIDE DEF a
<1>2. b \in Ops /\ OwedByOp(b) = {<<<<id, role>>, <<id, role>>>>} /\ b.do = "attach"
  BY <1>1, AttachOp
<1> HIDE DEF b
<1>3. PICK op \in Ops : /\ s = <<op>> /\ op.do \in {"decrement", "attach"}
                        /\ OwedByOp(op) = {<<<<id, role>>, <<id, role>>>>}
  BY <1>1, <1>2 DEF a, b
<1>4. Sound(s) /\ OwedByOps(s) = {<<<<id, role>>, <<id, role>>>>} /\ TakenByOps(s) = {}
  BY <1>3, SoundParts, SingleOps
<1>5. Names(s) \subseteq {<<id, role>>}
  BY <1>4 DEF Names
<1> QED BY <1>4, <1>5

\* A record of flows and flags is a use.
LEMMA UseRecord ==
  ASSUME NEW id \in UseIds, NEW in \in Flows, NEW anti_in \in Flows, NEW out \in Flows,
         NEW anti_out \in Flows, NEW anti_dependency \in BOOLEAN, NEW alias \in BOOLEAN
  PROVE  [id |-> id, in |-> in, anti_in |-> anti_in, out |-> out, anti_out |-> anti_out,
          anti_dependency |-> anti_dependency, establishes_alias |-> alias] \in Uses
BY DEF Uses

\* Establishing an alias or not changes nothing else of a use.
LEMMA AliasRecord ==
  ASSUME NEW w \in Uses, NEW alias \in BOOLEAN
  PROVE  LET x == [w EXCEPT !.establishes_alias = alias]
         IN  /\ x \in Uses /\ x.id = w.id /\ x.in = w.in /\ x.anti_in = w.anti_in
             /\ x.out = w.out /\ x.anti_out = w.anti_out
             /\ x.anti_dependency = w.anti_dependency /\ x.establishes_alias = alias
BY DEF Uses

\* What is captured and what goes on have ids of their own.
LEMMA IdsOfUser ==
  ASSUME NEW t \in Users
  PROVE  <<t, "captured">> \in UseIds /\ <<t, "continuing">> \in UseIds
BY DEF Users, UseIds

\* A new flow is not the one that stands for nullptr.
LEMMA NewFlowsExist ==
  ASSUME NEW t \in Users, NEW role \in Roles
  PROVE  /\ <<t, "captured">> \in UseIds /\ <<t, "continuing">> \in UseIds
         /\ <<<<t, "captured">>, role>> \in Flows /\ <<<<t, "captured">>, role>> # None
         /\ None \in Flows
BY DEF Users, UseIds, Flows, None, Roles

-----------------------------------------------------------------------------
(* register_use for a use that a task captures *)

\* The relationships of a captured use to the use it is captured from.
LEMMA CapturedRelated ==
  ASSUME NEW u \in Uses, NEW t \in Tasks, NEW k \in {"read", "write"}
  PROVE  LET rels == CapturedRels(u, k)
         IN  /\ rels.in.description \in {"forwarding", "same"} /\ rels.in.related = u.in
             /\ k = "read" => /\ rels.out.description = "insignificant" /\ rels.out.related = None
                              /\ rels.anti_in.description = "insignificant" /\ rels.anti_in.related = None
             /\ k = "write" => /\ rels.out.description = "next"
                               /\ rels.anti_in.description = IF Modifying(u) THEN "forwarding" ELSE "same"
                               /\ rels.anti_in.related = u.anti_out
             /\ rels.anti_out.description = IF k = "read" /\ ~Modifying(u) THEN "same" ELSE "next"
             /\ rels.anti_out.related = u.anti_out
<1> DEFINE rels == CapturedRels(u, k)
<1>1. /\ rels.in = Relationship(IF Modifying(u) THEN "forwarding" ELSE "same", u.in)
      /\ rels.out = IF k = "read" THEN Insignificant ELSE Relationship("next", u.in)
      /\ rels.anti_in = IF k = "read" THEN Insignificant
                        ELSE Relationship(IF Modifying(u) THEN "forwarding" ELSE "same", u.anti_out)
      /\ rels.anti_out = Relationship(IF k = "read" /\ ~Modifying(u) THEN "same" ELSE "next",
                                      u.anti_out)
  BY DEF CapturedRels
<1>2. /\ rels.in.description \in {"forwarding", "same"} /\ rels.in.related = u.in
      /\ k = "read" => /\ rels.out.description = "insignificant" /\ rels.out.related = None
                       /\ rels.anti_in.description = "insignificant" /\ rels.anti_in.related = None
      /\ k = "write" => /\ rels.out.description = "next"
                        /\ rels.anti_in.description = IF Modifying(u) THEN "forwarding" ELSE "same"
                        /\ rels.anti_in.related = u.anti_out
      /\ rels.anti_out.description = IF k = "read" /\ ~Modifying(u) THEN "same" ELSE "next"
      /\ rels.anti_out.related = u.anti_out
  BY <1>1 DEF Insignificant, Relationship
<1> QED BY <1>2

\* The flows that are made for a captured use.
LEMMA CapturedFlows ==
  ASSUME NEW u \in Uses, NEW t \in Tasks, NEW k \in {"read", "write"}
  PROVE  LET id   == <<t, "captured">>
             rels == CapturedRels(u, k)
         IN  NewFlows(id, rels) =
                  {<<id, role>> : role \in (IF k = "write" THEN {"out", "anti_out"} ELSE {})
                     \cup (IF Modifying(u) THEN {"anti_out"} ELSE {})
                     \cup (IF k = "write" /\ Modifying(u) THEN {"anti_in"} ELSE {})}
<1> DEFINE id   == <<t, "captured">>
           rels == CapturedRels(u, k)
<1>2. /\ rels.in.description \in {"forwarding", "same"} /\ rels.in.related = u.in
      /\ k = "read" => /\ rels.out.description = "insignificant" /\ rels.out.related = None
                       /\ rels.anti_in.description = "insignificant" /\ rels.anti_in.related = None
      /\ k = "write" => /\ rels.out.description = "next"
                        /\ rels.anti_in.description = IF Modifying(u) THEN "forwarding" ELSE "same"
                        /\ rels.anti_in.related = u.anti_out
      /\ rels.anti_out.description = IF k = "read" /\ ~Modifying(u) THEN "same" ELSE "next"
      /\ rels.anti_out.related = u.anti_out
  BY CapturedRelated
<1> HIDE DEF rels
<1>4. \A role \in Roles : rels[role] = CASE role = "in" -> rels.in [] role = "out" -> rels.out
                            [] role = "anti_in" -> rels.anti_in [] role = "anti_out" -> rels.anti_out
  BY DEF Roles
<1>5. /\ ~IsNew("in", rels.in)
      /\ IsNew("anti_in", rels.anti_in) <=> (k = "write" /\ Modifying(u))
      /\ IsNew("out", rels.out) <=> k = "write"
      /\ IsNew("anti_out", rels.anti_out) <=> (k = "write" \/ Modifying(u))
  <2>1. ~IsNew("in", rels.in)
    BY <1>2 DEF IsNew
  <2>2. CASE k = "read"
    BY <1>2, <2>1, <2>2 DEF IsNew
  <2>3. CASE k = "write"
    BY <1>2, <2>1, <2>3 DEF IsNew
  <2> QED BY <2>2, <2>3
<1>8. NewFlows(id, rels) =
        {<<id, role>> : role \in (IF k = "write" THEN {"out", "anti_out"} ELSE {})
           \cup (IF Modifying(u) THEN {"anti_out"} ELSE {})
           \cup (IF k = "write" /\ Modifying(u) THEN {"anti_in"} ELSE {})}
  BY <1>4, <1>5 DEF NewFlows, Roles
<1> QED BY <1>8 DEF id, rels

\* The use that register_use makes of them.
LEMMA CapturedUse ==
  ASSUME NEW u \in Uses, NEW t \in Tasks, NEW k \in {"read", "write"}
  PROVE  LET id   == <<t, "captured">>
             rels == CapturedRels(u, k)
             v    == Registered(id, rels, k # "read")
         IN  /\ v \in Uses /\ v.id = id /\ v.in = u.in
             /\ (v.anti_dependency <=> k # "read") /\ ~v.establishes_alias
             /\ v.out = IF k = "read" THEN None ELSE <<id, "out">>
             /\ v.anti_in = IF k = "read" THEN None
                            ELSE IF Modifying(u) THEN <<id, "anti_in">> ELSE u.anti_out
             /\ v.anti_out = IF k = "read" /\ ~Modifying(u) THEN u.anti_out ELSE <<id, "anti_out">>
<1> DEFINE id   == <<t, "captured">>
           rels == CapturedRels(u, k)
           v    == Registered(id, rels, k # "read")
<1>0. /\ id \in UseIds /\ <<id, "anti_out">> \in FlowUnits /\ None \in Flows
      /\ <<id, "in">> \in Flows /\ <<id, "anti_in">> \in Flows
      /\ <<id, "out">> \in Flows /\ <<id, "anti_out">> \in Flows
      /\ u.in \in Flows /\ u.out \in Flows /\ u.anti_in \in Flows /\ u.anti_out \in Flows
      /\ u.anti_dependency \in BOOLEAN
  BY NewFlowsExist DEF Users, Uses, FlowUnits, Roles
<1>2. /\ rels.in.description \in {"forwarding", "same"} /\ rels.in.related = u.in
      /\ k = "read" => /\ rels.out.description = "insignificant" /\ rels.out.related = None
                       /\ rels.anti_in.description = "insignificant" /\ rels.anti_in.related = None
      /\ k = "write" => /\ rels.out.description = "next"
                        /\ rels.anti_in.description = IF Modifying(u) THEN "forwarding" ELSE "same"
                        /\ rels.anti_in.related = u.anti_out
      /\ rels.anti_out.description = IF k = "read" /\ ~Modifying(u) THEN "same" ELSE "next"
      /\ rels.anti_out.related = u.anti_out
  BY CapturedRelated
<1> HIDE DEF rels
<1>5. /\ ~IsNew("in", rels.in)
      /\ IsNew("anti_in", rels.anti_in) <=> (k = "write" /\ Modifying(u))
      /\ IsNew("out", rels.out) <=> k = "write"
      /\ IsNew("anti_out", rels.anti_out) <=> (k = "write" \/ Modifying(u))
  <2>1. ~IsNew("in", rels.in)
    BY <1>2 DEF IsNew
  <2>2. CASE k = "read"
    BY <1>2, <2>1, <2>2 DEF IsNew
  <2>3. CASE k = "write"
    BY <1>2, <2>1, <2>3 DEF IsNew
  <2> QED BY <2>2, <2>3
<1>6. /\ v.id = id /\ v.in = u.in
      /\ (v.anti_dependency <=> k # "read") /\ ~v.establishes_alias
      /\ v.out = IF k = "read" THEN None ELSE <<id, "out">>
      /\ v.anti_in = IF k = "read" THEN None
                     ELSE IF Modifying(u) THEN <<id, "anti_in">> ELSE u.anti_out
      /\ v.anti_out = IF k = "read" /\ ~Modifying(u) THEN u.anti_out ELSE <<id, "anti_out">>
  BY <1>2, <1>5 DEF Registered, FlowFor
<1>7. v \in Uses
  <2>1. \E b \in BOOLEAN :
          v = [id |-> id, in |-> FlowFor(id, "in", rels.in),
               anti_in |-> FlowFor(id, "anti_in", rels.anti_in),
               out |-> FlowFor(id, "out", rels.out),
               anti_out |-> FlowFor(id, "anti_out", rels.anti_out),
               anti_dependency |-> b, establishes_alias |-> FALSE]
    <3>1. CASE k = "read"
      BY <3>1 DEF Registered
    <3>2. CASE k = "write"
      BY <3>2 DEF Registered
    <3> QED BY <3>1, <3>2
  <2>3. v.in = FlowFor(id, "in", rels.in) /\ v.anti_in = FlowFor(id, "anti_in", rels.anti_in)
        /\ v.out = FlowFor(id, "out", rels.out) /\ v.anti_out = FlowFor(id, "anti_out", rels.anti_out)
    BY DEF Registered
  <2> HIDE DEF v, id
  <2>2. v.in \in Flows /\ v.anti_in \in Flows /\ v.out \in Flows /\ v.anti_out \in Flows
    BY <1>0, <1>6
  <2>4. PICK b \in BOOLEAN :
          v = [id |-> id, in |-> v.in, anti_in |-> v.anti_in, out |-> v.out,
               anti_out |-> v.anti_out, anti_dependency |-> b, establishes_alias |-> FALSE]
    BY <2>1, <2>3
  <2>5. [id |-> id, in |-> v.in, anti_in |-> v.anti_in, out |-> v.out,
               anti_out |-> v.anti_out, anti_dependency |-> b, establishes_alias |-> FALSE] \in Uses
    BY <1>0, <2>2, UseRecord
  <2> QED BY <2>4, <2>5
<1> QED BY <1>6, <1>7 DEF id, v, rels

\* What register_use does for a captured use: a writer starts an anti-in flow when
\* its source may modify, a plain reader takes one more unit of the anti-out flow.
LEMMA CapturedOps ==
  ASSUME NEW u \in Uses, NEW t \in Tasks, NEW k \in {"read", "write"}
  PROVE  LET id   == <<t, "captured">>
             rels == CapturedRels(u, k)
             ops  == RegisterUse(id, rels, k # "read")
         IN  /\ Sound(ops)
             /\ Names(ops) \subseteq {id} \X {"anti_in", "anti_out"}
             /\ OwedByOps(ops) = IF k = "write" /\ Modifying(u)
                                 THEN {<<<<id, "anti_in">>, <<id, "anti_in">>>>} ELSE {}
             /\ TakenByOps(ops) = IF k = "read" /\ ~Modifying(u)
                                  THEN {<<<<id, "anti_out">>, u.anti_out>>} ELSE {}
<1> DEFINE id   == <<t, "captured">>
           rels == CapturedRels(u, k)
           o1 == InFlowOps(id, rels.in)
           o2 == AntiInFlowOps(id, rels.anti_in, k # "read")
           o3 == OutFlowOps(id, rels.out)
           o4 == AntiOutFlowOps(id, rels.anti_out)
<1>0. /\ id \in UseIds /\ <<id, "anti_out">> \in FlowUnits /\ None \in Flows
      /\ <<id, "in">> \in Flows /\ <<id, "anti_in">> \in Flows
      /\ <<id, "out">> \in Flows /\ <<id, "anti_out">> \in Flows
      /\ u.in \in Flows /\ u.out \in Flows /\ u.anti_in \in Flows /\ u.anti_out \in Flows
      /\ u.anti_dependency \in BOOLEAN
  BY NewFlowsExist DEF Users, Uses, FlowUnits, Roles
<1>2. /\ rels.in.description \in {"forwarding", "same"} /\ rels.in.related = u.in
      /\ k = "read" => /\ rels.out.description = "insignificant" /\ rels.out.related = None
                       /\ rels.anti_in.description = "insignificant" /\ rels.anti_in.related = None
      /\ k = "write" => /\ rels.out.description = "next"
                        /\ rels.anti_in.description = IF Modifying(u) THEN "forwarding" ELSE "same"
                        /\ rels.anti_in.related = u.anti_out
      /\ rels.anti_out.description = IF k = "read" /\ ~Modifying(u) THEN "same" ELSE "next"
      /\ rels.anti_out.related = u.anti_out
  BY CapturedRelated
<1>3. RegisterUse(id, rels, k # "read") = o1 \o o2 \o o3 \o o4
  BY DEF RegisterUse
<1> HIDE DEF rels
<1>9. o1 = <<>> /\ o3 = <<>>
  BY <1>2 DEF InFlowOps, OutFlowOps
<1>10. o2 = IF k = "write" /\ Modifying(u) THEN <<MakeReady(id, "anti_in")>> ELSE <<>>
  BY <1>2 DEF AntiInFlowOps
<1>11. o4 = IF k = "read" /\ ~Modifying(u) THEN <<Increment(u.anti_out, <<id, "anti_out">>)>>
            ELSE <<>>
  BY <1>2 DEF AntiOutFlowOps
<1> HIDE DEF o1, o2, o3, o4, id
<1>12. /\ Sound(o1) /\ OwedByOps(o1) = {} /\ TakenByOps(o1) = {} /\ Names(o1) = {}
       /\ Sound(o3) /\ OwedByOps(o3) = {} /\ TakenByOps(o3) = {} /\ Names(o3) = {}
  BY <1>9, NoPart
<1>13. /\ Sound(o2) /\ TakenByOps(o2) = {} /\ Names(o2) \subseteq {<<id, "anti_in">>}
       /\ OwedByOps(o2) = IF k = "write" /\ Modifying(u)
                          THEN {<<<<id, "anti_in">>, <<id, "anti_in">>>>} ELSE {}
  <2>1. CASE k = "write" /\ Modifying(u)
    BY <1>0, <1>10, <2>1, ReadyPart
  <2>2. CASE ~(k = "write" /\ Modifying(u))
    BY <1>10, <2>2, NoPart
  <2> QED BY <2>1, <2>2
<1>14. /\ Sound(o4) /\ OwedByOps(o4) = {} /\ Names(o4) \subseteq {<<id, "anti_out">>}
       /\ TakenByOps(o4) = IF k = "read" /\ ~Modifying(u)
                           THEN {<<<<id, "anti_out">>, u.anti_out>>} ELSE {}
  <2>1. CASE k = "read" /\ ~Modifying(u)
    BY <1>0, <1>11, <2>1, TakingPart
  <2>2. CASE ~(k = "read" /\ ~Modifying(u))
    BY <1>11, <2>2, NoPart
  <2> QED BY <2>1, <2>2
<1>15. /\ Sound(o1 \o o2 \o o3 \o o4)
       /\ OwedByOps(o1 \o o2 \o o3 \o o4)
            = OwedByOps(o1) \cup OwedByOps(o2) \cup OwedByOps(o3) \cup OwedByOps(o4)
       /\ TakenByOps(o1 \o o2 \o o3 \o o4)
            = TakenByOps(o1) \cup TakenByOps(o2) \cup TakenByOps(o3) \cup TakenByOps(o4)
       /\ Names(o1 \o o2 \o o3 \o o4) = Names(o1) \cup Names(o2) \cup Names(o3) \cup Names(o4)
  <2>1. /\ Names(o1) \cap Names(o2) = {} /\ Names(o1) \cap Names(o3) = {}
        /\ Names(o1) \cap Names(o4) = {} /\ Names(o2) \cap Names(o3) = {}
        /\ Names(o2) \cap Names(o4) = {} /\ Names(o3) \cap Names(o4) = {}
    BY <1>12, <1>13, <1>14
  <2> QED BY <1>12, <1>13, <1>14, <2>1, SoundConcat4
<1>16. /\ Names(o1 \o o2 \o o3 \o o4) \subseteq {id} \X {"anti_in", "anti_out"}
       /\ OwedByOps(o1 \o o2 \o o3 \o o4) = OwedByOps(o2)
       /\ TakenByOps(o1 \o o2 \o o3 \o o4) = TakenByOps(o4)
  BY <1>12, <1>13, <1>14, <1>15
<1> QED BY <1>3, <1>13, <1>14, <1>15, <1>16 DEF id, rels

-----------------------------------------------------------------------------
(* register_use for what is left of a use that was captured from *)

\* What goes on keeps the out flow of its source and has the anti-out flow of the
\* captured use.
LEMMA ContinuingUse ==
  ASSUME NEW u \in Uses, NEW v \in Uses, NEW t \in Tasks, NEW k \in {"read", "write"}
  PROVE  LET id   == <<t, "continuing">>
             rels == ContinuingRels(u, v, k)
             w    == Registered(id, rels, FALSE)
         IN  /\ w \in Uses /\ w.id = id /\ ~w.anti_dependency
             /\ w.out = u.out /\ w.anti_out = v.anti_out
             /\ w.in = IF k = "read" THEN v.in ELSE v.out
             /\ w.anti_in = IF Modifying(u) THEN u.anti_out ELSE u.anti_in
<1> DEFINE id   == <<t, "continuing">>
           rels == ContinuingRels(u, v, k)
           w    == Registered(id, rels, FALSE)
           anti == IF Modifying(u) THEN u.anti_out ELSE u.anti_in
<1>0. /\ id \in UseIds /\ <<id, "anti_in">> \in FlowUnits /\ <<id, "out">> \in FlowUnits
      /\ <<id, "anti_out">> \in FlowUnits
      /\ u.out \in Flows /\ u.anti_in \in Flows /\ u.anti_out \in Flows
      /\ v.in \in Flows /\ v.out \in Flows /\ v.anti_out \in Flows /\ anti \in Flows
  <2>1. id \in UseIds
    <3>1. t \in Users
      BY DEF Users
    <3> QED BY <3>1, IdsOfUser
  <2> HIDE DEF id
  <2>2. \A a \in Uses : /\ a.out \in Flows /\ a.anti_in \in Flows /\ a.anti_out \in Flows
                        /\ a.in \in Flows
    BY DEF Uses
  <2>3. anti \in Flows
    BY <2>2
  <2> QED BY <2>1, <2>2, <2>3 DEF FlowUnits
<1>1. /\ rels.in.description = "same" /\ rels.in.related = (IF k = "read" THEN v.in ELSE v.out)
      /\ rels.out.description = "same" /\ rels.out.related = u.out
      /\ rels.anti_in.description = "same" /\ rels.anti_in.related = anti
      /\ rels.anti_out.description = "same" /\ rels.anti_out.related = v.anti_out
  BY DEF ContinuingRels, Relationship
<1> HIDE DEF rels, anti
<1>3. /\ ~IsNew("in", rels.in) /\ ~IsNew("anti_in", rels.anti_in)
      /\ ~IsNew("out", rels.out) /\ ~IsNew("anti_out", rels.anti_out)
  BY <1>1 DEF IsNew
<1>4. /\ w \in Uses /\ w.id = id /\ w.in = (IF k = "read" THEN v.in ELSE v.out)
      /\ w.anti_dependency = FALSE
      /\ w.out = u.out /\ w.anti_out = v.anti_out /\ w.anti_in = anti
  <2>1. w = [id |-> id, in |-> IF k = "read" THEN v.in ELSE v.out, anti_in |-> anti,
             out |-> u.out, anti_out |-> v.anti_out,
             anti_dependency |-> FALSE, establishes_alias |-> FALSE]
    BY <1>1, <1>3 DEF Registered, FlowFor
  <2>2. (IF k = "read" THEN v.in ELSE v.out) \in Flows
    BY <1>0
  <2> HIDE DEF w, id
  <2>3. w \in Uses
    BY <1>0, <2>1, <2>2, UseRecord
  <2> QED BY <2>1, <2>3
<1> QED BY <1>4 DEF id, w, rels, anti

\* It starts no flow, and takes one unit of each that it shares.
LEMMA ContinuingOps ==
  ASSUME NEW u \in Uses, NEW v \in Uses, NEW t \in Tasks, NEW k \in {"read", "write"}
  PROVE  LET id   == <<t, "continuing">>
             rels == ContinuingRels(u, v, k)
             anti == IF Modifying(u) THEN u.anti_out ELSE u.anti_in
             ops  == RegisterUse(id, rels, FALSE)
         IN  /\ Sound(ops)
             /\ Names(ops) \subseteq {id} \X {"anti_in", "out", "anti_out"}
             /\ OwedByOps(ops) = {}
             /\ TakenByOps(ops) = {<<<<id, "out">>, u.out>>, <<<<id, "anti_out">>, v.anti_out>>}
                  \cup IF anti = None THEN {} ELSE {<<<<id, "anti_in">>, anti>>}
<1> DEFINE id   == <<t, "continuing">>
           rels == ContinuingRels(u, v, k)
           anti == IF Modifying(u) THEN u.anti_out ELSE u.anti_in
           o1 == InFlowOps(id, rels.in)
           o2 == AntiInFlowOps(id, rels.anti_in, FALSE)
           o3 == OutFlowOps(id, rels.out)
           o4 == AntiOutFlowOps(id, rels.anti_out)
<1>0. /\ id \in UseIds /\ <<id, "anti_in">> \in FlowUnits /\ <<id, "out">> \in FlowUnits
      /\ <<id, "anti_out">> \in FlowUnits
      /\ u.out \in Flows /\ u.anti_in \in Flows /\ u.anti_out \in Flows
      /\ v.in \in Flows /\ v.out \in Flows /\ v.anti_out \in Flows /\ anti \in Flows
  <2>1. id \in UseIds
    <3>1. t \in Users
      BY DEF Users
    <3> QED BY <3>1, IdsOfUser
  <2> HIDE DEF id
  <2>2. \A a \in Uses : /\ a.out \in Flows /\ a.anti_in \in Flows /\ a.anti_out \in Flows
                        /\ a.in \in Flows
    BY DEF Uses
  <2>3. anti \in Flows
    BY <2>2
  <2> QED BY <2>1, <2>2, <2>3 DEF FlowUnits
<1>1. /\ rels.in.description = "same" /\ rels.in.related = (IF k = "read" THEN v.in ELSE v.out)
      /\ rels.out.description = "same" /\ rels.out.related = u.out
      /\ rels.anti_in.description = "same" /\ rels.anti_in.related = anti
      /\ rels.anti_out.description = "same" /\ rels.anti_out.related = v.anti_out
  BY DEF ContinuingRels, Relationship
<1>2. RegisterUse(id, rels, FALSE) = o1 \o o2 \o o3 \o o4
  BY DEF RegisterUse
<1> HIDE DEF rels, anti
<1>6. /\ o1 = <<>>
      /\ o2 = IF anti = None THEN <<>> ELSE <<Increment(anti, <<id, "anti_in">>)>>
      /\ o3 = <<Increment(u.out, <<id, "out">>)>>
      /\ o4 = <<Increment(v.anti_out, <<id, "anti_out">>)>>
  BY <1>1 DEF InFlowOps, AntiInFlowOps, OutFlowOps, AntiOutFlowOps
<1> HIDE DEF o1, o2, o3, o4, id
<1>7. Sound(o1) /\ OwedByOps(o1) = {} /\ TakenByOps(o1) = {} /\ Names(o1) = {}
  BY <1>6, NoPart
<1>8. /\ Sound(o2) /\ OwedByOps(o2) = {} /\ Names(o2) \subseteq {<<id, "anti_in">>}
      /\ TakenByOps(o2) = IF anti = None THEN {} ELSE {<<<<id, "anti_in">>, anti>>}
  <2>1. CASE anti = None
    BY <1>6, <2>1, NoPart
  <2>2. CASE anti # None
    BY <1>0, <1>6, <2>2, TakingPart
  <2> QED BY <2>1, <2>2
<1>9. /\ Sound(o3) /\ OwedByOps(o3) = {} /\ Names(o3) \subseteq {<<id, "out">>}
      /\ TakenByOps(o3) = {<<<<id, "out">>, u.out>>}
  BY <1>0, <1>6, TakingPart
<1>10. /\ Sound(o4) /\ OwedByOps(o4) = {} /\ Names(o4) \subseteq {<<id, "anti_out">>}
       /\ TakenByOps(o4) = {<<<<id, "anti_out">>, v.anti_out>>}
  BY <1>0, <1>6, TakingPart
<1>11. /\ Sound(o1 \o o2 \o o3 \o o4)
       /\ OwedByOps(o1 \o o2 \o o3 \o o4)
            = OwedByOps(o1) \cup OwedByOps(o2) \cup OwedByOps(o3) \cup OwedByOps(o4)
       /\ TakenByOps(o1 \o o2 \o o3 \o o4)
            = TakenByOps(o1) \cup TakenByOps(o2) \cup TakenByOps(o3) \cup TakenByOps(o4)
       /\ Names(o1 \o o2 \o o3 \o o4) = Names(o1) \cup Names(o2) \cup Names(o3) \cup Names(o4)
  <2>1. /\ Names(o1) \cap Names(o2) = {} /\ Names(o1) \cap Names(o3) = {}
        /\ Names(o1) \cap Names(o4) = {} /\ Names(o2) \cap Names(o3) = {}
        /\ Names(o2) \cap Names(o4) = {} /\ Names(o3) \cap Names(o4) = {}
    BY <1>7, <1>8, <1>9, <1>10
  <2> QED BY <1>7, <1>8, <1>9, <1>10, <2>1, SoundConcat4
<1>12. /\ Names(o1 \o o2 \o o3 \o o4) \subseteq {id} \X {"anti_in", "out", "anti_out"}
       /\ OwedByOps(o1 \o o2 \o o3 \o o4) = {}
       /\ TakenByOps(o1 \o o2 \o o3 \o o4)
            = {<<<<id, "out">>, u.out>>, <<<<id, "anti_out">>, v.anti_out>>}
                \cup IF anti = None THEN {} ELSE {<<<<id, "anti_in">>, anti>>}
  BY <1>7, <1>8, <1>9, <1>10, <1>11
<1> QED BY <1>2, <1>11, <1>12 DEF id, rels, anti

-----------------------------------------------------------------------------
(* Increments that are anchored by what comes later in the same sequence *)

\* Every unit that s takes is given back later in s.
SelfAnchored(s) ==
  \A k \in DOMAIN s : s[k].do = "increment" => <<s[k].unit, s[k].counter>> \in Later(s, k)

\* Which is so of two sequences when it is so of each,
LEMMA SelfAnchoredConcat ==
  ASSUME NEW s \in Seq(Ops), NEW t \in Seq(Ops), SelfAnchored(s), SelfAnchored(t)
  PROVE  SelfAnchored(s \o t)
<1>a. /\ DOMAIN (s \o t) = 1..(Len(s) + Len(t))
      /\ \A i \in 1..(Len(s) + Len(t)) :
           (s \o t)[i] = IF i <= Len(s) THEN s[i] ELSE t[i - Len(s)]
  BY ConcatProperties
<1>b. DOMAIN s = 1..Len(s) /\ DOMAIN t = 1..Len(t) /\ Len(s) \in Nat /\ Len(t) \in Nat
  OBVIOUS
<1>1. SUFFICES ASSUME NEW k \in DOMAIN (s \o t), (s \o t)[k].do = "increment"
               PROVE  <<(s \o t)[k].unit, (s \o t)[k].counter>> \in Later(s \o t, k)
  BY DEF SelfAnchored
<1>2. CASE k <= Len(s)
  <2>1. k \in Nat \ {0} /\ k \in DOMAIN s /\ (s \o t)[k] = s[k]
    BY <1>a, <1>b, <1>2
  <2>2. Later(s \o t, k) = Later(s, k) \cup OwedByOps(t)
    BY <1>2, <2>1, LaterConcat
  <2> QED BY <1>1, <2>1, <2>2 DEF SelfAnchored
<1>3. CASE ~(k <= Len(s))
  <2> DEFINE j == k - Len(s)
  <2>1. j \in Nat \ {0} /\ j \in DOMAIN t /\ (s \o t)[k] = t[j] /\ k = Len(s) + j
    BY <1>a, <1>b, <1>3
  <2> HIDE DEF j
  <2>2. Later(s \o t, k) = Later(t, j)
    BY <2>1, LaterInRest
  <2> QED BY <1>1, <2>1, <2>2 DEF SelfAnchored
<1> QED BY <1>2, <1>3

\* of one that takes nothing,
LEMMA SelfAnchoredNone ==
  ASSUME NEW s \in Seq(Ops), TakenByOps(s) = {} PROVE SelfAnchored(s)
BY DEF SelfAnchored, TakenByOps

\* and of the link from a flow of an index to that of its collection.
LEMMA LinkPart ==
  ASSUME NEW f \in Flows, NEW g \in Flows, NEW unit \in FlowUnits, NEW s,
         s = <<Increment(f, unit), Attach(g, Decrement(f, unit))>>
  PROVE  /\ Sound(s) /\ OwedByOps(s) = {<<unit, f>>} /\ TakenByOps(s) = {<<unit, f>>}
         /\ Names(s) = {unit} /\ SelfAnchored(s)
<1> DEFINE a == Increment(f, unit)
           b == Attach(g, Decrement(f, unit))
<1>1. /\ a \in Ops /\ OwedByOp(a) = {} /\ a.do = "increment" /\ a.unit = unit /\ a.counter = f
  BY IncrementOp
<1>2. /\ b \in Ops /\ OwedByOp(b) = {<<unit, f>>} /\ b.do = "attach"
  BY DecrementOp, AttachOp
<1>3. s = <<a, b>>
  OBVIOUS
<1> HIDE DEF a, b
<1>4. /\ <<a, b>> \in Seq(Ops) /\ OwedByOps(<<a, b>>) = {<<unit, f>>}
      /\ TakenByOps(<<a, b>>) = {<<unit, f>>}
  BY <1>1, <1>2, TwoOps
<1>5. Once(<<a, b>>) /\ TakenOnce(<<a, b>>)
  BY <1>1, <1>2 DEF Once, TakenOnce
<1>6. Names(<<a, b>>) = {unit}
  <2>1. <<unit, f>>[1] = unit
    OBVIOUS
  <2>2. Names(<<a, b>>) = {x[1] : x \in {<<unit, f>>}}
    BY <1>4 DEF Names
  <2> QED BY <2>1, <2>2
<1>7. Later(<<a, b>>, 1) = {<<unit, f>>}
  BY <1>2 DEF Later
<1>8. SelfAnchored(<<a, b>>)
  BY <1>1, <1>2, <1>7 DEF SelfAnchored
<1>9. Registers(<<a, b>>) = {}
  BY <1>1, <1>2 DEF Registers
<1> QED BY <1>3, <1>4, <1>5, <1>6, <1>8, <1>9 DEF Sound

-----------------------------------------------------------------------------
(* register_use for one index of a collection, and for the handle itself *)

\* The use of an index has flows of its own, each linked to the collection's.
LEMMA IndexedUse ==
  ASSUME NEW w \in Uses, NEW t \in Tasks
  PROVE  LET id   == <<t, "captured">>
             rels == IndexRels(w)
             v    == Registered(id, rels, TRUE)
             ops  == RegisterUse(id, rels, TRUE)
             links == {<<<<id, "link_out">>, w.out>>, <<<<id, "link_anti_out">>, w.anti_out>>}
         IN  /\ v \in Uses /\ v.id = id /\ v.in = <<id, "in">>
             /\ v.anti_dependency = TRUE /\ v.establishes_alias = FALSE
             /\ v.out = <<id, "out">> /\ v.anti_out = <<id, "anti_out">>
             /\ v.anti_in = IF w.anti_in = None THEN None ELSE <<id, "anti_in">>
             /\ NewFlows(id, rels) = {<<id, role>> : role \in {"in", "out", "anti_out"}
                                        \cup (IF w.anti_in = None THEN {} ELSE {"anti_in"})}
             /\ Sound(ops) /\ SelfAnchored(ops)
             /\ Names(ops) \subseteq {id} \X {"in", "anti_in", "link_out", "link_anti_out"}
             /\ OwedByOps(ops) = links \cup {<<<<id, role>>, <<id, role>>>> :
                   role \in {"in"} \cup (IF w.anti_in = None THEN {} ELSE {"anti_in"})}
             /\ TakenByOps(ops) = links
<1> DEFINE id   == <<t, "captured">>
           rels == IndexRels(w)
           v    == Registered(id, rels, TRUE)
           o1 == InFlowOps(id, rels.in)
           o2 == AntiInFlowOps(id, rels.anti_in, TRUE)
           o3 == OutFlowOps(id, rels.out)
           o4 == AntiOutFlowOps(id, rels.anti_out)
           x3 == <<<<id, "link_out">>, w.out>>
           x4 == <<<<id, "link_anti_out">>, w.anti_out>>
<1>a. t \in Users
  BY DEF Users
<1>b. id \in UseIds
  BY <1>a, IdsOfUser
<1>0. /\ id \in UseIds /\ <<id, "link_out">> \in FlowUnits /\ <<id, "link_anti_out">> \in FlowUnits
      /\ w.in \in Flows /\ w.out \in Flows /\ w.anti_in \in Flows /\ w.anti_out \in Flows
  <2> HIDE DEF id
  <2>1. w.in \in Flows /\ w.out \in Flows /\ w.anti_in \in Flows /\ w.anti_out \in Flows
    BY DEF Uses
  <2> QED BY <1>b, <2>1 DEF FlowUnits
<1>1. \A role \in Roles : rels[role] = Relationship("indexed_local", w[role])
  BY DEF IndexRels
<1>2. /\ rels.in.description = "indexed_local" /\ rels.in.related = w.in
      /\ rels.out.description = "indexed_local" /\ rels.out.related = w.out
      /\ rels.anti_in.description = "indexed_local" /\ rels.anti_in.related = w.anti_in
      /\ rels.anti_out.description = "indexed_local" /\ rels.anti_out.related = w.anti_out
  BY <1>1 DEF Relationship, Roles
<1>3. RegisterUse(id, rels, TRUE) = o1 \o o2 \o o3 \o o4
  BY DEF RegisterUse
<1>4. \A role \in Roles : rels[role] = CASE role = "in" -> rels.in [] role = "out" -> rels.out
                            [] role = "anti_in" -> rels.anti_in [] role = "anti_out" -> rels.anti_out
  BY DEF Roles
<1> HIDE DEF rels
<1>5. /\ IsNew("in", rels.in) /\ IsNew("out", rels.out) /\ IsNew("anti_out", rels.anti_out)
      /\ IsNew("anti_in", rels.anti_in) <=> w.anti_in # None
  BY <1>2 DEF IsNew
<1>c. \A role \in Roles : <<id, role>> \in Flows
  <2> HIDE DEF id
  <2> QED BY <1>b DEF Flows
<1>6. /\ v.id = id /\ v.in = <<id, "in">> /\ v.anti_dependency = TRUE
      /\ v.establishes_alias = FALSE
      /\ v.out = <<id, "out">> /\ v.anti_out = <<id, "anti_out">>
      /\ v.anti_in = IF w.anti_in = None THEN None ELSE <<id, "anti_in">>
  <2>1. /\ v.id = id /\ v.anti_dependency = TRUE /\ v.establishes_alias = FALSE
        /\ v.in = FlowFor(id, "in", rels.in) /\ v.out = FlowFor(id, "out", rels.out)
        /\ v.anti_out = FlowFor(id, "anti_out", rels.anti_out)
        /\ v.anti_in = FlowFor(id, "anti_in", rels.anti_in)
    BY DEF Registered
  <2> HIDE DEF v, id
  <2>2. /\ FlowFor(id, "in", rels.in) = <<id, "in">> /\ FlowFor(id, "out", rels.out) = <<id, "out">>
        /\ FlowFor(id, "anti_out", rels.anti_out) = <<id, "anti_out">>
    BY <1>5 DEF FlowFor
  <2>3. FlowFor(id, "anti_in", rels.anti_in) = IF w.anti_in = None THEN None ELSE <<id, "anti_in">>
    BY <1>2, <1>5 DEF FlowFor
  <2> QED BY <2>1, <2>2, <2>3
<1>7. v \in Uses
  <2>1. v = [id |-> id, in |-> v.in, anti_in |-> v.anti_in, out |-> v.out, anti_out |-> v.anti_out,
             anti_dependency |-> TRUE, establishes_alias |-> FALSE]
    BY DEF Registered
  <2>2. v.in \in Flows /\ v.out \in Flows /\ v.anti_out \in Flows /\ v.anti_in \in Flows
    <3>1. /\ <<id, "in">> \in Flows /\ <<id, "out">> \in Flows /\ <<id, "anti_out">> \in Flows
          /\ <<id, "anti_in">> \in Flows /\ None \in Flows
      BY <1>c, <1>a, NewFlowsExist DEF Roles
    <3> HIDE DEF v, id
    <3> QED BY <1>6, <3>1
  <2> HIDE DEF v, id
  <2>3. TRUE \in BOOLEAN /\ FALSE \in BOOLEAN
    OBVIOUS
  <2>4. [id |-> id, in |-> v.in, anti_in |-> v.anti_in, out |-> v.out, anti_out |-> v.anti_out,
         anti_dependency |-> TRUE, establishes_alias |-> FALSE] \in Uses
    BY <1>0, <2>2, <2>3, UseRecord
  <2> QED BY <2>1, <2>4
<1>8. NewFlows(id, rels) = {<<id, role>> : role \in {"in", "out", "anti_out"}
                              \cup (IF w.anti_in = None THEN {} ELSE {"anti_in"})}
  BY <1>4, <1>5 DEF NewFlows, Roles
<1>9. /\ o1 = <<Attach(w.in, MakeReady(id, "in"))>>
      /\ o2 = IF w.anti_in = None THEN <<>> ELSE <<Attach(w.anti_in, MakeReady(id, "anti_in"))>>
  BY <1>2 DEF InFlowOps, AntiInFlowOps
<1>10. /\ o3 = <<Increment(w.out, <<id, "link_out">>),
                 Attach(<<id, "out">>, Decrement(w.out, <<id, "link_out">>))>>
       /\ o4 = <<Increment(w.anti_out, <<id, "link_anti_out">>),
                 Attach(<<id, "anti_out">>, Decrement(w.anti_out, <<id, "link_anti_out">>))>>
  BY <1>2 DEF OutFlowOps, AntiOutFlowOps
<1> HIDE DEF v, o1, o2, o3, o4, id
<1>11. /\ Sound(o1) /\ OwedByOps(o1) = {<<<<id, "in">>, <<id, "in">>>>} /\ TakenByOps(o1) = {}
       /\ Names(o1) \subseteq {<<id, "in">>}
  BY <1>0, <1>9, ReadyPart
<1>12. /\ Sound(o2) /\ TakenByOps(o2) = {} /\ Names(o2) \subseteq {<<id, "anti_in">>}
       /\ OwedByOps(o2) = IF w.anti_in = None THEN {} ELSE {<<<<id, "anti_in">>, <<id, "anti_in">>>>}
  <2>1. CASE w.anti_in = None
    BY <1>9, <2>1, NoPart
  <2>2. CASE w.anti_in # None
    BY <1>0, <1>9, <2>2, ReadyPart
  <2> QED BY <2>1, <2>2
<1>13. /\ Sound(o3) /\ OwedByOps(o3) = {x3} /\ TakenByOps(o3) = {x3}
       /\ Names(o3) = {<<id, "link_out">>} /\ SelfAnchored(o3)
  <2>1. <<id, "out">> \in Flows
    BY <1>c DEF Roles
  <2> QED BY <1>0, <1>10, <2>1, LinkPart
<1>14. /\ Sound(o4) /\ OwedByOps(o4) = {x4} /\ TakenByOps(o4) = {x4}
       /\ Names(o4) = {<<id, "link_anti_out">>} /\ SelfAnchored(o4)
  <2>1. <<id, "anti_out">> \in Flows
    BY <1>c DEF Roles
  <2> QED BY <1>0, <1>10, <2>1, LinkPart
<1> HIDE DEF x3, x4
<1>15. /\ Sound(o1 \o o2 \o o3 \o o4)
       /\ OwedByOps(o1 \o o2 \o o3 \o o4)
            = OwedByOps(o1) \cup OwedByOps(o2) \cup OwedByOps(o3) \cup OwedByOps(o4)
       /\ TakenByOps(o1 \o o2 \o o3 \o o4)
            = TakenByOps(o1) \cup TakenByOps(o2) \cup TakenByOps(o3) \cup TakenByOps(o4)
       /\ Names(o1 \o o2 \o o3 \o o4) = Names(o1) \cup Names(o2) \cup Names(o3) \cup Names(o4)
  <2>1. /\ Names(o1) \cap Names(o2) = {} /\ Names(o1) \cap Names(o3) = {}
        /\ Names(o1) \cap Names(o4) = {} /\ Names(o2) \cap Names(o3) = {}
        /\ Names(o2) \cap Names(o4) = {} /\ Names(o3) \cap Names(o4) = {}
    BY <1>11, <1>12, <1>13, <1>14
  <2> QED BY <1>11, <1>12, <1>13, <1>14, <2>1, SoundConcat4
<1>16. SelfAnchored(o1 \o o2 \o o3 \o o4)
  <2>1. o1 \in Seq(Ops) /\ o2 \in Seq(Ops) /\ o3 \in Seq(Ops) /\ o4 \in Seq(Ops)
    BY <1>11, <1>12, <1>13, <1>14 DEF Sound
  <2>2. SelfAnchored(o1) /\ SelfAnchored(o2)
    BY <1>11, <1>12, <2>1, SelfAnchoredNone
  <2>3. o1 \o o2 \in Seq(Ops) /\ SelfAnchored(o1 \o o2)
    BY <2>1, <2>2, SelfAnchoredConcat, ConcatOps
  <2>4. (o1 \o o2) \o o3 \in Seq(Ops) /\ SelfAnchored((o1 \o o2) \o o3)
    BY <1>13, <2>1, <2>3, SelfAnchoredConcat, ConcatOps
  <2> QED BY <1>14, <2>1, <2>4, SelfAnchoredConcat
<1>17. Names(o1 \o o2 \o o3 \o o4) \subseteq {id} \X {"in", "anti_in", "link_out", "link_anti_out"}
  BY <1>11, <1>12, <1>13, <1>14, <1>15
<1>18. OwedByOps(o1 \o o2 \o o3 \o o4) = {x3, x4} \cup {<<<<id, role>>, <<id, role>>>> :
                   role \in {"in"} \cup (IF w.anti_in = None THEN {} ELSE {"anti_in"})}
  BY <1>11, <1>12, <1>13, <1>14, <1>15
<1>19. TakenByOps(o1 \o o2 \o o3 \o o4) = {x3, x4}
  BY <1>11, <1>12, <1>13, <1>14, <1>15
<1> QED BY <1>3, <1>6, <1>7, <1>8, <1>15, <1>16, <1>17, <1>18, <1>19 DEF id, v, rels, x3, x4

\* The first use of a handle starts with three flows, one of which is ready at once.
LEMMA InitialUse ==
  LET id  == <<Main, "captured">>
      v   == Registered(id, InitialRels, FALSE)
      ops == RegisterUse(id, InitialRels, FALSE)
  IN  /\ v \in Uses /\ v.id = id /\ v.anti_dependency = FALSE /\ v.establishes_alias = FALSE
      /\ v.out = <<id, "out">> /\ v.anti_in = None /\ v.anti_out = <<id, "anti_out">>
      /\ NewFlows(id, InitialRels) = {<<id, "in">>, <<id, "out">>, <<id, "anti_out">>}
      /\ Sound(ops) /\ OwedByOps(ops) = {<<<<id, "in">>, <<id, "in">>>>} /\ TakenByOps(ops) = {}
      /\ ops = <<MakeReady(id, "in")>>
<1> DEFINE id   == <<Main, "captured">>
           rels == InitialRels
           v    == Registered(id, rels, FALSE)
<1>a. Main \in Users
  BY DEF Users
<1>b. id \in UseIds
  BY <1>a, IdsOfUser
<1>2. /\ rels.in.description = "initial" /\ rels.out.description = "null"
      /\ rels.anti_in.description = "insignificant" /\ rels.anti_in.related = None
      /\ rels.anti_out.description = "initial"
  BY DEF InitialRels, Relationship, Insignificant
<1>4. \A role \in Roles : rels[role] = CASE role = "in" -> rels.in [] role = "out" -> rels.out
                            [] role = "anti_in" -> rels.anti_in [] role = "anti_out" -> rels.anti_out
  BY DEF Roles
<1> HIDE DEF rels
<1>5. /\ IsNew("in", rels.in) /\ IsNew("out", rels.out) /\ IsNew("anti_out", rels.anti_out)
      /\ ~IsNew("anti_in", rels.anti_in)
  BY <1>2 DEF IsNew
<1>6. /\ v.id = id /\ v.in = <<id, "in">> /\ v.anti_dependency = FALSE
      /\ v.establishes_alias = FALSE
      /\ v.out = <<id, "out">> /\ v.anti_out = <<id, "anti_out">> /\ v.anti_in = None
  BY <1>2, <1>5 DEF Registered, FlowFor
<1>7. v \in Uses
  <2>1. v = [id |-> id, in |-> v.in, anti_in |-> v.anti_in, out |-> v.out, anti_out |-> v.anti_out,
             anti_dependency |-> FALSE, establishes_alias |-> FALSE]
    BY DEF Registered
  <2>c. \A role \in Roles : <<id, role>> \in Flows
    <3> HIDE DEF id
    <3> QED BY <1>b DEF Flows
  <2>3. /\ <<id, "in">> \in Flows /\ <<id, "out">> \in Flows /\ <<id, "anti_out">> \in Flows
        /\ None \in Flows
      BY <1>a, <2>c, NewFlowsExist DEF Roles
  <2> HIDE DEF v, id
  <2>2. v.in \in Flows /\ v.out \in Flows /\ v.anti_out \in Flows /\ v.anti_in \in Flows
    BY <1>6, <2>3
  <2> QED BY <1>b, <2>1, <2>2, UseRecord, ZenonT(120), SMTT(30)
<1>8. NewFlows(id, rels) = {<<id, "in">>, <<id, "out">>, <<id, "anti_out">>}
  BY <1>4, <1>5 DEF NewFlows, Roles
<1>9. RegisterUse(id, rels, FALSE) = <<MakeReady(id, "in")>>
  <2>1. /\ InFlowOps(id, rels.in) = <<MakeReady(id, "in")>>
        /\ AntiInFlowOps(id, rels.anti_in, FALSE) = <<>>
        /\ OutFlowOps(id, rels.out) = <<>> /\ AntiOutFlowOps(id, rels.anti_out) = <<>>
    BY <1>2 DEF InFlowOps, AntiInFlowOps, OutFlowOps, AntiOutFlowOps
  <2> DEFINE op == MakeReady(id, "in")
  <2>2. RegisterUse(id, rels, FALSE) = <<op>> \o <<>> \o <<>> \o <<>>
    BY <2>1 DEF RegisterUse
  <2> HIDE DEF op
  <2>3. <<op>> \o <<>> = <<op>>
    <3>1. <<op>> \in Seq({op})
      OBVIOUS
    <3> QED BY <3>1, ConcatEmptySeq
  <2> QED BY <2>2, <2>3 DEF op
<1> HIDE DEF v, id
<1>10. /\ Sound(<<MakeReady(id, "in")>>) /\ TakenByOps(<<MakeReady(id, "in")>>) = {}
       /\ OwedByOps(<<MakeReady(id, "in")>>) = {<<<<id, "in">>, <<id, "in">>>>}
  <2>1. None \in Flows
    BY <1>a, NewFlowsExist DEF Roles
  <2> QED BY <1>b, <2>1, ReadyPart
<1> QED BY <1>6, <1>7, <1>8, <1>9, <1>10 DEF id, v, rels

-----------------------------------------------------------------------------
(* Finitely many tokens *)

\* Unions of finite sets are finite.
LEMMA FiniteUnion ==
  ASSUME NEW S, NEW T, IsFiniteSet(S), IsFiniteSet(T) PROVE IsFiniteSet(S \cup T)
BY FS_Union

\* And so are pairs of their elements.
LEMMA FinitePair ==
  ASSUME NEW S, NEW T, IsFiniteSet(S), IsFiniteSet(T) PROVE IsFiniteSet(S \X T)
BY FS_Product

\* There are finitely many names of units and roles.
LEMMA FiniteNames ==
  /\ IsFiniteSet({"wait_in", "wait_anti_in", "setup"})
  /\ IsFiniteSet({"in", "anti_in", "out", "anti_out", "link_out", "link_anti_out",
                  "alias_out", "alias_anti_in"})
  /\ IsFiniteSet({"captured", "continuing"})
  /\ IsFiniteSet(Roles)
<1>1. ASSUME NEW x, NEW y PROVE IsFiniteSet({x} \cup {y})
  <2>1. IsFiniteSet({x}) /\ IsFiniteSet({y})
    BY FS_Singleton
  <2> QED BY <2>1, FiniteUnion
<1>2. ASSUME NEW w, NEW x, NEW y, NEW z PROVE IsFiniteSet(({w} \cup {x}) \cup ({y} \cup {z}))
  <2>1. IsFiniteSet({w} \cup {x}) /\ IsFiniteSet({y} \cup {z})
    BY <1>1
  <2> QED BY <2>1, FiniteUnion
<1>3. IsFiniteSet({"wait_in", "wait_anti_in", "setup"})
  <2>1. IsFiniteSet(({"wait_in"} \cup {"wait_anti_in"}) \cup ({"setup"} \cup {"setup"}))
    BY <1>2
  <2>2. ({"wait_in"} \cup {"wait_anti_in"}) \cup ({"setup"} \cup {"setup"})
          = {"wait_in", "wait_anti_in", "setup"}
    OBVIOUS
  <2> QED BY <2>1, <2>2
<1>4. IsFiniteSet({"captured", "continuing"})
  <2>1. {"captured"} \cup {"continuing"} = {"captured", "continuing"}
    OBVIOUS
  <2>2. IsFiniteSet({"captured"} \cup {"continuing"})
    BY <1>1
  <2> QED BY <2>1, <2>2
<1>5. IsFiniteSet({"in", "anti_in", "out", "anti_out"})
  <2>1. IsFiniteSet(({"in"} \cup {"anti_in"}) \cup ({"out"} \cup {"anti_out"}))
    BY <1>2
  <2>2. ({"in"} \cup {"anti_in"}) \cup ({"out"} \cup {"anti_out"})
          = {"in", "anti_in", "out", "anti_out"}
    OBVIOUS
  <2> QED BY <2>1, <2>2
<1>6. IsFiniteSet({"link_out", "link_anti_out", "alias_out", "alias_anti_in"})
  <2>1. IsFiniteSet(({"link_out"} \cup {"link_anti_out"}) \cup ({"alias_out"} \cup {"alias_anti_in"}))
    BY <1>2
  <2>2. ({"link_out"} \cup {"link_anti_out"}) \cup ({"alias_out"} \cup {"alias_anti_in"})
          = {"link_out", "link_anti_out", "alias_out", "alias_anti_in"}
    OBVIOUS
  <2> QED BY <2>1, <2>2
<1>7. IsFiniteSet({"in", "anti_in", "out", "anti_out", "link_out", "link_anti_out",
                   "alias_out", "alias_anti_in"})
  <2>1. {"in", "anti_in", "out", "anti_out"}
            \cup {"link_out", "link_anti_out", "alias_out", "alias_anti_in"}
        = {"in", "anti_in", "out", "anti_out", "link_out", "link_anti_out", "alias_out", "alias_anti_in"}
    OBVIOUS
  <2>2. IsFiniteSet({"in", "anti_in", "out", "anti_out"}
            \cup {"link_out", "link_anti_out", "alias_out", "alias_anti_in"})
    BY <1>5, <1>6, FiniteUnion
  <2> QED BY <2>1, <2>2
<1> QED BY <1>3, <1>4, <1>5, <1>7 DEF Roles

\* So there are finitely many units, and what is owed can be counted.
LEMMA FiniteTokens == IsFiniteSet(Tokens)
<1>0. Width \in Nat /\ Subwidth \in Nat /\ Indices \in Nat
  BY BoundsAssumption
<1>1. IsFiniteSet(TopTasks)
  <2> DEFINE f == [t \in TopTasks |-> t[1]]
  <2>1. f \in Injection(TopTasks, 1..Width)
    <3>1. f \in [TopTasks -> 1..Width]
      BY DEF TopTasks
    <3>2. \A t, s \in TopTasks : f[t] = f[s] => t = s
      BY DEF TopTasks
    <3> QED BY <3>1, <3>2 DEF Injection, IsInjective
  <2>2. IsFiniteSet(1..Width)
    BY <1>0, FS_Interval
  <2> HIDE DEF f
  <2> QED BY <2>1, <2>2, FS_Injection
<1>2. IsFiniteSet(SubTasks)
  <2> DEFINE n == IF Indices = 0 THEN Subwidth ELSE Indices
  <2>1. IsFiniteSet((1..Width) \X (1..n))
    <3>1. n \in Nat
      BY <1>0
    <3> HIDE DEF n
    <3>2. IsFiniteSet(1..Width) /\ IsFiniteSet(1..n)
      BY <1>0, <3>1, FS_Interval
    <3> QED BY <3>2, FinitePair
  <2>2. SubTasks \in SUBSET ((1..Width) \X (1..n))
    BY DEF SubTasks
  <2> QED BY <2>1, <2>2, FS_Subset
<1>3. IsFiniteSet(Tasks) /\ IsFiniteSet({Main} \cup Tasks)
  BY <1>1, <1>2, FiniteUnion, FS_Singleton DEF Tasks
<1>4. IsFiniteSet(UseIds)
  BY <1>3, FiniteNames, FinitePair DEF UseIds
<1>5. IsFiniteSet(Flows) /\ IsFiniteSet(FlowUnits) /\ IsFiniteSet(WaitUnits)
  BY <1>4, FiniteNames, FinitePair DEF Flows, FlowUnits, WaitUnits
<1>6. IsFiniteSet(FlowUnits \X Flows) /\ IsFiniteSet(WaitUnits \X Tasks)
  BY <1>3, <1>5, FinitePair
<1> QED BY <1>6, FiniteUnion DEF Tokens

\* A unit belongs to a flow or to the wait of a task.
LEMMA UnitsApart == \A x \in Tokens : x[1] \in FlowUnits <=> x[1] \notin WaitUnits
BY DEF Tokens, FlowUnits, WaitUnits

\* And its counter is of the same kind.
LEMMA TokenKinds ==
  \A x \in Tokens : /\ x[1] \in FlowUnits => x[2] \in Flows
                    /\ x[1] \in WaitUnits => x[2] \in Tasks
                    /\ x[1] \in FlowUnits \cup WaitUnits
                    /\ x = <<x[1], x[2]>>
                    /\ x[1][1] \in UseIds
BY UnitsApart DEF Tokens, FlowUnits, WaitUnits

-----------------------------------------------------------------------------
(* The invariant *)

\* Counters never go below zero, and agendas and actions hold operations only.
TypesOK ==
  /\ count \in [Flows -> Nat]
  /\ actions \in [Flows -> Seq(Payloads)]
  /\ use \in [Users -> Uses]
  /\ agenda \in [Threads -> Seq(Ops)]
  /\ captures \in [Users -> Nat]
  /\ kind \in [Tasks -> {"read", "write", "index"}]
  /\ status \in [Users -> {"unregistered", "pending", "ready", "running", "done"}]
  /\ need \in [Tasks -> Nat]
  /\ callables \in SUBSET {op \in Payloads : op.do = "decrement"}

\* The tasks that have been captured.
Known == {Main} \cup {t \in TopTasks : t[1] <= captures[Main]}
  \cup {t \in SubTasks : IF Indices = 0 THEN t[2] <= captures[<<t[1]>>]
                         ELSE status[t] # "unregistered"}

\* A task that has not been captured has no state, and no subtasks.
FreshTasks ==
  /\ \A t \in Tasks : t \notin Known => status[t] = "unregistered"
  /\ \A t \in SubTasks : <<t[1]>> \notin Known => t \notin Known

\* A use of captured tasks, and of flows made for them.
GoodUse(u) ==
  /\ u.id[1] \in Known /\ u.anti_in[1][1] \in Known /\ u.out[1][1] \in Known
  /\ u.anti_out[1][1] \in Known /\ u.anti_out # None

\* Who captures the uses of a task,
Parent(t) == IF t \in TopTasks THEN Main ELSE <<t[1]>>

\* and whether it may capture for writing.
Writes(c) == IF c = Main THEN TRUE ELSE kind[c] = "write"

\* The use of c was captured for c, or goes on where c captured one.
OwnId(c, id) ==
  \/ id = <<c, "captured">>
  \/ \E t \in Tasks : Parent(t) = c /\ id = <<t, "continuing">>

\* Uses belong to those who have them, and only who may modify leaves an alias.
UsesOK ==
  \A c \in Users : status[c] # "unregistered" =>
    /\ GoodUse(use[c])
    /\ OwnId(c, use[c].id)
    /\ Writes(c) => use[c].out # None
    /\ use[c].establishes_alias => ~use[c].anti_dependency /\ Writes(c)

\* The loop over the indices of a collection has all that are left to register.
GoodRegister(op) ==
  /\ Indices > 0
  /\ op.task \in TopTasks /\ op.task \in Known
  /\ op.index \in 1..(Indices + 1)
  /\ GoodUse(op.use) /\ op.use.id = <<op.task, "captured">>
  /\ op.use.out = <<op.use.id, "out">> /\ op.use.out # None
  /\ op.use.anti_dependency /\ ~op.use.establishes_alias
  /\ \A j \in op.index..Indices : status[Append(op.task, j)] = "unregistered"

\* Which holds of every collection that is being registered.
RegistersOK ==
  \A th \in Threads : \A op \in Registers(agenda[th]) : GoodRegister(op)

\* What is owed is owed by a use, and to a flow or task, that there is.
KnownIds ==
  \A x \in Owed :
    /\ x[1][1][1] \in Known
    /\ x[1] \in FlowUnits => x[2][1][1] \in Known
    /\ x[1] \in WaitUnits => x[1][1] = <<x[2], "captured">>

\* A use that established its alias has been released.
AliasIds ==
  \A x \in Owed : x[1][2] \in {"alias_out", "alias_anti_in"} =>
     \E c \in Users : status[c] = "done" /\ use[c].id = x[1][1]

\* Nothing is waiting for a task that has started.
WaitsPending == \A x \in Owed : x[1] \in WaitUnits => status[x[2]] = "pending"

\* What a use owes that has not been released.
UseOwes(c) == IF status[c] \in {"pending", "ready", "running"} THEN OwedByUse(use[c]) ELSE {}

\* The unit that holds up a task until make_pending_task returns.
Setup(t) == <<<<<<t, "captured">>, "setup">>, t>>

\* What is sure to be owed as long as the increment is not done: it comes later
\* in the same thread, or with the thread's own use, or with that of a task
\* which cannot start before.
Anchored(th, k, x) ==
  \/ x \in Later(agenda[th], k)
  \/ th \in Users /\ x \in UseOwes(th)
  \/ \E t \in Tasks : x \in UseOwes(t) /\ Setup(t) \in Later(agenda[th], k)

\* Something owed to f that has been counted already: f is not ready yet.
Backed(th, k, f) ==
  \E x \in Tokens : x \notin ToCome /\ x[1] \in FlowUnits /\ x[2] = f /\ Anchored(th, k, x)

\* The k-th operation of th takes this unit.
Taking(th, k, unit, f) ==
  agenda[th][k].do = "increment" /\ agenda[th][k].unit = unit /\ agenda[th][k].counter = f

\* Every increment to come is for what will be given back after it, and finds its
\* flow not yet ready.
Anchors ==
  \A th \in Threads : \A k \in DOMAIN agenda[th] : \A unit \in FlowUnits, f \in Flows :
    Taking(th, k, unit, f) => Anchored(th, k, <<unit, f>>) /\ Backed(th, k, f)

\* No unit is taken twice.
TakenApart ==
  /\ \A th \in Threads : TakenOnce(agenda[th])
  /\ \A th, th2 \in Threads : th # th2 => TakenByOps(agenda[th]) \cap TakenByOps(agenda[th2]) = {}

\* What is owed, place by place.
Holds == [p \in Places |-> OwedAt(p)]

\* No unit is owed at two places,
OwedApart == \A p, q \in Places : p # q => Holds[p] \cap Holds[q] = {}

\* and none twice at one.
OnceEach ==
  /\ \A th \in Threads : Once(agenda[th])
  /\ \A f \in Flows : Once(actions[f])

\* The part of S that is owed to a flow,
FlowShare(S, f) == {x \in S : x[1] \in FlowUnits /\ x[2] = f}
\* and to the wait of a task.
WaitShare(S, t) == {x \in S : x[1] \in WaitUnits /\ x[2] = t}

\* What is owed and has been counted.
Outstanding == Owed \ ToCome

\* Every count is the number of the units that are outstanding.
Counted ==
  /\ \A f \in Flows : count[f] = Cardinality(FlowShare(Outstanding, f))
  /\ \A t \in Tasks : need[t] = Cardinality(WaitShare(Outstanding, t))

\* The invariant that every operation keeps, with what it takes to keep it.
Inv ==
  /\ TypesOK
  /\ FreshTasks /\ UsesOK /\ RegistersOK /\ KnownIds /\ AliasIds /\ WaitsPending
  /\ Anchors /\ TakenApart /\ OwedApart /\ OnceEach /\ Counted

-----------------------------------------------------------------------------
(* What is owed, place by place, before a step and after it *)

\* What the callables on the ready queues owe.
CallablesOwe == UNION {OwedByOp(op) : op \in callables}

\* The places where something can be owed.
LEMMA PlaceKinds ==
  /\ \A th \in Threads : <<"agenda", th>> \in Places
  /\ \A f \in Flows : <<"actions", f>> \in Places
  /\ \A c \in Users : <<"use", c>> \in Places
  /\ <<"callables", Main>> \in Places
  /\ \A p \in Places : \/ \E th \in Threads : p = <<"agenda", th>>
                       \/ \E f \in Flows : p = <<"actions", f>>
                       \/ \E c \in Users : p = <<"use", c>>
                       \/ p = <<"callables", Main>>
BY DEF Places, Users

\* What is owed at each of them,
LEMMA HoldsNow ==
  /\ \A th \in Threads : Holds[<<"agenda", th>>] = OwedByOps(agenda[th])
  /\ \A f \in Flows : Holds[<<"actions", f>>] = OwedByOps(actions[f])
  /\ \A c \in Users : Holds[<<"use", c>>] = UseOwes(c)
  /\ Holds[<<"callables", Main>>] = CallablesOwe
  /\ Owed = UNION {Holds[p] : p \in Places}
BY PlaceKinds DEF Holds, OwedAt, UseOwes, CallablesOwe, Owed

\* and after a step.
LEMMA HoldsNext ==
  /\ \A th \in Threads : Holds'[<<"agenda", th>>] = OwedByOps(agenda'[th])
  /\ \A f \in Flows : Holds'[<<"actions", f>>] = OwedByOps(actions'[f])
  /\ \A c \in Users : Holds'[<<"use", c>>] = UseOwes(c)'
  /\ Holds'[<<"callables", Main>>] = CallablesOwe'
  /\ Owed' = UNION {Holds'[p] : p \in Places}
BY PlaceKinds DEF Holds, OwedAt, UseOwes, CallablesOwe, Owed

\* A step that changes what is owed only at the places in D.
LEMMA OwedStep ==
  ASSUME OwedApart, NEW D \in SUBSET Places, NEW F, NEW Gone,
         \A p \in Places \ D : Holds'[p] = Holds[p],
         F \cap Owed = {},
         Gone \subseteq UNION {Holds[p] : p \in D},
         \A p, q \in D : p # q => Holds'[p] \cap Holds'[q] = {},
         UNION {Holds'[p] : p \in D} = ((UNION {Holds[p] : p \in D}) \ Gone) \cup F
  PROVE  OwedApart' /\ Owed' = (Owed \ Gone) \cup F
<1> DEFINE H == Holds
           H2 == Holds'
           P == Places
<1>0. /\ \A p, q \in P : p # q => H[p] \cap H[q] = {}
      /\ \A p \in P \ D : H2[p] = H[p]
      /\ Gone \subseteq UNION {H[p] : p \in D}
      /\ \A p, q \in D : p # q => H2[p] \cap H2[q] = {}
      /\ UNION {H2[p] : p \in D} = ((UNION {H[p] : p \in D}) \ Gone) \cup F
  BY DEF OwedApart
<1>a. \A p \in P : F \cap H[p] = {}
  BY HoldsNow
<1>b. D \subseteq P
  OBVIOUS
<1>c. /\ Owed = UNION {H[p] : p \in P}
      /\ Owed' = UNION {H2[p] : p \in P}
      /\ (\A p, q \in P : p # q => H2[p] \cap H2[q] = {}) => OwedApart'
  BY HoldsNow, HoldsNext DEF OwedApart
<1> HIDE DEF H, H2, P
<1>d. \A p \in D : \A x \in H2[p] : x \in F \/ (x \notin Gone /\ \E q \in D : x \in H[q])
  <2>1. SUFFICES ASSUME NEW p \in D, NEW x \in H2[p]
                 PROVE  x \in F \/ (x \notin Gone /\ \E q \in D : x \in H[q])
    OBVIOUS
  <2>2. x \in UNION {H2[q] : q \in D}
    BY <2>1
  <2>3. x \in ((UNION {H[q] : q \in D}) \ Gone) \cup F
    BY <1>0, <2>2
  <2> QED BY <2>3
<1>e. \A x \in F : \E p \in D : x \in H2[p]
  BY <1>0
<1>f. \A p \in D : \A x \in H[p] : x \notin Gone => \E q \in D : x \in H2[q]
  <2>1. SUFFICES ASSUME NEW p \in D, NEW x \in H[p], x \notin Gone
                 PROVE  \E q \in D : x \in H2[q]
    OBVIOUS
  <2>2. x \in UNION {H[q] : q \in D}
    BY <2>1
  <2>3. x \in ((UNION {H[q] : q \in D}) \ Gone) \cup F
    BY <2>1, <2>2
  <2>4. x \in UNION {H2[q] : q \in D}
    BY <1>0, <2>3
  <2> QED BY <2>4
<1>g. \A x \in Gone : \E p \in D : x \in H[p]
  BY <1>0
<1>h. /\ \A p, q \in P : p # q => H[p] \cap H[q] = {}
      /\ \A p \in P \ D : H2[p] = H[p]
      /\ \A p, q \in D : p # q => H2[p] \cap H2[q] = {}
  BY <1>0
<1>1. ASSUME NEW p \in P \ D, NEW q \in D PROVE H2[p] \cap H2[q] = {}
  <2>1. SUFFICES ASSUME NEW x, x \in H2[p], x \in H2[q] PROVE FALSE
    OBVIOUS
  <2>2. x \in H[p] /\ p \in P
    BY <1>1, <1>h, <2>1
  <2>3. x \notin F
    BY <1>a, <2>2
  <2>4. PICK r \in D : x \in H[r]
    BY <1>d, <2>1, <2>3
  <2> QED BY <1>1, <1>b, <1>h, <2>2, <2>4
<1>2. \A p, q \in P : p # q => H2[p] \cap H2[q] = {}
  <2>1. SUFFICES ASSUME NEW p \in P, NEW q \in P, p # q PROVE H2[p] \cap H2[q] = {}
    OBVIOUS
  <2>2. CASE p \in D /\ q \in D
    BY <1>h, <2>1, <2>2
  <2>3. CASE p \in D /\ q \notin D
    BY <1>1, <2>3
  <2>4. CASE p \notin D /\ q \in D
    BY <1>1, <2>4
  <2>5. CASE p \notin D /\ q \notin D
    BY <1>h, <2>1, <2>5
  <2> QED BY <2>2, <2>3, <2>4, <2>5
<1>3. ASSUME NEW p \in P, NEW x \in H2[p] PROVE x \in (Owed \ Gone) \cup F
  <2>1. CASE p \in D
    BY <1>3, <1>b, <1>c, <1>d, <2>1
  <2>2. CASE p \notin D
    <3>1. x \in H[p]
      BY <1>3, <1>h, <2>2
    <3>2. x \notin Gone
      BY <1>b, <1>g, <1>h, <2>2, <3>1
    <3> QED BY <1>c, <3>1, <3>2
  <2> QED BY <2>1, <2>2
<1>4. ASSUME NEW p \in P, NEW x \in H[p], x \notin Gone PROVE x \in Owed'
  <2>1. CASE p \in D
    BY <1>4, <1>b, <1>c, <1>f, <2>1
  <2>2. CASE p \notin D
    BY <1>4, <1>c, <1>h, <2>2
  <2> QED BY <2>1, <2>2
<1>5. F \subseteq Owed'
  BY <1>b, <1>c, <1>e
<1>6. Owed' = (Owed \ Gone) \cup F
  BY <1>3, <1>4, <1>5, <1>c
<1> QED BY <1>2, <1>6, <1>c

\* What is owed at a place is owed.
LEMMA OwedAnywhere ==
  /\ \A th \in Threads : OwedByOps(agenda[th]) \subseteq Owed
  /\ \A f \in Flows : OwedByOps(actions[f]) \subseteq Owed
  /\ \A c \in Users : UseOwes(c) \subseteq Owed
  /\ CallablesOwe \subseteq Owed
BY HoldsNow, PlaceKinds

\* A use owes units of counters that there are.
LEMMA UsesOwe == ASSUME NEW u \in Uses PROVE OwedByUse(u) \subseteq Tokens
BY DEF OwedByUse, Uses, Tokens, FlowUnits

\* So does a sequence of operations,
LEMMA OpsOwe == ASSUME NEW s \in Seq(Ops) PROVE OwedByOps(s) \subseteq Tokens
<1>1. ASSUME NEW k \in DOMAIN s PROVE OwedByOp(s[k]) \subseteq Tokens
  <2>1. s[k] \in Ops
    OBVIOUS
  <2> QED BY <2>1, OwedTyped
<1> QED BY <1>1 DEF OwedByOps

\* and it takes only units of flows.
LEMMA OpsTake ==
  ASSUME NEW s \in Seq(Ops)
  PROVE  /\ TakenByOps(s) \subseteq Tokens
         /\ \A x \in TakenByOps(s) : x[1] \in FlowUnits
<1>1. ASSUME NEW k \in DOMAIN s, s[k].do = "increment"
      PROVE  s[k].unit \in FlowUnits /\ s[k].counter \in Flows
  <2>1. s[k] \in Ops
    OBVIOUS
  <2> QED BY <1>1, <2>1, OpKinds
<1> QED BY <1>1 DEF TakenByOps, Tokens

\* Attached actions are operations.
LEMMA ActionsAreOps == Seq(Payloads) \subseteq Seq(Ops)
BY PayloadsAreOps

\* So what is owed is a finite set of units.
LEMMA OwedTokens ==
  ASSUME TypesOK
  PROVE  Owed \subseteq Tokens /\ IsFiniteSet(Owed)
<1>1. \A th \in Threads : OwedByOps(agenda[th]) \subseteq Tokens
  BY OpsOwe DEF TypesOK
<1>2. \A f \in Flows : OwedByOps(actions[f]) \subseteq Tokens
  BY OpsOwe, ActionsAreOps DEF TypesOK
<1>3. \A c \in Users : UseOwes(c) \subseteq Tokens
  BY UsesOwe DEF TypesOK, UseOwes
<1>4. CallablesOwe \subseteq Tokens
  BY PayloadsAreOps, OwedTyped DEF TypesOK, CallablesOwe
<1>5. \A p \in Places : Holds[p] \subseteq Tokens
  BY <1>1, <1>2, <1>3, <1>4, PlaceKinds, HoldsNow
<1>6. Owed \subseteq Tokens
  BY <1>5, HoldsNow
<1> QED BY <1>6, FiniteTokens, FS_Subset

\* And what is to come are units of flows.
LEMMA ToComeTyped ==
  ASSUME TypesOK
  PROVE  ToCome \subseteq Tokens /\ \A x \in ToCome : x[1] \in FlowUnits
BY OpsTake DEF TypesOK, ToCome

-----------------------------------------------------------------------------
(* A step of thread a puts X in front of the rest of its agenda *)

\* What thread a has left after the operation that it does next.
Rest(a) == IF agenda[a] = <<>> THEN <<>> ELSE Tail(agenda[a])

\* Thread a does that operation, and X comes before the rest.
AgendaStep(a, X) == agenda' = [agenda EXCEPT ![a] = X \o Rest(a)]

\* The rest owes, takes and registers nothing that the agenda did not.
LEMMA RestFacts ==
  ASSUME TypesOK, NEW a \in Threads
  PROVE  /\ Rest(a) \in Seq(Ops)
         /\ OwedByOps(Rest(a)) \subseteq OwedByOps(agenda[a])
         /\ Registers(Rest(a)) \subseteq Registers(agenda[a])
         /\ TakenByOps(Rest(a)) \subseteq TakenByOps(agenda[a])
         /\ Once(agenda[a]) => Once(Rest(a))
         /\ TakenOnce(agenda[a]) => TakenOnce(Rest(a))
<1>1. agenda[a] \in Seq(Ops)
  BY DEF TypesOK
<1>2. CASE agenda[a] = <<>>
  BY <1>2, NoOps DEF Rest
<1>3. CASE agenda[a] # <<>>
  <2>1. Rest(a) = Tail(agenda[a])
    BY <1>3 DEF Rest
  <2> QED BY <1>1, <1>3, <2>1, TailOps, TailOwes, RegistersTail
<1> QED BY <1>2, <1>3

\* The agendas after the step.
LEMMA AgendaAfter ==
  ASSUME TypesOK, NEW a \in Threads, NEW X \in Seq(Ops), AgendaStep(a, X)
  PROVE  /\ agenda' \in [Threads -> Seq(Ops)]
         /\ \A th \in Threads : th # a => agenda'[th] = agenda[th]
         /\ agenda'[a] = X \o Rest(a)
         /\ OwedByOps(agenda'[a]) = OwedByOps(X) \cup OwedByOps(Rest(a))
         /\ TakenByOps(agenda'[a]) = TakenByOps(X) \cup TakenByOps(Rest(a))
         /\ Registers(agenda'[a]) = Registers(X) \cup Registers(Rest(a))
<1>1. Rest(a) \in Seq(Ops)
  BY RestFacts
<1>2. X \o Rest(a) \in Seq(Ops)
  BY <1>1, ConcatOps
<1>3. /\ agenda' \in [Threads -> Seq(Ops)] /\ agenda'[a] = X \o Rest(a)
      /\ \A th \in Threads : th # a => agenda'[th] = agenda[th]
  BY <1>2 DEF TypesOK, AgendaStep
<1> QED BY <1>1, <1>3, ConcatOps, RegistersConcat

\* What is to come is what the agendas take,
LEMMA ToComeNow ==
  /\ \A th \in Threads : TakenByOps(agenda[th]) \subseteq ToCome
  /\ \A x \in ToCome : \E th \in Threads : x \in TakenByOps(agenda[th])
BY DEF ToCome

\* also after a step.
LEMMA ToComeNext ==
  /\ \A th \in Threads : TakenByOps(agenda'[th]) \subseteq ToCome'
  /\ \A x \in ToCome' : \E th \in Threads : x \in TakenByOps(agenda'[th])
BY DEF ToCome

\* A step that is no increment adds what X takes.
LEMMA ToComeSame ==
  ASSUME TypesOK, NEW a \in Threads, NEW X \in Seq(Ops), AgendaStep(a, X),
         agenda[a] = <<>> \/ Head(agenda[a]).do # "increment"
  PROVE  ToCome' = ToCome \cup TakenByOps(X)
<1>1. TakenByOps(Rest(a)) = TakenByOps(agenda[a])
  <2>1. agenda[a] \in Seq(Ops)
    BY DEF TypesOK
  <2>2. CASE agenda[a] = <<>>
    BY <2>2 DEF Rest
  <2>3. CASE agenda[a] # <<>>
    <3>1. Rest(a) = Tail(agenda[a]) /\ Head(agenda[a]).do # "increment"
      BY <2>3 DEF Rest
    <3>2. TakenByOps(agenda[a]) = TakenByOps(Tail(agenda[a])) \cup
              (IF Head(agenda[a]).do = "increment"
                 THEN {<<Head(agenda[a]).unit, Head(agenda[a]).counter>>} ELSE {})
      BY <2>1, <2>3, TailOwes
    <3> QED BY <3>1, <3>2
  <2> QED BY <2>2, <2>3
<1>2. TakenByOps(agenda'[a]) = TakenByOps(X) \cup TakenByOps(agenda[a])
  BY <1>1, AgendaAfter
<1>3. \A th \in Threads : th # a => TakenByOps(agenda'[th]) = TakenByOps(agenda[th])
  BY AgendaAfter
<1>4. ToCome' \subseteq ToCome \cup TakenByOps(X)
  BY <1>2, <1>3, ToComeNow, ToComeNext
<1>5. \A th \in Threads : TakenByOps(agenda[th]) \subseteq ToCome'
  BY <1>2, <1>3, ToComeNext
<1>6. TakenByOps(X) \subseteq ToCome'
  BY <1>2, ToComeNext
<1> QED BY <1>4, <1>5, <1>6, ToComeNow

\* An increment takes its unit, which is then no longer to come.
LEMMA ToComeLess ==
  ASSUME TypesOK, TakenApart, NEW a \in Threads, AgendaStep(a, <<>>),
         agenda[a] # <<>>, Head(agenda[a]).do = "increment"
  PROVE  LET x == <<Head(agenda[a]).unit, Head(agenda[a]).counter>>
         IN  x \in ToCome /\ ToCome' = ToCome \ {x}
<1> DEFINE x == <<Head(agenda[a]).unit, Head(agenda[a]).counter>>
<1>0. agenda[a] \in Seq(Ops)
  BY DEF TypesOK
<1>1. TakenByOps(agenda[a]) = TakenByOps(Rest(a)) \cup {x} /\ x \notin TakenByOps(Rest(a))
  <2>1. Rest(a) = Tail(agenda[a])
    BY DEF Rest
  <2>2. TakenByOps(agenda[a]) = TakenByOps(Rest(a)) \cup {x}
    BY <1>0, <2>1, TailOwes
  <2>3. \A y \in TakenByOps(Rest(a)) : y[1] # Head(agenda[a]).unit
    BY <1>0, <2>1, TailOwes DEF TakenApart
  <2> QED BY <2>2, <2>3
<1>2. <<>> \in Seq(Ops) /\ TakenByOps(<<>>) = {}
  BY NoOps
<1>3. TakenByOps(agenda'[a]) = TakenByOps(Rest(a))
  BY <1>2, AgendaAfter, ZenonT(120), SMTT(30)
<1>4. \A th \in Threads : th # a => TakenByOps(agenda'[th]) = TakenByOps(agenda[th])
  BY <1>2, AgendaAfter
<1> HIDE DEF x
<1>5. \A th \in Threads : th # a => x \notin TakenByOps(agenda[th])
  BY <1>1 DEF TakenApart
<1>6. x \in ToCome
  BY <1>1, ToComeNow
<1>7. ToCome' \subseteq ToCome \ {x}
  BY <1>1, <1>3, <1>4, <1>5, ToComeNow, ToComeNext
<1>8. ToCome \ {x} \subseteq ToCome'
  <2>1. ASSUME NEW y \in ToCome, y # x PROVE y \in ToCome'
    <3>1. PICK th \in Threads : y \in TakenByOps(agenda[th])
      BY <2>1, ToComeNow
    <3>2. y \in TakenByOps(agenda'[th])
      BY <1>1, <1>3, <1>4, <2>1, <3>1
    <3> QED BY <3>2, ToComeNext
  <2> QED BY <2>1
<1> QED BY <1>6, <1>7, <1>8 DEF x

\* Units that nothing owed has.
Fresh(F) == \A x \in F : \A y \in Owed : x[1] # y[1]

\* New units are taken by no other thread.
LEMMA TakenApartAfter ==
  ASSUME TypesOK, TakenApart, NEW a \in Threads, NEW X \in Seq(Ops), AgendaStep(a, X),
         TakenOnce(X), Fresh(TakenByOps(X)), ToCome \subseteq Owed
  PROVE  TakenApart'
<1>1. \A x \in TakenByOps(X) : \A y \in ToCome : x[1] # y[1]
  BY DEF Fresh
<1>2. \A x \in TakenByOps(X) : \A th \in Threads : \A y \in TakenByOps(agenda[th]) : x[1] # y[1]
  BY <1>1, ToComeNow
<1>3. TakenOnce(agenda'[a])
  <2>1. \A x \in TakenByOps(X), y \in TakenByOps(Rest(a)) : x[1] # y[1]
    BY <1>2, RestFacts
  <2>2. Rest(a) \in Seq(Ops) /\ TakenOnce(Rest(a))
    BY RestFacts DEF TakenApart
  <2>3. TakenOnce(X \o Rest(a))
    BY <2>1, <2>2, ConcatOnce
  <2> QED BY <2>3, AgendaAfter
<1>4. \A th \in Threads : TakenOnce(agenda'[th])
  BY <1>3, AgendaAfter DEF TakenApart
<1>5. \A th \in Threads : th # a => TakenByOps(agenda'[th]) \cap TakenByOps(agenda'[a]) = {}
  <2>1. SUFFICES ASSUME NEW th \in Threads, th # a, NEW x, x \in TakenByOps(agenda[th]),
                        x \in TakenByOps(agenda'[a])
                 PROVE  FALSE
    BY AgendaAfter
  <2>2. x \notin TakenByOps(X)
    BY <1>2, <2>1
  <2>3. x \in TakenByOps(agenda[a])
    BY <2>1, <2>2, AgendaAfter, RestFacts
  <2> QED BY <2>1, <2>3 DEF TakenApart
<1>6. \A th, th2 \in Threads : th # th2 => TakenByOps(agenda'[th]) \cap TakenByOps(agenda'[th2]) = {}
  <2>1. SUFFICES ASSUME NEW th \in Threads, NEW th2 \in Threads, th # th2
                 PROVE  TakenByOps(agenda'[th]) \cap TakenByOps(agenda'[th2]) = {}
    OBVIOUS
  <2>2. CASE th # a /\ th2 # a
    BY <2>1, <2>2, AgendaAfter DEF TakenApart
  <2>3. CASE th = a \/ th2 = a
    BY <1>5, <2>1, <2>3
  <2> QED BY <2>2, <2>3
<1> QED BY <1>4, <1>6 DEF TakenApart

-----------------------------------------------------------------------------
(* What has been counted, and what an increment is anchored by *)

\* What anchors an increment is owed.
LEMMA AnchoredOwed ==
  ASSUME TypesOK, NEW th \in Threads, NEW k \in DOMAIN agenda[th], NEW x, Anchored(th, k, x)
  PROVE  x \in Owed
<1>1. Later(agenda[th], k) \subseteq OwedByOps(agenda[th])
  <2>1. agenda[th] \in Seq(Ops) /\ k \in Nat
    BY DEF TypesOK
  <2> QED BY <2>1, LaterOwed
<1>2. \A t \in Tasks : t \in Users
  BY DEF Users
<1> QED BY <1>1, <1>2, OwedAnywhere DEF Anchored

\* A token that is still to be counted.
LEMMA Coming ==
  ASSUME TypesOK, Anchors, NEW x \in ToCome
  PROVE  \E th \in Threads : \E k \in DOMAIN agenda[th] :
            /\ agenda[th][k].do = "increment" /\ x = <<agenda[th][k].unit, agenda[th][k].counter>>
            /\ Anchored(th, k, x)
<1>1. PICK th \in Threads : x \in TakenByOps(agenda[th])
  BY ToComeNow
<1>2. PICK k \in DOMAIN agenda[th] :
        agenda[th][k].do = "increment" /\ x = <<agenda[th][k].unit, agenda[th][k].counter>>
  BY <1>1 DEF TakenByOps
<1>3. agenda[th][k] \in Ops
  BY DEF TypesOK
<1>4. agenda[th][k].unit \in FlowUnits /\ agenda[th][k].counter \in Flows
  BY <1>2, <1>3, OpKinds
<1> QED BY <1>2, <1>4 DEF Anchors, Taking

\* What is to come is owed already.
LEMMA ToComeOwed ==
  ASSUME TypesOK, Anchors PROVE ToCome \subseteq Owed
BY Coming, AnchoredOwed

\* No two threads or uses owe the same.
LEMMA PlacesApart ==
  ASSUME OwedApart
  PROVE  /\ \A th, th2 \in Threads : th # th2 =>
              OwedByOps(agenda[th]) \cap OwedByOps(agenda[th2]) = {}
         /\ \A th \in Threads, c \in Users : OwedByOps(agenda[th]) \cap UseOwes(c) = {}
         /\ \A c, d \in Users : c # d => UseOwes(c) \cap UseOwes(d) = {}
<1>1. \A th, th2 \in Threads : th # th2 => <<"agenda", th>> # <<"agenda", th2>>
  OBVIOUS
<1>2. \A th \in Threads, c \in Users : <<"agenda", th>> # <<"use", c>>
  OBVIOUS
<1>3. \A c, d \in Users : c # d => <<"use", c>> # <<"use", d>>
  OBVIOUS
<1>4. \A th, th2 \in Threads : th # th2 => OwedByOps(agenda[th]) \cap OwedByOps(agenda[th2]) = {}
  BY <1>1, HoldsNow, PlaceKinds, ZenonT(60), SMTT(30) DEF OwedApart
<1>5. \A th \in Threads, c \in Users : OwedByOps(agenda[th]) \cap UseOwes(c) = {}
  BY <1>2, HoldsNow, PlaceKinds DEF OwedApart
<1>6. \A c, d \in Users : c # d => UseOwes(c) \cap UseOwes(d) = {}
  BY <1>3, HoldsNow, PlaceKinds DEF OwedApart
<1> QED BY <1>4, <1>5, <1>6

\* What the next operation gives back has been counted.
LEMMA HeadArrived ==
  ASSUME TypesOK, Anchors, OwedApart, OnceEach, NEW a \in Threads, agenda[a] # <<>>,
         NEW x \in OwedByOp(Head(agenda[a]))
  PROVE  x \notin ToCome
<1>1. SUFFICES ASSUME x \in ToCome PROVE FALSE
  OBVIOUS
<1>2. PICK th \in Threads : \E k \in DOMAIN agenda[th] :
            /\ agenda[th][k].do = "increment" /\ Anchored(th, k, x)
  BY <1>1, Coming
<1>3. PICK k \in DOMAIN agenda[th] : agenda[th][k].do = "increment" /\ Anchored(th, k, x)
  BY <1>2
<1>4. /\ agenda[a] \in Seq(Ops) /\ agenda[th] \in Seq(Ops) /\ k \in Nat \ {0} /\ k \in 1..Len(agenda[th])
  BY DEF TypesOK
<1>5. x \in OwedByOps(agenda[a])
  BY <1>4, TailOwes
<1>6. \A t \in Tasks : t \in Users
  BY DEF Users
<1>7. x \in Later(agenda[th], k)
  BY <1>3, <1>5, <1>6, PlacesApart DEF Anchored
<1>8. x \in OwedByOps(agenda[th])
  <2>1. k \in Nat
    BY <1>4
  <2> QED BY <1>4, <1>7, <2>1, LaterOwed
<1>9. th = a
  BY <1>5, <1>8, PlacesApart
<1>10. PICK j \in (k + 1)..Len(agenda[a]) : x \in OwedByOp(agenda[a][j])
  BY <1>7, <1>9 DEF Later
<1>11. j # 1 /\ j \in DOMAIN agenda[a] /\ 1 \in DOMAIN agenda[a]
  BY <1>4, <1>9
<1>12. x \in OwedByOp(agenda[a][1])
  BY <1>4, TailOps
<1> QED BY <1>10, <1>11, <1>12 DEF OnceEach, Once

\* What a task that runs, and does nothing else at the moment, will give back has been counted.
LEMMA UseArrived ==
  ASSUME TypesOK, Anchors, OwedApart, WaitsPending, NEW c \in Users, c \in Threads,
         status[c] = "running", agenda[c] = <<>>, NEW x \in UseOwes(c)
  PROVE  x \notin ToCome
<1>1. SUFFICES ASSUME x \in ToCome PROVE FALSE
  OBVIOUS
<1>2. PICK th \in Threads : \E k \in DOMAIN agenda[th] :
            /\ agenda[th][k].do = "increment" /\ Anchored(th, k, x)
  BY <1>1, Coming
<1>3. PICK k \in DOMAIN agenda[th] : agenda[th][k].do = "increment" /\ Anchored(th, k, x)
  BY <1>2
<1>4. agenda[th] \in Seq(Ops) /\ k \in Nat
  BY DEF TypesOK
<1>5. Later(agenda[th], k) \subseteq OwedByOps(agenda[th])
  BY <1>4, LaterOwed
<1>6. x \notin Later(agenda[th], k)
  BY <1>5, PlacesApart
<1>7. th # c
  BY <1>3
<1>8. ~(th \in Users /\ x \in UseOwes(th))
  BY <1>7, PlacesApart
<1>9. PICK t \in Tasks : x \in UseOwes(t) /\ Setup(t) \in Later(agenda[th], k)
  BY <1>3, <1>6, <1>8 DEF Anchored
<1>10. t = c
  BY <1>9, PlacesApart DEF Users
<1>11. Setup(c) \in Owed
  BY <1>5, <1>9, <1>10, OwedAnywhere
<1>12. Setup(c)[1] \in WaitUnits /\ Setup(c)[2] = c
  BY <1>9, <1>10, IdsOfUser DEF Setup, WaitUnits
<1>13. status[c] = "pending"
  BY <1>11, <1>12 DEF WaitsPending
<1> QED BY <1>13

-----------------------------------------------------------------------------
(* The anchors after a step *)

\* The uses that anchor increments are not released in this step.
UsesKept ==
  \A c \in Users : agenda[c] # <<>> \/ status[c] = "pending" => UseOwes(c) \subseteq UseOwes(c)'

\* Everybody with a use is a thread.
LEMMA UsersRun == Users \subseteq Threads /\ Tasks \subseteq Users /\ Main \in Users
BY DEF Users, Threads

\* What an increment is for is still to be given back.
LEMMA AnchoredKept ==
  ASSUME TypesOK, WaitsPending, UsesKept, NEW th \in Threads, NEW k \in DOMAIN agenda[th],
         NEW j, Later(agenda'[th], j) = Later(agenda[th], k), NEW x, Anchored(th, k, x)
  PROVE  Anchored(th, j, x)'
<1>1. agenda[th] # <<>>
  OBVIOUS
<1>2. CASE x \in Later(agenda[th], k)
  BY <1>2 DEF Anchored
<1>3. CASE th \in Users /\ x \in UseOwes(th)
  BY <1>1, <1>3 DEF Anchored, UsesKept
<1>4. CASE \E t \in Tasks : x \in UseOwes(t) /\ Setup(t) \in Later(agenda[th], k)
  <2>1. PICK t \in Tasks : x \in UseOwes(t) /\ Setup(t) \in Later(agenda[th], k)
    BY <1>4
  <2>2. Setup(t) \in Owed
    <3>1. agenda[th] \in Seq(Ops) /\ k \in Nat
      BY DEF TypesOK
    <3>2. Later(agenda[th], k) \subseteq OwedByOps(agenda[th])
      BY <3>1, LaterOwed
    <3> QED BY <2>1, <3>2, OwedAnywhere
  <2>3. Setup(t)[1] \in WaitUnits /\ Setup(t)[2] = t
    BY UsersRun, IdsOfUser DEF Setup, WaitUnits
  <2>4. status[t] = "pending"
    BY <2>2, <2>3 DEF WaitsPending
  <2>5. x \in UseOwes(t)'
    BY <2>1, <2>4, UsersRun DEF UsesKept
  <2>6. Setup(t) \in Later(agenda'[th], j)
    BY <2>1
  <2> QED BY <2>5, <2>6 DEF Anchored, Setup
<1> QED BY <1>2, <1>3, <1>4 DEF Anchored

\* And its flow is still not ready.
LEMMA BackedKept ==
  ASSUME TypesOK, WaitsPending, UsesKept, NEW th \in Threads, NEW k \in DOMAIN agenda[th],
         NEW j, Later(agenda'[th], j) = Later(agenda[th], k), NEW f, Backed(th, k, f),
         NEW F, ToCome' \subseteq ToCome \cup F, Fresh(F)
  PROVE  Backed(th, j, f)'
<1>1. PICK x \in Tokens : /\ x \notin ToCome /\ x[1] \in FlowUnits /\ x[2] = f
                          /\ Anchored(th, k, x)
  BY DEF Backed
<1>2. x \in Owed
  BY <1>1, AnchoredOwed
<1>3. x \notin ToCome'
  BY <1>1, <1>2 DEF Fresh
<1>4. Anchored(th, j, x)'
  BY <1>1, AnchoredKept
<1> QED BY <1>1, <1>3, <1>4 DEF Backed

\* The increments of an agenda after a step: new ones, or those that were there.
LEMMA WhereNow ==
  ASSUME TypesOK, NEW a \in Threads, NEW X \in Seq(Ops), AgendaStep(a, X),
         NEW th \in Threads, NEW k \in DOMAIN agenda'[th]
  PROVE  \/ th = a /\ k \in DOMAIN X /\ agenda'[th][k] = X[k]
         \/ \E j \in DOMAIN agenda[th] : /\ agenda'[th][k] = agenda[th][j]
                                         /\ Later(agenda'[th], k) = Later(agenda[th], j)
<1>1. CASE th # a
  BY <1>1, AgendaAfter
<1>2. CASE th = a
  <2> DEFINE R == Rest(a)
  <2>1. agenda'[a] = X \o R /\ R \in Seq(Ops)
    BY AgendaAfter, RestFacts
  <2>0. agenda[a] \in Seq(Ops) /\ (agenda[a] = <<>> => R = <<>>) /\ (agenda[a] # <<>> => R = Tail(agenda[a]))
    BY DEF TypesOK, Rest
  <2> HIDE DEF R
  <2>2. /\ DOMAIN (X \o R) = 1..(Len(X) + Len(R))
        /\ \A i \in 1..(Len(X) + Len(R)) :
             (X \o R)[i] = IF i <= Len(X) THEN X[i] ELSE R[i - Len(X)]
    BY <2>1, ConcatProperties
  <2>b. DOMAIN X = 1..Len(X) /\ DOMAIN R = 1..Len(R) /\ Len(X) \in Nat /\ Len(R) \in Nat
    BY <2>1
  <2>3. CASE k <= Len(X)
    BY <1>2, <2>1, <2>2, <2>b, <2>3
  <2>4. CASE ~(k <= Len(X))
    <3> DEFINE j == k - Len(X)
    <3>1. j \in Nat \ {0} /\ j \in DOMAIN R /\ agenda'[a][k] = R[j] /\ k = Len(X) + j
      BY <1>2, <2>1, <2>2, <2>b, <2>4
    <3> HIDE DEF j
    <3>2. agenda[a] # <<>> /\ R = Tail(agenda[a])
      BY <2>0, <3>1
    <3>3. j + 1 \in DOMAIN agenda[a] /\ R[j] = agenda[a][j + 1]
      BY <2>0, <3>1, <3>2, TailOps
    <3>4. Later(agenda'[a], k) = Later(R, j)
      BY <2>1, <3>1, LaterInRest
    <3>5. Later(R, j) = Later(agenda[a], j + 1)
      BY <2>0, <3>1, <3>2, LaterInTail
    <3> QED BY <1>2, <3>1, <3>3, <3>4, <3>5
  <2> QED BY <2>3, <2>4
<1> QED BY <1>1, <1>2

\* So all increments are anchored after the step when those of X are.
LEMMA AnchorsAfter ==
  ASSUME TypesOK, Anchors, WaitsPending, UsesKept,
         NEW a \in Threads, NEW X \in Seq(Ops), AgendaStep(a, X),
         NEW F, ToCome' \subseteq ToCome \cup F, Fresh(F),
         \A k \in DOMAIN X : \A unit \in FlowUnits, f \in Flows :
           X[k].do = "increment" /\ X[k].unit = unit /\ X[k].counter = f =>
             Anchored(a, k, <<unit, f>>)' /\ Backed(a, k, f)'
  PROVE  Anchors'
<1>1. SUFFICES ASSUME NEW th \in Threads, NEW k \in DOMAIN agenda'[th],
                      NEW unit \in FlowUnits, NEW f \in Flows, Taking(th, k, unit, f)'
               PROVE  Anchored(th, k, <<unit, f>>)' /\ Backed(th, k, f)'
  BY DEF Anchors
<1>2. /\ agenda'[th][k].do = "increment" /\ agenda'[th][k].unit = unit
      /\ agenda'[th][k].counter = f
  BY <1>1 DEF Taking
<1>3. CASE th = a /\ k \in DOMAIN X /\ agenda'[th][k] = X[k]
  BY <1>2, <1>3
<1>4. CASE \E j \in DOMAIN agenda[th] : /\ agenda'[th][k] = agenda[th][j]
                                         /\ Later(agenda'[th], k) = Later(agenda[th], j)
  <2>1. PICK j \in DOMAIN agenda[th] : /\ agenda'[th][k] = agenda[th][j]
                                       /\ Later(agenda'[th], k) = Later(agenda[th], j)
    BY <1>4
  <2>2. Anchored(th, j, <<unit, f>>) /\ Backed(th, j, f)
    BY <1>2, <2>1 DEF Anchors, Taking
  <2>3. Anchored(th, k, <<unit, f>>)'
    BY <2>1, <2>2, AnchoredKept
  <2>4. Backed(th, k, f)'
    BY <2>1, <2>2, BackedKept
  <2> QED BY <2>3, <2>4
<1> QED BY <1>3, <1>4, WhereNow

\* A step that puts no increment on an agenda, and removes perhaps one.
LEMMA AnchorsAfterMove ==
  ASSUME TypesOK, Anchors, WaitsPending, UsesKept,
         NEW a \in Threads, NEW X \in Seq(Ops), AgendaStep(a, X), TakenByOps(X) = {},
         ToCome' \subseteq ToCome
  PROVE  Anchors'
<1>1. \A k \in DOMAIN X : X[k].do # "increment"
  BY DEF TakenByOps
<1>2. Fresh({}) /\ ToCome' \subseteq ToCome \cup {}
  BY DEF Fresh
<1> QED BY <1>1, <1>2, AnchorsAfter

-----------------------------------------------------------------------------
(* The counts after a step *)

\* There are finitely many units outstanding.
LEMMA OutstandingTyped ==
  ASSUME TypesOK PROVE Outstanding \subseteq Tokens /\ IsFiniteSet(Outstanding)
<1>1. Outstanding \subseteq Tokens
  BY OwedTokens DEF Outstanding
<1> QED BY <1>1, FiniteTokens, FS_Subset

\* So there are of each counter.
LEMMA SharesFinite ==
  ASSUME NEW S, S \subseteq Tokens, NEW f
  PROVE  IsFiniteSet(FlowShare(S, f)) /\ IsFiniteSet(WaitShare(S, f))
<1>1. FlowShare(S, f) \in SUBSET Tokens /\ WaitShare(S, f) \in SUBSET Tokens
  BY DEF FlowShare, WaitShare
<1> QED BY <1>1, FiniteTokens, FS_Subset

\* A step that leaves the counts and what is outstanding.
LEMMA CountedSame ==
  ASSUME Counted, Outstanding' = Outstanding, count' = count, need' = need
  PROVE  Counted'
BY DEF Counted

\* An increment adds one to both.
LEMMA CountedMore ==
  ASSUME TypesOK, Counted, NEW unit \in FlowUnits, NEW f \in Flows,
         <<unit, f>> \notin Outstanding, Outstanding' = Outstanding \cup {<<unit, f>>},
         count' = [count EXCEPT ![f] = @ + 1], need' = need
  PROVE  Counted'
<1> DEFINE x == <<unit, f>>
<1>1. x \in Tokens /\ x[1] = unit /\ x[2] = f
  BY DEF Tokens
<1>2. unit \notin WaitUnits
  BY <1>1, UnitsApart
<1>3. Outstanding' = Outstanding \cup {x} /\ x \notin Outstanding
  OBVIOUS
<1> HIDE DEF x
<1>4. \A t \in Tasks : WaitShare(Outstanding', t) = WaitShare(Outstanding, t)
  BY <1>1, <1>2, <1>3 DEF WaitShare
<1>5. \A g \in Flows : g # f => FlowShare(Outstanding', g) = FlowShare(Outstanding, g)
  BY <1>1, <1>3 DEF FlowShare
<1>6. FlowShare(Outstanding', f) = FlowShare(Outstanding, f) \cup {x}
  BY <1>1, <1>3 DEF FlowShare
<1>7. x \notin FlowShare(Outstanding, f)
  BY <1>3 DEF FlowShare
<1>8. Cardinality(FlowShare(Outstanding', f)) = Cardinality(FlowShare(Outstanding, f)) + 1
  <2>1. IsFiniteSet(FlowShare(Outstanding, f))
    BY OutstandingTyped, SharesFinite
  <2> QED BY <1>6, <1>7, <2>1, FS_AddElement
<1>9. count'[f] = count[f] + 1 /\ \A g \in Flows : g # f => count'[g] = count[g]
  BY DEF TypesOK
<1>10. \A g \in Flows : count'[g] = Cardinality(FlowShare(Outstanding', g))
  BY <1>5, <1>8, <1>9 DEF Counted
<1>11. \A t \in Tasks : need'[t] = Cardinality(WaitShare(Outstanding', t))
  BY <1>4 DEF Counted
<1> QED BY <1>10, <1>11 DEF Counted

\* A decrement takes one from both.
LEMMA CountedLess ==
  ASSUME TypesOK, Counted, NEW unit \in FlowUnits, NEW f \in Flows,
         <<unit, f>> \in Outstanding, Outstanding' = Outstanding \ {<<unit, f>>},
         count' = [count EXCEPT ![f] = @ - 1], need' = need
  PROVE  Counted'
<1> DEFINE x == <<unit, f>>
<1>1. x \in Tokens /\ x[1] = unit /\ x[2] = f
  BY DEF Tokens
<1>2. unit \notin WaitUnits
  BY <1>1, UnitsApart
<1>3. Outstanding' = Outstanding \ {x} /\ x \in Outstanding
  OBVIOUS
<1> HIDE DEF x
<1>4. \A t \in Tasks : WaitShare(Outstanding', t) = WaitShare(Outstanding, t)
  BY <1>1, <1>2, <1>3 DEF WaitShare
<1>5. \A g \in Flows : g # f => FlowShare(Outstanding', g) = FlowShare(Outstanding, g)
  BY <1>1, <1>3 DEF FlowShare
<1>6. FlowShare(Outstanding', f) = FlowShare(Outstanding, f) \ {x}
  BY <1>1, <1>3 DEF FlowShare
<1>7. x \in FlowShare(Outstanding, f)
  BY <1>1, <1>3 DEF FlowShare
<1>8. Cardinality(FlowShare(Outstanding', f)) = Cardinality(FlowShare(Outstanding, f)) - 1
  <2>1. IsFiniteSet(FlowShare(Outstanding, f))
    BY OutstandingTyped, SharesFinite
  <2> QED BY <1>6, <1>7, <2>1, FS_RemoveElement
<1>9. count'[f] = count[f] - 1 /\ \A g \in Flows : g # f => count'[g] = count[g]
  BY DEF TypesOK
<1>10. \A g \in Flows : count'[g] = Cardinality(FlowShare(Outstanding', g))
  BY <1>5, <1>8, <1>9 DEF Counted
<1>11. \A t \in Tasks : need'[t] = Cardinality(WaitShare(Outstanding', t))
  BY <1>4 DEF Counted
<1> QED BY <1>10, <1>11 DEF Counted

\* So does a dependency of a task, and the last leaves none.
LEMMA WaitedLess ==
  ASSUME TypesOK, Counted, NEW unit \in WaitUnits, NEW t \in Tasks,
         <<unit, t>> \in Outstanding, Outstanding' = Outstanding \ {<<unit, t>>},
         need' = [need EXCEPT ![t] = @ - 1], count' = count
  PROVE  /\ Counted' /\ need[t] > 0
         /\ need[t] = 1 => WaitShare(Outstanding', t) = {}
<1> DEFINE x == <<unit, t>>
<1>1. x \in Tokens /\ x[1] = unit /\ x[2] = t
  BY DEF Tokens
<1>2. unit \notin FlowUnits
  BY <1>1, UnitsApart
<1>3. Outstanding' = Outstanding \ {x} /\ x \in Outstanding
  OBVIOUS
<1> HIDE DEF x
<1>4. \A f \in Flows : FlowShare(Outstanding', f) = FlowShare(Outstanding, f)
  BY <1>1, <1>2, <1>3 DEF FlowShare
<1>5. \A s \in Tasks : s # t => WaitShare(Outstanding', s) = WaitShare(Outstanding, s)
  BY <1>1, <1>3 DEF WaitShare
<1>6. WaitShare(Outstanding', t) = WaitShare(Outstanding, t) \ {x}
  BY <1>1, <1>3 DEF WaitShare
<1>7. x \in WaitShare(Outstanding, t)
  BY <1>1, <1>3 DEF WaitShare
<1>8. IsFiniteSet(WaitShare(Outstanding, t)) /\ IsFiniteSet(WaitShare(Outstanding', t))
  <2>1. Outstanding \subseteq Tokens /\ Outstanding' \subseteq Tokens
    BY <1>3, OutstandingTyped
  <2> QED BY <2>1, SharesFinite
<1>9. Cardinality(WaitShare(Outstanding', t)) = Cardinality(WaitShare(Outstanding, t)) - 1
  BY <1>6, <1>7, <1>8, FS_RemoveElement
<1>10. Cardinality(WaitShare(Outstanding', t)) \in Nat
  BY <1>8, FS_CardinalityType
<1>11. need'[t] = need[t] - 1 /\ \A s \in Tasks : s # t => need'[s] = need[s]
  BY DEF TypesOK
<1>12. need[t] = Cardinality(WaitShare(Outstanding, t)) /\ need[t] \in Nat
  BY DEF Counted, TypesOK
<1>13. need[t] > 0 /\ need'[t] = Cardinality(WaitShare(Outstanding', t))
  BY <1>9, <1>10, <1>11, <1>12
<1>14. need[t] = 1 => WaitShare(Outstanding', t) = {}
  <2>1. need[t] = 1 => Cardinality(WaitShare(Outstanding', t)) = 0
    BY <1>9, <1>12
  <2> QED BY <1>8, <2>1, FS_EmptySet
<1>15. \A g \in Flows : count'[g] = Cardinality(FlowShare(Outstanding', g))
  BY <1>4 DEF Counted
<1>16. \A s \in Tasks : need'[s] = Cardinality(WaitShare(Outstanding', s))
  BY <1>5, <1>11, <1>13 DEF Counted
<1> QED BY <1>13, <1>14, <1>15, <1>16 DEF Counted

\* New flows, each with the one unit it starts with.
LEMMA FlowsFresh ==
  ASSUME TypesOK, Counted, NEW F, Outstanding' = Outstanding \cup F, NEW New,
         \A f \in New : FlowShare(Outstanding, f) = {} /\ \E x : FlowShare(F, f) = {x},
         \A f \in Flows \ New : FlowShare(F, f) = {},
         count' = [f \in Flows |-> IF f \in New THEN 1 ELSE count[f]]
  PROVE  \A f \in Flows : count'[f] = Cardinality(FlowShare(Outstanding', f))
<1>1. \A f : FlowShare(Outstanding', f) = FlowShare(Outstanding, f) \cup FlowShare(F, f)
  BY DEF FlowShare
<1>2. SUFFICES ASSUME NEW f \in Flows PROVE count'[f] = Cardinality(FlowShare(Outstanding', f))
  OBVIOUS
<1>3. CASE f \in New
  <2>1. PICK x : FlowShare(F, f) = {x}
    BY <1>3
  <2>2. FlowShare(Outstanding', f) = {x}
    BY <1>1, <1>3, <2>1
  <2> QED BY <1>3, <2>2, FS_Singleton
<1>4. CASE f \notin New
  <2>1. FlowShare(Outstanding', f) = FlowShare(Outstanding, f)
    BY <1>1, <1>4, ZenonT(60), SMTT(30)
  <2> QED BY <1>4, <2>1 DEF Counted
<1> QED BY <1>3, <1>4

\* A new task, with what it has to wait for.
LEMMA WaitsFresh ==
  ASSUME TypesOK, Counted, NEW F, Outstanding' = Outstanding \cup F, NEW t \in Tasks, NEW u \in Uses,
         WaitShare(Outstanding, t) = {}, WaitShare(F, t) = WaitTokens(t, u),
         \A s \in Tasks : s # t => WaitShare(F, s) = {},
         need' = [need EXCEPT ![t] = PendingCount(u)]
  PROVE  \A s \in Tasks : need'[s] = Cardinality(WaitShare(Outstanding', s))
<1>1. \A s : WaitShare(Outstanding', s) = WaitShare(Outstanding, s) \cup WaitShare(F, s)
  BY DEF WaitShare
<1>2. WaitShare(Outstanding', t) = WaitTokens(t, u)
  BY <1>1
<1>3. Cardinality(WaitTokens(t, u)) = PendingCount(u)
  <2> DEFINE x == <<<<u.id, "wait_in">>, t>>
             y == <<<<u.id, "setup">>, t>>
             z == <<<<u.id, "wait_anti_in">>, t>>
  <2>1. x # y /\ z \notin {x} \cup {y}
    OBVIOUS
  <2>2. WaitTokens(t, u) = IF u.anti_dependency THEN ({x} \cup {y}) \cup {z} ELSE {x} \cup {y}
    BY DEF WaitTokens
  <2>3. IsFiniteSet({x}) /\ Cardinality({x}) = 1
    BY FS_Singleton
  <2> HIDE DEF x, y, z
  <2>4. IsFiniteSet({x} \cup {y}) /\ Cardinality({x} \cup {y}) = 2
    <3>1. y \notin {x}
      BY <2>1
    <3>2. IsFiniteSet({x} \cup {y}) /\ Cardinality({x} \cup {y}) = Cardinality({x}) + 1
      BY <2>3, <3>1, FS_AddElement
    <3> QED BY <2>3, <3>2
  <2>5. Cardinality(({x} \cup {y}) \cup {z}) = 3
    <3>1. PICK S : S = {x} \cup {y}
      OBVIOUS
    <3>2. IsFiniteSet(S) /\ Cardinality(S) = 2 /\ z \notin S
      BY <2>1, <2>4, <3>1
    <3>3. Cardinality(S \cup {z}) = Cardinality(S) + 1
      BY <3>2, FS_AddElement
    <3> QED BY <3>1, <3>2, <3>3
  <2> QED BY <2>2, <2>4, <2>5 DEF PendingCount
<1>4. SUFFICES ASSUME NEW s \in Tasks PROVE need'[s] = Cardinality(WaitShare(Outstanding', s))
  OBVIOUS
<1>5. CASE s = t
  BY <1>2, <1>3, <1>5 DEF TypesOK
<1>6. CASE s # t
  <2>1. WaitShare(Outstanding', s) = WaitShare(Outstanding, s)
    BY <1>1, <1>6
  <2> QED BY <1>6, <2>1 DEF Counted, TypesOK
<1> QED BY <1>5, <1>6

-----------------------------------------------------------------------------
(* A step that registers no task *)

\* Nothing is captured and no task changes its use or kind.
NothingNew ==
  /\ captures' = captures /\ use' = use /\ kind' = kind
  /\ \A c \in Users : /\ status'[c] = "unregistered" <=> status[c] = "unregistered"
                      /\ status[c] = "done" => status'[c] = "done"

\* Then there are the same tasks,
LEMMA KnownSame ==
  ASSUME TypesOK, NothingNew PROVE Known' = Known
<1>1. SubTasks \subseteq Users
  BY DEF Users, Tasks
<1> QED BY <1>1 DEF Known, NothingNew

\* with the same uses.
LEMMA SameTasks ==
  ASSUME TypesOK, NothingNew, FreshTasks, UsesOK
  PROVE  FreshTasks' /\ UsesOK'
<1>1. Known' = Known
  BY KnownSame
<1>2. FreshTasks'
  BY <1>1, UsersRun DEF FreshTasks, NothingNew
<1>3. \A u : GoodUse(u) => GoodUse(u)'
  BY <1>1 DEF GoodUse
<1>4. \A c \in Users : Writes(c)' <=> Writes(c)
  BY DEF Writes, NothingNew
<1>5. ASSUME NEW c \in Users, status'[c] # "unregistered"
      PROVE  /\ GoodUse(use[c])' /\ OwnId(c, use'[c].id)
             /\ Writes(c)' => use'[c].out # None
             /\ use'[c].establishes_alias => ~use'[c].anti_dependency /\ Writes(c)'
  <2>1. /\ GoodUse(use[c]) /\ OwnId(c, use[c].id) /\ (Writes(c) => use[c].out # None)
        /\ (use[c].establishes_alias => ~use[c].anti_dependency /\ Writes(c))
    BY <1>5 DEF UsesOK, NothingNew
  <2>2. use'[c] = use[c]
    BY DEF NothingNew
  <2>3. GoodUse(use[c])'
    BY <1>1, <2>1, <2>2 DEF GoodUse
  <2> QED BY <1>4, <2>1, <2>2, <2>3
<1>6. UsesOK'
  BY <1>5 DEF UsesOK, OwnId
<1> QED BY <1>2, <1>6

\* The index of a collection is a subtask of it.
LEMMA TopSubTask ==
  ASSUME NEW t \in TopTasks, Indices > 0, NEW i \in 1..Indices
  PROVE  Append(t, i) \in SubTasks /\ Append(t, i) = <<t[1], i>>
<1>1. PICK x \in 1..Width : t = <<x>>
  BY DEF TopTasks
<1>2. Append(<<x>>, i) = <<x, i>> /\ <<x>>[1] = x
  <2>1. <<x>> \in Seq(Nat) /\ <<x, i>> \in Seq(Nat) /\ i \in Nat
    BY BoundsAssumption
  <2>2. Len(<<x>>) = 1 /\ Len(<<x, i>>) = 2
    OBVIOUS
  <2>3. Append(<<x>>, i) \in Seq(Nat) /\ Len(Append(<<x>>, i)) = 2
    BY <2>1, <2>2
  <2>4. Append(<<x>>, i)[1] = x /\ Append(<<x>>, i)[2] = i
    BY <2>1, <2>2
  <2>5. \A k \in 1..2 : Append(<<x>>, i)[k] = <<x, i>>[k]
    BY <2>4
  <2> QED BY <2>1, <2>2, <2>3, <2>5, SeqEqual
<1>3. <<x, i>> \in SubTasks
  BY BoundsAssumption DEF SubTasks
<1> QED BY <1>1, <1>2, <1>3

\* The collections still to be registered stay as they are.
LEMMA GoodRegisterKept ==
  ASSUME NEW op \in Ops, op.do = "register", GoodRegister(op), Known \subseteq Known',
         \A j \in op.index..Indices : status'[Append(op.task, j)] = status[Append(op.task, j)]
  PROVE  GoodRegister(op)'
<1>1. GoodUse(op.use)'
  BY DEF GoodUse, GoodRegister
<1> QED BY <1>1 DEF GoodRegister

\* And the same collections to register.
LEMMA SameRegisters ==
  ASSUME TypesOK, NothingNew, RegistersOK,
         \A th \in Threads : Registers(agenda'[th]) \subseteq Registers(agenda[th])
  PROVE  RegistersOK'
<1>1. SUFFICES ASSUME NEW th \in Threads, NEW op \in Registers(agenda[th]) PROVE GoodRegister(op)'
  BY DEF RegistersOK
<1>2. op \in Ops /\ op.do = "register"
  <2>1. agenda[th] \in Seq(Ops)
    BY DEF TypesOK
  <2> QED BY <2>1 DEF Registers
<1>3. GoodRegister(op)
  BY DEF RegistersOK
<1>4. Known' = Known
  BY KnownSame
<1>5. GoodUse(op.use)'
  BY <1>3, <1>4 DEF GoodUse, GoodRegister
<1>6. \A j \in op.index..Indices : status'[Append(op.task, j)] = "unregistered"
  <2>1. SUFFICES ASSUME NEW j \in op.index..Indices
                 PROVE  status'[Append(op.task, j)] = "unregistered"
    OBVIOUS
  <2>2. op.task \in TopTasks /\ Indices > 0 /\ j \in 1..Indices
    BY <1>3 DEF GoodRegister
  <2>3. Append(op.task, j) \in Users
    BY <2>2, TopSubTask DEF Users, Tasks
  <2>4. status[Append(op.task, j)] = "unregistered"
    BY <1>3 DEF GoodRegister
  <2> QED BY <2>3, <2>4 DEF NothingNew
<1> QED BY <1>3, <1>4, <1>5, <1>6 DEF GoodRegister

\* x is for a use, and a flow or task, that there is.
IdOfKnown(x) ==
  /\ x[1][1][1] \in Known
  /\ x[1] \in FlowUnits => x[2][1][1] \in Known
  /\ x[1] \in WaitUnits => x[1][1] = <<x[2], "captured">>

\* If x holds up an aliased flow, its use has been released.
AliasOfDone(x) ==
  x[1][2] \in {"alias_out", "alias_anti_in"} =>
     \E c \in Users : status[c] = "done" /\ use[c].id = x[1][1]

\* What is newly owed is for uses and flows that there are.
LEMMA IdsAfter ==
  ASSUME KnownIds, Known \subseteq Known', NEW F, Owed' \subseteq Owed \cup F,
         \A x \in F : IdOfKnown(x)'
  PROVE  KnownIds'
<1>1. \A x \in Owed : IdOfKnown(x)
  BY DEF KnownIds, IdOfKnown
<1>2. \A x : IdOfKnown(x) => IdOfKnown(x)'
  BY DEF IdOfKnown
<1>3. \A x \in Owed' : IdOfKnown(x)'
  BY <1>1, <1>2
<1> QED BY <1>3 DEF KnownIds, IdOfKnown

\* New aliases are those of uses released.
LEMMA AliasesAfter ==
  ASSUME AliasIds, NEW F, Owed' \subseteq Owed \cup F, \A x \in F : AliasOfDone(x)',
         \A c \in Users : status[c] = "done" => status'[c] = "done" /\ use'[c].id = use[c].id
  PROVE  AliasIds'
<1>1. \A x \in Owed : AliasOfDone(x)
  BY DEF AliasIds, AliasOfDone
<1>2. \A x : AliasOfDone(x) => AliasOfDone(x)'
  BY DEF AliasOfDone
<1>3. \A x \in Owed' : AliasOfDone(x)'
  BY <1>1, <1>2
<1> QED BY <1>3 DEF AliasIds, AliasOfDone

\* And no task starts for which something is left to wait.
LEMMA WaitsAfter ==
  ASSUME WaitsPending, NEW F, Owed' \subseteq Owed \cup F,
         \A x \in F : x[1] \in WaitUnits => status'[x[2]] = "pending",
         \A x \in Owed : x[1] \in WaitUnits /\ status[x[2]] = "pending" /\ x \in Owed' =>
            status'[x[2]] = "pending"
  PROVE  WaitsPending'
<1>1. \A x \in Owed' : x[1] \in WaitUnits => status'[x[2]] = "pending"
  BY DEF WaitsPending
<1> QED BY <1>1 DEF WaitsPending

\* What a step that only moves what is owed, or gives some of it back, keeps.
LEMMA QuietStep ==
  ASSUME TypesOK, FreshTasks, UsesOK, RegistersOK, KnownIds, AliasIds, NothingNew,
         Owed' \subseteq Owed,
         \A th \in Threads : Registers(agenda'[th]) \subseteq Registers(agenda[th])
  PROVE  FreshTasks' /\ UsesOK' /\ RegistersOK' /\ KnownIds' /\ AliasIds'
<1>1. FreshTasks' /\ UsesOK' /\ RegistersOK'
  BY SameTasks, SameRegisters
<1>2. PICK F : F = {}
  OBVIOUS
<1>a. Known \subseteq Known' /\ Owed' \subseteq Owed \cup F
  BY <1>2, KnownSame
<1>b. (\A x \in F : IdOfKnown(x)') /\ (\A x \in F : AliasOfDone(x)')
  BY <1>2
<1>3. KnownIds'
  BY <1>a, <1>b, IdsAfter
<1>4. \A c \in Users : status[c] = "done" => status'[c] = "done" /\ use'[c].id = use[c].id
  BY DEF NothingNew
<1>5. AliasIds'
  BY <1>a, <1>b, <1>4, AliasesAfter
<1> QED BY <1>1, <1>3, <1>5

-----------------------------------------------------------------------------
(* Steps that only move what is owed, or give some of it back *)

\* The uses that have not been released.
Live == {"pending", "ready", "running"}

\* A task that starts or becomes ready owes what it owed.
LEMMA UseOwesSame ==
  ASSUME use' = use,
         \A c \in Users : status'[c] = status[c] \/ (status[c] \in Live /\ status'[c] \in Live)
  PROVE  /\ \A c \in Users : UseOwes(c)' = UseOwes(c)
         /\ UsesKept
<1>1. ASSUME NEW c \in Users PROVE UseOwes(c)' = UseOwes(c)
  <2>1. CASE status'[c] = status[c]
    BY <2>1 DEF UseOwes
  <2>2. CASE status[c] \in Live /\ status'[c] \in Live
    BY <2>2 DEF UseOwes, Live
  <2> QED BY <2>1, <2>2
<1> QED BY <1>1 DEF UsesKept

\* A place that does not change holds what it held.
LEMMA PlacesSame ==
  /\ \A th \in Threads : OwedByOps(agenda'[th]) = OwedByOps(agenda[th]) =>
        Holds'[<<"agenda", th>>] = Holds[<<"agenda", th>>]
  /\ \A f \in Flows : actions'[f] = actions[f] => Holds'[<<"actions", f>>] = Holds[<<"actions", f>>]
  /\ \A c \in Users : UseOwes(c)' = UseOwes(c) => Holds'[<<"use", c>>] = Holds[<<"use", c>>]
  /\ callables' = callables => Holds'[<<"callables", Main>>] = Holds[<<"callables", Main>>]
BY HoldsNow, HoldsNext DEF CallablesOwe

\* Between the agenda of a and one other place.
LEMMA MoveBetween ==
  ASSUME TypesOK, OwedApart, NEW a \in Threads, NEW X \in Seq(Ops), AgendaStep(a, X),
         NEW q \in Places, q # <<"agenda", a>>,
         \A p \in Places : p # q /\ p # <<"agenda", a>> => Holds'[p] = Holds[p],
         NEW G, G \subseteq OwedByOps(agenda[a]),
         Holds'[q] \cap (OwedByOps(X) \cup OwedByOps(Rest(a))) = {},
         Holds'[q] \cup OwedByOps(X) \cup OwedByOps(Rest(a))
           = (Holds[q] \cup OwedByOps(agenda[a])) \ G
  PROVE  OwedApart' /\ Owed' = Owed \ G
<1> DEFINE r == <<"agenda", a>>
           D == {q, r}
<1>1. r \in Places /\ D \in SUBSET Places /\ q # r
  BY PlaceKinds
<1>2. Holds[r] = OwedByOps(agenda[a]) /\ Holds'[r] = OwedByOps(X) \cup OwedByOps(Rest(a))
  BY HoldsNow, HoldsNext, AgendaAfter
<1>3. \A p \in Places \ D : Holds'[p] = Holds[p]
  OBVIOUS
<1> HIDE DEF r
<1>4. PICK F : F = {}
  OBVIOUS
<1>5. /\ UNION {Holds'[p] : p \in D} = Holds'[q] \cup Holds'[r]
      /\ UNION {Holds[p] : p \in D} = Holds[q] \cup Holds[r]
  OBVIOUS
<1>6. /\ F \cap Owed = {} /\ G \subseteq UNION {Holds[p] : p \in D}
      /\ UNION {Holds'[p] : p \in D} = ((UNION {Holds[p] : p \in D}) \ G) \cup F
  BY <1>2, <1>4, <1>5
<1>7. \A p, p2 \in D : p # p2 => Holds'[p] \cap Holds'[p2] = {}
  BY <1>2
<1> HIDE DEF D
<1>8. OwedApart' /\ Owed' = (Owed \ G) \cup F
  BY <1>1, <1>3, <1>6, <1>7, OwedStep
<1> QED BY <1>4, <1>8

\* The rest of the invariant after such a step.
LEMMA MoveInv ==
  ASSUME Inv, NEW a \in Threads, NEW X \in Seq(Ops), AgendaStep(a, X), Sound(X),
         TakenByOps(X) = {}, NothingNew, UsesKept, ToCome' \subseteq ToCome,
         OwedApart', Owed' \subseteq Owed, TypesOK', WaitsPending', Counted',
         OwedByOps(X) \cap OwedByOps(Rest(a)) = {},
         \A f \in Flows : Once(actions'[f])
  PROVE  Inv'
<1>1. /\ TypesOK /\ FreshTasks /\ UsesOK /\ RegistersOK /\ KnownIds /\ AliasIds /\ WaitsPending
      /\ Anchors /\ TakenApart /\ OwedApart /\ OnceEach /\ Counted
  BY DEF Inv
<1>2. Once(X) /\ TakenOnce(X) /\ Registers(X) = {}
  BY DEF Sound
<1>3. \A th \in Threads : Registers(agenda'[th]) \subseteq Registers(agenda[th])
  <2>1. ASSUME NEW th \in Threads PROVE Registers(agenda'[th]) \subseteq Registers(agenda[th])
    <3>1. CASE th = a
      BY <1>1, <1>2, <3>1, AgendaAfter, RestFacts, ZenonT(60), SMTT(30)
    <3>2. CASE th # a
      BY <1>1, <3>2, AgendaAfter
    <3> QED BY <3>1, <3>2
  <2> QED BY <2>1
<1>4. FreshTasks' /\ UsesOK' /\ RegistersOK' /\ KnownIds' /\ AliasIds'
  BY <1>1, <1>3, QuietStep
<1>5. Anchors'
  BY <1>1, AnchorsAfterMove
<1>6. TakenApart'
  <2>1. Fresh(TakenByOps(X)) /\ ToCome \subseteq Owed
    BY <1>1, ToComeOwed DEF Fresh
  <2> QED BY <1>1, <1>2, <2>1, TakenApartAfter
<1>7. OnceEach'
  <2>1. Once(agenda'[a])
    <3>1. Rest(a) \in Seq(Ops) /\ Once(Rest(a))
      BY <1>1, RestFacts DEF OnceEach
    <3>2. Once(X \o Rest(a))
      BY <1>2, <3>1, ConcatOnce
    <3> QED BY <1>1, <3>2, AgendaAfter
  <2>2. \A th \in Threads : Once(agenda'[th])
    BY <1>1, <2>1, AgendaAfter DEF OnceEach
  <2> QED BY <2>2 DEF OnceEach
<1> QED BY <1>4, <1>5, <1>6, <1>7 DEF Inv

\* The operations that put something in front of the tail of an agenda,
LEMMA DropHead ==
  ASSUME TypesOK, NEW a \in Threads, agenda[a] # <<>>,
         NEW X \in Seq(Ops), agenda' = [agenda EXCEPT ![a] = X \o Tail(@)]
  PROVE  AgendaStep(a, X) /\ Rest(a) = Tail(agenda[a])
<1>1. Rest(a) = Tail(agenda[a])
  BY DEF Rest
<1>2. agenda' = [agenda EXCEPT ![a] = X \o Tail(agenda[a])]
  BY DEF TypesOK
<1> QED BY <1>1, <1>2 DEF AgendaStep

\* and those that only drop its head.
LEMMA OnlyDropHead ==
  ASSUME TypesOK, NEW a \in Threads, agenda[a] # <<>>,
         agenda' = [agenda EXCEPT ![a] = Tail(@)]
  PROVE  AgendaStep(a, <<>>) /\ Rest(a) = Tail(agenda[a])
<1>1. Tail(agenda[a]) \in Seq(Ops)
  BY TailOps DEF TypesOK
<1>2. <<>> \o Tail(agenda[a]) = Tail(agenda[a])
  BY <1>1, ConcatEmptySeq
<1>3. Rest(a) = Tail(agenda[a])
  BY DEF Rest
<1>4. agenda' = [agenda EXCEPT ![a] = <<>> \o Tail(agenda[a])]
  BY <1>2 DEF TypesOK
<1> QED BY <1>3, <1>4 DEF AgendaStep

\* To put nothing in front is sound.
LEMMA NothingPut ==
  <<>> \in Seq(Ops) /\ Sound(<<>>) /\ OwedByOps(<<>>) = {} /\ TakenByOps(<<>>) = {}
BY NoOps, SoundParts

\* The head of an agenda, and what it owes.
LEMMA HeadFacts ==
  ASSUME Inv, NEW a \in Threads, agenda[a] # <<>>
  PROVE  /\ Head(agenda[a]) \in Ops
         /\ OwedByOps(agenda[a]) = OwedByOp(Head(agenda[a])) \cup OwedByOps(Tail(agenda[a]))
         /\ OwedByOp(Head(agenda[a])) \cap OwedByOps(Tail(agenda[a])) = {}
         /\ OwedByOp(Head(agenda[a])) \subseteq Owed \ ToCome
<1>1. agenda[a] \in Seq(Ops) /\ Once(agenda[a])
  BY DEF Inv, TypesOK, OnceEach
<1>2. /\ Head(agenda[a]) \in Ops
      /\ OwedByOps(agenda[a]) = OwedByOp(Head(agenda[a])) \cup OwedByOps(Tail(agenda[a]))
      /\ OwedByOp(Head(agenda[a])) \cap OwedByOps(Tail(agenda[a])) = {}
  BY <1>1, TailOps, TailOwes
<1>3. OwedByOp(Head(agenda[a])) \subseteq Owed
  BY <1>2, OwedAnywhere
<1>4. \A x \in OwedByOp(Head(agenda[a])) : x \notin ToCome
  BY HeadArrived DEF Inv
<1> QED BY <1>2, <1>3, <1>4

-----------------------------------------------------------------------------
(* The operations of a thread                                               *)

\* A step that changes what is owed on the agenda of a only.
LEMMA MoveAlone ==
  ASSUME TypesOK, OwedApart, NEW a \in Threads, NEW X \in Seq(Ops), AgendaStep(a, X),
         actions' = actions, callables' = callables, \A c \in Users : UseOwes(c)' = UseOwes(c),
         NEW G, G \subseteq OwedByOps(agenda[a]),
         OwedByOps(X) \cup OwedByOps(Rest(a)) = OwedByOps(agenda[a]) \ G
  PROVE  OwedApart' /\ Owed' = Owed \ G
<1> DEFINE q == <<"callables", Main>>
<1>1. q \in Places /\ q # <<"agenda", a>> /\ <<"agenda", a>> \in Places
  BY PlaceKinds
<1>2. \A p \in Places : p # <<"agenda", a>> => Holds'[p] = Holds[p]
  <2>1. SUFFICES ASSUME NEW p \in Places, p # <<"agenda", a>> PROVE Holds'[p] = Holds[p]
    OBVIOUS
  <2>2. CASE \E th \in Threads : p = <<"agenda", th>>
    BY <2>1, <2>2, AgendaAfter, PlacesSame
  <2>3. CASE ~\E th \in Threads : p = <<"agenda", th>>
    BY <2>3, PlaceKinds, PlacesSame
  <2> QED BY <2>2, <2>3
<1> HIDE DEF q
<1>3. Holds[q] \cap Holds[<<"agenda", a>>] = {}
  BY <1>1 DEF OwedApart
<1>4. Holds[<<"agenda", a>>] = OwedByOps(agenda[a]) /\ Holds'[q] = Holds[q]
  BY <1>1, <1>2, HoldsNow
<1>5. Holds'[q] \cap (OwedByOps(X) \cup OwedByOps(Rest(a))) = {}
  BY <1>3, <1>4
<1>6. Holds'[q] \cup OwedByOps(X) \cup OwedByOps(Rest(a)) = (Holds[q] \cup OwedByOps(agenda[a])) \ G
  BY <1>3, <1>4
<1> QED BY <1>1, <1>2, <1>5, <1>6, MoveBetween

\* An increment finds its flow not ready, and counts one unit that was to come.
LEMMA IncrementInv ==
  ASSUME Inv, NEW a \in Threads, DoIncrement(a) PROVE Inv'
<1> DEFINE h == Head(agenda[a])
<1>0. /\ TypesOK /\ WaitsPending /\ Anchors /\ TakenApart /\ OwedApart /\ OnceEach /\ Counted
  BY DEF Inv
<1>1. /\ agenda[a] # <<>> /\ h.do = "increment"
      /\ count' = [count EXCEPT ![h.counter] = @ + 1]
      /\ agenda' = [agenda EXCEPT ![a] = Tail(@)]
      /\ actions' = actions /\ use' = use /\ captures' = captures /\ kind' = kind
      /\ status' = status /\ need' = need /\ callables' = callables
  BY DEF DoIncrement, IsNext
<1>2. PICK unit, f : unit = h.unit /\ f = h.counter
  OBVIOUS
<1>3. h \in Ops /\ unit \in FlowUnits /\ f \in Flows
  BY <1>1, <1>2, HeadFacts, OpKinds
<1>4. OwedByOp(h) = {}
  BY <1>1 DEF OwedByOp
<1>5. AgendaStep(a, <<>>) /\ Rest(a) = Tail(agenda[a])
  BY <1>0, <1>1, OnlyDropHead
<1>6. OwedByOps(Rest(a)) = OwedByOps(agenda[a])
  BY <1>1, <1>4, <1>5, HeadFacts
<1>7. <<unit, f>> \in ToCome /\ ToCome' = ToCome \ {<<unit, f>>}
  BY <1>0, <1>1, <1>2, <1>5, ToComeLess
<1> HIDE DEF h
<1>8. (\A c \in Users : UseOwes(c)' = UseOwes(c)) /\ UsesKept
  BY <1>1, UseOwesSame
<1>9. PICK G, X : G = {} /\ X = <<>>
  OBVIOUS
<1>20. /\ X \in Seq(Ops) /\ AgendaStep(a, X) /\ Sound(X) /\ TakenByOps(X) = {}
       /\ OwedByOps(X) = {} /\ OwedByOps(X) \cap OwedByOps(Rest(a)) = {}
  BY <1>5, <1>9, NothingPut
<1>10. OwedApart' /\ Owed' = Owed \ G
  <2>1. G \subseteq OwedByOps(agenda[a])
        /\ OwedByOps(X) \cup OwedByOps(Rest(a)) = OwedByOps(agenda[a]) \ G
    BY <1>6, <1>9, <1>20
  <2> QED BY <1>0, <1>1, <1>8, <1>20, <2>1, MoveAlone
<1>11. Owed' = Owed
  BY <1>9, <1>10
<1>12. <<unit, f>> \in Owed
  BY <1>0, <1>7, ToComeOwed
<1>13. /\ <<unit, f>> \notin Outstanding /\ Outstanding' = Outstanding \cup {<<unit, f>>}
  BY <1>7, <1>11, <1>12 DEF Outstanding
<1>14. Counted'
  BY <1>0, <1>1, <1>2, <1>3, <1>13, CountedMore
<1>15. NothingNew
  BY <1>1 DEF NothingNew
<1>16. TypesOK'
  <2>1. agenda' \in [Threads -> Seq(Ops)]
    BY <1>0, <1>5, AgendaAfter, NothingPut
  <2>2. count[f] + 1 \in Nat
    BY <1>0, <1>3 DEF TypesOK
  <2>3. count' = [count EXCEPT ![f] = count[f] + 1]
    BY <1>1, <1>2
  <2>4. count' \in [Flows -> Nat]
    BY <1>0, <2>2, <2>3 DEF TypesOK
  <2> QED BY <1>0, <1>1, <2>1, <2>4 DEF TypesOK
<1>17. WaitsPending'
  BY <1>0, <1>1, <1>11 DEF WaitsPending
<1>18. \A g \in Flows : Once(actions'[g])
  BY <1>0, <1>1 DEF OnceEach
<1>21. ToCome' \subseteq ToCome /\ Owed' \subseteq Owed
  BY <1>7, <1>11
<1> QED BY <1>8, <1>10, <1>14, <1>15, <1>16, <1>17, <1>18, <1>20, <1>21, MoveInv

\* The actions of a flow are sound operations that take nothing.
LEMMA PayloadSeq ==
  ASSUME NEW s \in Seq(Payloads), Once(s)
  PROVE  s \in Seq(Ops) /\ Sound(s) /\ TakenByOps(s) = {}
<1>1. s \in Seq(Ops)
  BY ActionsAreOps
<1>2. \A k \in DOMAIN s : s[k].do # "increment" /\ s[k].do # "register"
  <2>1. \A k \in DOMAIN s : s[k] \in Payloads
    OBVIOUS
  <2> QED BY <2>1 DEF Payloads
<1> QED BY <1>1, <1>2 DEF Sound, TakenByOps, TakenOnce, Registers

\* A decrement gives one unit back, and the last one runs the actions of its flow.
LEMMA DecrementInv ==
  ASSUME Inv, NEW a \in Threads, DoDecrement(a) PROVE Inv'
<1> DEFINE h == Head(agenda[a])
<1>0. /\ TypesOK /\ WaitsPending /\ Anchors /\ TakenApart /\ OwedApart /\ OnceEach /\ Counted
  BY DEF Inv
<1>1. /\ agenda[a] # <<>> /\ h.do = "decrement" /\ count[h.counter] > 0
      /\ count' = [count EXCEPT ![h.counter] = @ - 1]
      /\ use' = use /\ captures' = captures /\ kind' = kind
      /\ status' = status /\ need' = need /\ callables' = callables
  BY DEF DoDecrement, IsNext
<1>2. PICK unit, f : unit = h.unit /\ f = h.counter
  OBVIOUS
<1>3. h \in Ops /\ unit \in FlowUnits /\ f \in Flows
  BY <1>1, <1>2, HeadFacts, OpKinds
<1>4. OwedByOp(h) = {<<unit, f>>}
  BY <1>1, <1>2 DEF OwedByOp
<1>5. PICK x : x = <<unit, f>>
  OBVIOUS
<1>6. /\ OwedByOps(agenda[a]) = {x} \cup OwedByOps(Tail(agenda[a]))
      /\ x \notin OwedByOps(Tail(agenda[a])) /\ x \in Owed /\ x \notin ToCome
  BY <1>1, <1>4, <1>5, HeadFacts
<1>7. (\A c \in Users : UseOwes(c)' = UseOwes(c)) /\ UsesKept
  BY <1>1, UseOwesSame
<1>8. NothingNew
  BY <1>1 DEF NothingNew
<1>9. count' \in [Flows -> Nat]
  <2>1. count[f] \in Nat /\ count[f] > 0 /\ count' = [count EXCEPT ![f] = count[f] - 1]
    BY <1>0, <1>1, <1>2, <1>3 DEF TypesOK
  <2>2. count[f] - 1 \in Nat
    BY <2>1
  <2> QED BY <1>0, <2>1, <2>2 DEF TypesOK
<1>a. h.do # "increment"
  BY <1>1
<1>b. count[f] = 1 =>
        /\ agenda' = [agenda EXCEPT ![a] = actions[f] \o Tail(@)]
        /\ actions' = [actions EXCEPT ![f] = <<>>]
  BY <1>2 DEF DoDecrement
<1>c. count[f] # 1 => agenda' = [agenda EXCEPT ![a] = Tail(@)] /\ actions' = actions
  BY <1>2 DEF DoDecrement
<1>10. ASSUME NEW X \in Seq(Ops), AgendaStep(a, X), Sound(X), TakenByOps(X) = {},
              OwedByOps(X) \cap OwedByOps(Rest(a)) = {}, OwedApart', Owed' = Owed \ {x},
              \A g \in Flows : Once(actions'[g]), actions' \in [Flows -> Seq(Payloads)]
       PROVE  Inv'
  <2>1. ToCome' = ToCome
    BY <1>0, <1>a, <1>10, ToComeSame
  <2>2. x \in Outstanding /\ Outstanding' = Outstanding \ {x}
    BY <1>6, <1>10, <2>1 DEF Outstanding
  <2>3. Counted'
    BY <1>0, <1>1, <1>2, <1>3, <1>5, <2>2, CountedLess
  <2>4. TypesOK'
    <3>1. agenda' \in [Threads -> Seq(Ops)]
      BY <1>0, <1>10, AgendaAfter
    <3> QED BY <1>0, <1>1, <1>9, <1>10, <3>1 DEF TypesOK
  <2>5. WaitsPending'
    BY <1>0, <1>1, <1>10 DEF WaitsPending
  <2>6. ToCome' \subseteq ToCome /\ Owed' \subseteq Owed
    BY <1>10, <2>1
  <2> HIDE DEF h
  <2> QED BY <1>7, <1>8, <1>10, <2>3, <2>4, <2>5, <2>6, MoveInv
<1> HIDE DEF h
<1>11. CASE count[f] = 1
  <2>1. PICK X : X = actions[f]
    OBVIOUS
  <2>2. X \in Seq(Payloads) /\ Once(X)
    BY <1>0, <1>3, <2>1 DEF TypesOK, OnceEach
  <2>3. X \in Seq(Ops) /\ Sound(X) /\ TakenByOps(X) = {}
    BY <2>2, PayloadSeq
  <2>4. /\ agenda' = [agenda EXCEPT ![a] = X \o Tail(@)]
        /\ actions' = [actions EXCEPT ![f] = <<>>]
    BY <1>b, <1>11, <2>1
  <2>5. AgendaStep(a, X) /\ Rest(a) = Tail(agenda[a])
    BY <1>0, <1>1, <2>3, <2>4, DropHead
  <2> DEFINE q == <<"actions", f>>
             r == <<"agenda", a>>
  <2>6. q \in Places /\ r \in Places /\ q # r
    BY <1>3, PlaceKinds
  <2>7. /\ Holds[q] = OwedByOps(X) /\ Holds'[q] = {} /\ Holds[r] = OwedByOps(agenda[a])
    <3>1. actions'[f] = <<>>
      BY <1>0, <1>3, <2>4 DEF TypesOK
    <3> QED BY <1>3, <2>1, <3>1, HoldsNow, HoldsNext, NoOps
  <2>8. \A p \in Places : p # q /\ p # r => Holds'[p] = Holds[p]
    <3>1. SUFFICES ASSUME NEW p \in Places, p # q, p # r PROVE Holds'[p] = Holds[p]
      OBVIOUS
    <3>2. CASE \E th \in Threads : p = <<"agenda", th>>
      BY <1>0, <2>3, <2>5, <3>1, <3>2, AgendaAfter, PlacesSame
    <3>3. CASE \E g \in Flows : p = <<"actions", g>>
      <4>1. PICK g \in Flows : p = <<"actions", g>>
        BY <3>3
      <4>2. actions'[g] = actions[g]
        BY <1>0, <2>4, <3>1, <4>1 DEF TypesOK
      <4> QED BY <4>1, <4>2, PlacesSame
    <3>4. CASE \/ \E c \in Users : p = <<"use", c>>
               \/ p = <<"callables", Main>>
      BY <1>1, <1>7, <3>4, PlacesSame
    <3> QED BY <3>2, <3>3, <3>4, PlaceKinds
  <2> HIDE DEF q
  <2>9. Holds[q] \cap Holds[r] = {}
    BY <1>0, <2>6 DEF OwedApart
  <2>10. PICK G : G = {x}
    OBVIOUS
  <2>11. /\ G \subseteq OwedByOps(agenda[a])
         /\ Holds'[q] \cap (OwedByOps(X) \cup OwedByOps(Rest(a))) = {}
         /\ Holds'[q] \cup OwedByOps(X) \cup OwedByOps(Rest(a))
              = (Holds[q] \cup OwedByOps(agenda[a])) \ G
    BY <1>6, <2>5, <2>7, <2>9, <2>10
  <2>12. OwedApart' /\ Owed' = Owed \ G
    BY <1>0, <2>3, <2>5, <2>6, <2>8, <2>11, MoveBetween
  <2>13. OwedByOps(X) \cap OwedByOps(Rest(a)) = {}
    BY <1>6, <2>5, <2>7, <2>9
  <2>14. (\A g \in Flows : Once(actions'[g])) /\ actions' \in [Flows -> Seq(Payloads)]
    <3>1. <<>> \in Seq(Payloads)
      OBVIOUS
    <3>2. PICK z : z = <<>>
      OBVIOUS
    <3>3. z \in Seq(Payloads) /\ actions' = [actions EXCEPT ![f] = z] /\ Once(z)
      BY <2>4, <3>1, <3>2, NoOps
    <3>4. actions' \in [Flows -> Seq(Payloads)]
      BY <1>0, <3>3 DEF TypesOK
    <3>5. ASSUME NEW g \in Flows PROVE Once(actions'[g])
      <4>1. CASE g = f
        BY <1>0, <3>3, <4>1 DEF TypesOK
      <4>2. CASE g # f
        <5>1. actions'[g] = actions[g]
          BY <1>0, <3>3, <4>2 DEF TypesOK
        <5> QED BY <1>0, <5>1 DEF OnceEach
      <4> QED BY <4>1, <4>2
    <3> QED BY <3>4, <3>5
  <2> QED BY <1>10, <2>3, <2>5, <2>10, <2>12, <2>13, <2>14
<1>12. CASE count[f] # 1
  <2>1. agenda' = [agenda EXCEPT ![a] = Tail(@)] /\ actions' = actions
    BY <1>c, <1>12
  <2>2. AgendaStep(a, <<>>) /\ Rest(a) = Tail(agenda[a])
    BY <1>0, <1>1, <2>1, OnlyDropHead
  <2>3. PICK X : X = <<>>
    OBVIOUS
  <2>4. PICK G : G = {x}
    OBVIOUS
  <2>5. X \in Seq(Ops) /\ Sound(X) /\ OwedByOps(X) = {} /\ TakenByOps(X) = {} /\ AgendaStep(a, X)
    BY <2>2, <2>3, NothingPut
  <2>6. G \subseteq OwedByOps(agenda[a])
        /\ OwedByOps(X) \cup OwedByOps(Rest(a)) = OwedByOps(agenda[a]) \ G
    BY <1>6, <2>2, <2>4, <2>5
  <2>7. OwedApart' /\ Owed' = Owed \ G
    BY <1>0, <1>1, <1>7, <2>1, <2>5, <2>6, MoveAlone
  <2>8. (\A g \in Flows : Once(actions'[g])) /\ actions' \in [Flows -> Seq(Payloads)]
    BY <1>0, <2>1 DEF TypesOK, OnceEach
  <2>9. OwedByOps(X) \cap OwedByOps(Rest(a)) = {}
    BY <2>5
  <2> QED BY <1>10, <2>4, <2>5, <2>7, <2>8, <2>9
<1> QED BY <1>11, <1>12

\* No count, use or task changes.
Standing == captures' = captures /\ use' = use /\ kind' = kind /\ status' = status
              /\ count' = count /\ need' = need

\* What is owed moves from one place to another.
LEMMA QuietMove ==
  ASSUME Inv, Standing, NEW a \in Threads, NEW X \in Seq(Ops), AgendaStep(a, X), Sound(X),
         TakenByOps(X) = {}, agenda[a] = <<>> \/ Head(agenda[a]).do # "increment",
         OwedByOps(X) \cap OwedByOps(Rest(a)) = {}, OwedApart', Owed' = Owed,
         actions' \in [Flows -> Seq(Payloads)], \A g \in Flows : Once(actions'[g]),
         callables' \in SUBSET {op \in Payloads : op.do = "decrement"}
  PROVE  Inv'
<1>0. /\ TypesOK /\ WaitsPending /\ Anchors /\ TakenApart /\ OwedApart /\ OnceEach /\ Counted
  BY DEF Inv
<1>1. ToCome' = ToCome
  BY <1>0, ToComeSame
<1>2. Outstanding' = Outstanding
  BY <1>1 DEF Outstanding
<1>3. Counted'
  BY <1>0, <1>2, CountedSame DEF Standing
<1>4. TypesOK'
  <2>1. agenda' \in [Threads -> Seq(Ops)]
    BY <1>0, AgendaAfter
  <2> QED BY <1>0, <2>1 DEF TypesOK, Standing
<1>5. WaitsPending'
  BY <1>0 DEF WaitsPending, Standing
<1>6. UsesKept
  BY UseOwesSame DEF Standing
<1>7. NothingNew
  BY DEF NothingNew, Standing
<1>8. ToCome' \subseteq ToCome /\ Owed' \subseteq Owed
  BY <1>1
<1> QED BY <1>3, <1>4, <1>5, <1>6, <1>7, <1>8, MoveInv

\* An action is attached to a flow, or runs at once when the flow is ready.
LEMMA AttachInv ==
  ASSUME Inv, NEW a \in Threads, DoAttach(a) PROVE Inv'
<1> DEFINE h == Head(agenda[a])
<1>0. /\ TypesOK /\ WaitsPending /\ Anchors /\ TakenApart /\ OwedApart /\ OnceEach /\ Counted
  BY DEF Inv
<1>1. /\ agenda[a] # <<>> /\ h.do = "attach"
      /\ count' = count /\ use' = use /\ captures' = captures /\ kind' = kind
      /\ status' = status /\ need' = need /\ callables' = callables
  BY DEF DoAttach, IsNext
<1>2. PICK act, f : act = h.action /\ f = h.counter
  OBVIOUS
<1>3. h \in Ops /\ act \in Payloads /\ f \in Flows
  BY <1>1, <1>2, HeadFacts, OpKinds
<1>4. act \in Ops /\ OwedByOp(h) = OwedByOp(act) /\ act.do # "increment" /\ act.do # "register"
  <2>1. act \in Ops /\ act.do \in {"decrement", "enqueue", "satisfy"}
    BY <1>3, PayloadsAreOps DEF Payloads
  <2> QED BY <1>1, <1>2, <2>1 DEF OwedByOp
<1>5. PICK one : one = <<act>>
  OBVIOUS
<1>6. /\ one \in Seq(Payloads) /\ one \in Seq(Ops) /\ Sound(one) /\ TakenByOps(one) = {}
      /\ OwedByOps(one) = OwedByOp(h) /\ Once(one)
  <2>1. one \in Seq(Payloads)
    BY <1>3, <1>5
  <2>2. Once(one) /\ OwedByOps(one) = OwedByOp(h)
    BY <1>4, <1>5, SingleOps
  <2> QED BY <2>1, <2>2, PayloadSeq
<1>7. /\ OwedByOps(agenda[a]) = OwedByOp(h) \cup OwedByOps(Tail(agenda[a]))
      /\ OwedByOp(h) \cap OwedByOps(Tail(agenda[a])) = {}
  BY <1>1, HeadFacts
<1>8. (\A c \in Users : UseOwes(c)' = UseOwes(c)) /\ UsesKept
  BY <1>1, UseOwesSame
<1>a. h.do # "increment"
  BY <1>1
<1>b. count[f] = 0 => agenda' = [agenda EXCEPT ![a] = one \o Tail(@)] /\ actions' = actions
  BY <1>2, <1>5 DEF DoAttach
<1>c. count[f] # 0 => agenda' = [agenda EXCEPT ![a] = Tail(@)]
                      /\ actions' = [actions EXCEPT ![f] = Append(@, act)]
  BY <1>2 DEF DoAttach
<1>9. Standing /\ callables' \in SUBSET {op \in Payloads : op.do = "decrement"}
  BY <1>0, <1>1 DEF TypesOK, Standing
<1>10. PICK G, none : G = {} /\ none = <<>>
  OBVIOUS
<1>11. CASE count[f] = 0
  <2>1. agenda' = [agenda EXCEPT ![a] = one \o Tail(@)] /\ actions' = actions
    BY <1>b, <1>11
  <2>2. AgendaStep(a, one) /\ Rest(a) = Tail(agenda[a])
    BY <1>0, <1>1, <1>6, <2>1, DropHead
  <2>3. G \subseteq OwedByOps(agenda[a])
        /\ OwedByOps(one) \cup OwedByOps(Rest(a)) = OwedByOps(agenda[a]) \ G
    BY <1>6, <1>7, <1>10, <2>2
  <2>4. OwedApart' /\ Owed' = Owed \ G
    BY <1>0, <1>1, <1>6, <1>8, <2>1, <2>2, <2>3, MoveAlone
  <2>5. Owed' = Owed
    BY <1>10, <2>4
  <2>6. (\A g \in Flows : Once(actions'[g])) /\ actions' \in [Flows -> Seq(Payloads)]
    BY <1>0, <2>1 DEF TypesOK, OnceEach
  <2>7. OwedByOps(one) \cap OwedByOps(Rest(a)) = {}
    BY <1>6, <1>7, <2>2
  <2> HIDE DEF h
  <2> QED BY <1>6, <1>9, <1>a, <2>2, <2>4, <2>5, <2>6, <2>7, QuietMove DEF h
<1>12. CASE count[f] # 0
  <2>1. agenda' = [agenda EXCEPT ![a] = Tail(@)]
        /\ actions' = [actions EXCEPT ![f] = Append(@, act)]
    BY <1>c, <1>12
  <2>2. AgendaStep(a, none) /\ Rest(a) = Tail(agenda[a])
    BY <1>0, <1>1, <1>10, <2>1, OnlyDropHead
  <2>3. none \in Seq(Ops) /\ Sound(none) /\ OwedByOps(none) = {} /\ TakenByOps(none) = {}
    BY <1>10, NothingPut
  <2>4. PICK old : old = actions[f]
    OBVIOUS
  <2>5. old \in Seq(Payloads) /\ old \in Seq(Ops) /\ Once(old)
    BY <1>0, <1>3, <2>4, ActionsAreOps DEF TypesOK, OnceEach
  <2>6. PICK new : new = old \o one
    OBVIOUS
  <2>7. new \in Seq(Payloads) /\ Append(old, act) = new
    BY <1>3, <1>5, <1>6, <2>5, <2>6
  <2>8. actions' = [actions EXCEPT ![f] = new]
    BY <2>1, <2>4, <2>7
  <2>9. actions' \in [Flows -> Seq(Payloads)] /\ actions'[f] = new
    BY <1>0, <1>3, <2>7, <2>8 DEF TypesOK
  <2>10. OwedByOps(new) = OwedByOps(old) \cup OwedByOp(h)
    BY <1>6, <2>5, <2>6, ConcatOps
  <2> DEFINE q == <<"actions", f>>
             r == <<"agenda", a>>
  <2>11. q \in Places /\ r \in Places /\ q # r
    BY <1>3, PlaceKinds
  <2>12. Holds[q] = OwedByOps(old) /\ Holds'[q] = OwedByOps(new) /\ Holds[r] = OwedByOps(agenda[a])
    BY <1>3, <2>4, <2>9, HoldsNow, HoldsNext
  <2>13. \A p \in Places : p # q /\ p # r => Holds'[p] = Holds[p]
    <3>1. SUFFICES ASSUME NEW p \in Places, p # q, p # r PROVE Holds'[p] = Holds[p]
      OBVIOUS
    <3>2. CASE \E th \in Threads : p = <<"agenda", th>>
      BY <1>0, <2>2, <2>3, <3>1, <3>2, AgendaAfter, PlacesSame
    <3>3. CASE \E g \in Flows : p = <<"actions", g>>
      <4>1. PICK g \in Flows : p = <<"actions", g>>
        BY <3>3
      <4>2. actions'[g] = actions[g]
        BY <1>0, <2>8, <3>1, <4>1 DEF TypesOK
      <4> QED BY <4>1, <4>2, PlacesSame
    <3>4. CASE \/ \E c \in Users : p = <<"use", c>>
               \/ p = <<"callables", Main>>
      BY <1>1, <1>8, <3>4, PlacesSame
    <3> QED BY <3>2, <3>3, <3>4, PlaceKinds
  <2> HIDE DEF q
  <2>14. Holds[q] \cap Holds[r] = {}
    BY <1>0, <2>11 DEF OwedApart
  <2>15. /\ G \subseteq OwedByOps(agenda[a])
         /\ Holds'[q] \cap (OwedByOps(none) \cup OwedByOps(Rest(a))) = {}
         /\ Holds'[q] \cup OwedByOps(none) \cup OwedByOps(Rest(a))
              = (Holds[q] \cup OwedByOps(agenda[a])) \ G
    <3> HIDE DEF h, r
    <3> QED BY <1>7, <1>10, <2>2, <2>3, <2>10, <2>12, <2>14
  <2>16. OwedApart' /\ Owed' = Owed \ G
    BY <1>0, <2>2, <2>3, <2>11, <2>13, <2>15, MoveBetween
  <2>17. Owed' = Owed
    BY <1>10, <2>16
  <2>18. ASSUME NEW g \in Flows PROVE Once(actions'[g])
    <3>1. CASE g = f
      <4>1. OwedByOps(old) \cap OwedByOps(one) = {}
        BY <1>6, <1>7, <2>12, <2>14
      <4>2. Once(new)
        BY <1>6, <2>5, <2>6, <4>1, ConcatOnce
      <4> QED BY <2>9, <3>1, <4>2
    <3>2. CASE g # f
      <4>1. actions'[g] = actions[g]
        BY <1>0, <2>8, <3>2 DEF TypesOK
      <4> QED BY <1>0, <4>1 DEF OnceEach
    <3> QED BY <3>1, <3>2
  <2>19. OwedByOps(none) \cap OwedByOps(Rest(a)) = {}
    BY <2>3
  <2> HIDE DEF h
  <2> QED BY <1>9, <1>a, <2>2, <2>3, <2>9, <2>16, <2>17, <2>18, <2>19, QuietMove DEF h
<1> QED BY <1>11, <1>12

\* The callable on a ready queue owes what was to be enqueued.
LEMMA DecrementOfPayload ==
  ASSUME NEW op \in Payloads, op.do = "enqueue" \/ op.do = "decrement"
  PROVE  /\ Decrement(op.counter, op.unit) \in {o \in Payloads : o.do = "decrement"}
         /\ OwedByOp(Decrement(op.counter, op.unit)) = OwedByOp(op)
         /\ op.do = "decrement" => Decrement(op.counter, op.unit) = op
<1>1. op.counter \in Flows /\ op.unit \in FlowUnits
  BY PayloadsAreOps, OpKinds
<1>2. OwedByOp(op) = {<<op.unit, op.counter>>}
  BY DEF OwedByOp
<1>3. op.do = "decrement" => Decrement(op.counter, op.unit) = op
  BY DEF Payloads, Decrement
<1> QED BY <1>1, <1>2, <1>3, DecrementOp

\* when_ready_do moves its decrement to a ready queue.
LEMMA EnqueueInv ==
  ASSUME Inv, NEW a \in Threads, DoEnqueue(a) PROVE Inv'
<1> DEFINE h == Head(agenda[a])
<1>0. /\ TypesOK /\ WaitsPending /\ Anchors /\ TakenApart /\ OwedApart /\ OnceEach /\ Counted
  BY DEF Inv
<1>1. /\ agenda[a] # <<>> /\ h.do = "enqueue"
      /\ callables' = callables \cup {Decrement(h.counter, h.unit)}
      /\ agenda' = [agenda EXCEPT ![a] = Tail(@)]
      /\ count' = count /\ use' = use /\ captures' = captures /\ kind' = kind
      /\ status' = status /\ need' = need /\ actions' = actions
  BY DEF DoEnqueue, IsNext
<1>2. PICK d : d = Decrement(h.counter, h.unit)
  OBVIOUS
<1>3. h \in Payloads
  BY <1>1, HeadFacts, OpKinds
<1>4. d \in {o \in Payloads : o.do = "decrement"} /\ OwedByOp(d) = OwedByOp(h)
  BY <1>1, <1>2, <1>3, DecrementOfPayload
<1>7. /\ OwedByOps(agenda[a]) = OwedByOp(h) \cup OwedByOps(Tail(agenda[a]))
      /\ OwedByOp(h) \cap OwedByOps(Tail(agenda[a])) = {}
  BY <1>1, HeadFacts
<1>8. (\A c \in Users : UseOwes(c)' = UseOwes(c)) /\ UsesKept
  BY <1>1, UseOwesSame
<1>a. h.do # "increment"
  BY <1>1
<1>b. callables' = callables \cup {d}
  BY <1>1, <1>2
<1>9. Standing /\ callables' \in SUBSET {op \in Payloads : op.do = "decrement"}
  BY <1>0, <1>1, <1>4, <1>b DEF TypesOK, Standing
<1>10. PICK G, none : G = {} /\ none = <<>>
  OBVIOUS
<1>11. AgendaStep(a, none) /\ Rest(a) = Tail(agenda[a])
  BY <1>0, <1>1, <1>10, OnlyDropHead
<1>12. none \in Seq(Ops) /\ Sound(none) /\ OwedByOps(none) = {} /\ TakenByOps(none) = {}
  BY <1>10, NothingPut
<1> DEFINE q == <<"callables", Main>>
           r == <<"agenda", a>>
<1>13. q \in Places /\ r \in Places /\ q # r
  BY PlaceKinds
<1>14. CallablesOwe' = CallablesOwe \cup OwedByOp(h)
  <2>1. CallablesOwe' = UNION {OwedByOp(op) : op \in callables \cup {d}}
    BY <1>b DEF CallablesOwe
  <2> QED BY <1>4, <2>1 DEF CallablesOwe
<1>15. Holds[q] = CallablesOwe /\ Holds'[q] = CallablesOwe' /\ Holds[r] = OwedByOps(agenda[a])
  BY HoldsNow, HoldsNext
<1>16. \A p \in Places : p # q /\ p # r => Holds'[p] = Holds[p]
  <3>1. SUFFICES ASSUME NEW p \in Places, p # q, p # r PROVE Holds'[p] = Holds[p]
    OBVIOUS
  <3>2. CASE \E th \in Threads : p = <<"agenda", th>>
    BY <1>0, <1>11, <1>12, <3>1, <3>2, AgendaAfter, PlacesSame
  <3>4. CASE \/ \E c \in Users : p = <<"use", c>>
             \/ \E g \in Flows : p = <<"actions", g>>
    BY <1>1, <1>8, <3>4, PlacesSame
  <3> QED BY <3>1, <3>2, <3>4, PlaceKinds
<1> HIDE DEF q
<1>17. Holds[q] \cap Holds[r] = {}
  BY <1>0, <1>13 DEF OwedApart
<1>18. /\ G \subseteq OwedByOps(agenda[a])
       /\ Holds'[q] \cap (OwedByOps(none) \cup OwedByOps(Rest(a))) = {}
       /\ Holds'[q] \cup OwedByOps(none) \cup OwedByOps(Rest(a))
            = (Holds[q] \cup OwedByOps(agenda[a])) \ G
  <2> HIDE DEF h, r
  <2> QED BY <1>7, <1>10, <1>11, <1>12, <1>14, <1>15, <1>17
<1>19. OwedApart' /\ Owed' = Owed \ G
  BY <1>0, <1>11, <1>12, <1>13, <1>16, <1>18, MoveBetween
<1>20. Owed' = Owed
  BY <1>10, <1>19
<1>21. (\A g \in Flows : Once(actions'[g])) /\ actions' \in [Flows -> Seq(Payloads)]
  BY <1>0, <1>1 DEF TypesOK, OnceEach
<1>22. OwedByOps(none) \cap OwedByOps(Rest(a)) = {}
  BY <1>12
<1> HIDE DEF h
<1> QED BY <1>9, <1>a, <1>11, <1>12, <1>19, <1>20, <1>21, <1>22, QuietMove DEF h

\* A dependency of a task is satisfied, and the last one makes it ready.
LEMMA SatisfyInv ==
  ASSUME Inv, NEW a \in Threads, DoSatisfy(a) PROVE Inv'
<1> DEFINE h == Head(agenda[a])
<1>0. /\ TypesOK /\ WaitsPending /\ Anchors /\ TakenApart /\ OwedApart /\ OnceEach /\ Counted
  BY DEF Inv
<1>1. /\ agenda[a] # <<>> /\ h.do = "satisfy"
      /\ agenda' = [agenda EXCEPT ![a] = Tail(@)]
      /\ count' = count /\ use' = use /\ captures' = captures /\ kind' = kind
      /\ actions' = actions /\ callables' = callables
  BY DEF DoSatisfy, IsNext
<1>2. PICK unit, t : unit = h.unit /\ t = h.counter
  OBVIOUS
<1>3. h \in Ops /\ unit \in WaitUnits /\ t \in Tasks
  BY <1>1, <1>2, HeadFacts, OpKinds
<1>a. h.do # "increment" /\ need' = [need EXCEPT ![t] = @ - 1]
      /\ status' = IF need[t] = 1 THEN [status EXCEPT ![t] = "ready"] ELSE status
  BY <1>1, <1>2 DEF DoSatisfy
<1>4. OwedByOp(h) = {<<unit, t>>}
  BY <1>1, <1>2 DEF OwedByOp
<1>5. PICK x, G, X : x = <<unit, t>> /\ G = {x} /\ X = <<>>
  OBVIOUS
<1>6. /\ OwedByOps(agenda[a]) = {x} \cup OwedByOps(Tail(agenda[a]))
      /\ x \notin OwedByOps(Tail(agenda[a])) /\ x \in Owed /\ x \notin ToCome
  BY <1>1, <1>4, <1>5, HeadFacts
<1>b. x[1] = unit /\ x[2] = t
  BY <1>5
<1>7. status[t] = "pending" /\ t \in Users
  BY <1>0, <1>3, <1>6, <1>b, UsersRun DEF WaitsPending
<1>8. \A c \in Users : status'[c] = status[c] \/ (status[c] \in Live /\ status'[c] \in Live)
  BY <1>0, <1>a, <1>7 DEF TypesOK, Live
<1>9. (\A c \in Users : UseOwes(c)' = UseOwes(c)) /\ UsesKept
  BY <1>1, <1>8, UseOwesSame
<1>10. NothingNew
  <2>1. \A c \in Users : /\ status'[c] = "unregistered" <=> status[c] = "unregistered"
                         /\ status[c] = "done" => status'[c] = "done"
    BY <1>8 DEF Live
  <2> QED BY <1>1, <2>1 DEF NothingNew
<1>11. AgendaStep(a, X) /\ Rest(a) = Tail(agenda[a])
  BY <1>0, <1>1, <1>5, OnlyDropHead
<1>12. X \in Seq(Ops) /\ Sound(X) /\ OwedByOps(X) = {} /\ TakenByOps(X) = {}
  BY <1>5, NothingPut
<1>13. G \subseteq OwedByOps(agenda[a])
       /\ OwedByOps(X) \cup OwedByOps(Rest(a)) = OwedByOps(agenda[a]) \ G
  BY <1>5, <1>6, <1>11, <1>12
<1>14. OwedApart' /\ Owed' = Owed \ G
  BY <1>0, <1>1, <1>9, <1>11, <1>12, <1>13, MoveAlone
<1>15. ToCome' = ToCome
  <2>1. ToCome' = ToCome \cup TakenByOps(X)
    BY <1>0, <1>a, <1>11, <1>12, ToComeSame
  <2> QED BY <1>12, <2>1
<1>16. x \in Outstanding /\ Outstanding' = Outstanding \ {x}
  BY <1>5, <1>6, <1>14, <1>15 DEF Outstanding
<1>17. Counted' /\ need[t] > 0 /\ (need[t] = 1 => WaitShare(Outstanding', t) = {})
  BY <1>0, <1>1, <1>a, <1>3, <1>5, <1>16, WaitedLess
<1>18. TypesOK'
  <2>1. agenda' \in [Threads -> Seq(Ops)]
    BY <1>0, <1>11, <1>12, AgendaAfter
  <2>2. need[t] - 1 \in Nat
    BY <1>0, <1>3, <1>17 DEF TypesOK
  <2>3. need' = [need EXCEPT ![t] = need[t] - 1]
    BY <1>a
  <2>4. need' \in [Tasks -> Nat]
    BY <1>0, <2>2, <2>3 DEF TypesOK
  <2>5. status' \in [Users -> {"unregistered", "pending", "ready", "running", "done"}]
    BY <1>0, <1>a DEF TypesOK
  <2> QED BY <1>0, <1>1, <2>1, <2>4, <2>5 DEF TypesOK
<1>19. WaitsPending'
  <2>1. SUFFICES ASSUME NEW y \in Owed', y[1] \in WaitUnits PROVE status'[y[2]] = "pending"
    BY DEF WaitsPending
  <2>2. y \in Owed /\ y \in Tokens /\ y \notin ToCome
    <3>1. y \in Owed
      BY <1>14, <2>1
    <3>2. y \in Tokens
      BY <1>0, <3>1, OwedTokens
    <3> QED BY <1>0, <2>1, <3>1, <3>2, UnitsApart, ToComeTyped
  <2>3. y \in Outstanding' /\ status[y[2]] = "pending"
    BY <1>0, <1>15, <2>1, <2>2 DEF Outstanding, WaitsPending
  <2>4. need[t] = 1 => y[2] # t
    BY <1>17, <2>1, <2>3 DEF WaitShare
  <2>5. y[2] \in Users
    BY <2>1, <2>2, TokenKinds, UsersRun
  <2> QED BY <1>0, <1>a, <2>3, <2>4, <2>5 DEF TypesOK
<1>20. \A g \in Flows : Once(actions'[g])
  BY <1>0, <1>1 DEF OnceEach
<1>21. ToCome' \subseteq ToCome /\ Owed' \subseteq Owed /\ OwedByOps(X) \cap OwedByOps(Rest(a)) = {}
  BY <1>12, <1>14, <1>15
<1> HIDE DEF h
<1> QED BY <1>9, <1>10, <1>11, <1>12, <1>14, <1>17, <1>18, <1>19, <1>20, <1>21, MoveInv

\* After the last index the use of the whole collection is released.
LEMMA RegisterLastInv ==
  ASSUME Inv, NEW a \in Threads, DoRegister(a), Head(agenda[a]).index > Indices PROVE Inv'
<1> DEFINE h == Head(agenda[a])
<1>0. /\ TypesOK /\ WaitsPending /\ Anchors /\ TakenApart /\ OwedApart /\ OnceEach /\ Counted
      /\ RegistersOK
  BY DEF Inv
<1>1. /\ agenda[a] # <<>> /\ h.do = "register"
      /\ agenda' = [agenda EXCEPT ![a] = ReleaseUse(h.use) \o Tail(@)]
      /\ count' = count /\ use' = use /\ captures' = captures /\ kind' = kind
      /\ actions' = actions /\ callables' = callables /\ status' = status /\ need' = need
  BY DEF DoRegister, IsNext
<1>2. h \in Ops /\ h.use \in Uses /\ ~h.use.establishes_alias
  <2>1. h \in Ops /\ h.use \in Uses
    BY <1>1, HeadFacts, OpKinds
  <2>2. h \in Registers(agenda[a])
    BY <1>0, <1>1, RegistersTail DEF TypesOK
  <2>3. GoodRegister(h)
    BY <1>0, <2>2 DEF RegistersOK
  <2> QED BY <2>1, <2>3 DEF GoodRegister
<1>a. h.do # "increment"
  BY <1>1
<1>3. PICK u, X, G : u = h.use /\ X = ReleaseUse(u) /\ G = {}
  OBVIOUS
<1>4. u \in Uses /\ ~u.establishes_alias /\ OwedByOp(h) = OwedByUse(u)
  BY <1>1, <1>2, <1>3 DEF OwedByOp
<1>5. X \in Seq(Ops) /\ Sound(X) /\ OwedByOps(X) = OwedByUse(u) /\ TakenByOps(X) = {}
  <2>1. PICK rest : /\ ReleaseUse(u) = <<>> \o rest /\ Sound(rest)
                    /\ OwedByOps(rest) = OwedByUse(u) /\ TakenByOps(rest) = {}
    <3> DEFINE rest == (IF u.anti_dependency THEN <<>> ELSE DecrementOf(u, "anti_in"))
                         \o DecrementOf(u, "out") \o DecrementOf(u, "anti_out")
    <3>1. ReleaseUse(u) = <<>> \o rest
      BY <1>4 DEF ReleaseUse
    <3>2. Sound(rest) /\ OwedByOps(rest) = OwedByUse(u) /\ TakenByOps(rest) = {}
      BY <1>4, Releasing
    <3> HIDE DEF rest
    <3> QED BY <3>1, <3>2
  <2>2. rest \in Seq(Ops)
    BY <2>1 DEF Sound
  <2>3. <<>> \o rest = rest
    BY <2>2
  <2> QED BY <1>3, <2>1, <2>2, <2>3
<1>7. /\ OwedByOps(agenda[a]) = OwedByOp(h) \cup OwedByOps(Tail(agenda[a]))
      /\ OwedByOp(h) \cap OwedByOps(Tail(agenda[a])) = {}
  BY <1>1, HeadFacts
<1>8. (\A c \in Users : UseOwes(c)' = UseOwes(c)) /\ UsesKept
  BY <1>1, UseOwesSame
<1>9. Standing /\ callables' \in SUBSET {op \in Payloads : op.do = "decrement"}
  BY <1>0, <1>1 DEF TypesOK, Standing
<1>10. agenda' = [agenda EXCEPT ![a] = X \o Tail(@)]
  BY <1>1, <1>3
<1>11. AgendaStep(a, X) /\ Rest(a) = Tail(agenda[a])
  BY <1>0, <1>1, <1>5, <1>10, DropHead
<1> HIDE DEF h
<1>12. G \subseteq OwedByOps(agenda[a])
       /\ OwedByOps(X) \cup OwedByOps(Rest(a)) = OwedByOps(agenda[a]) \ G
  BY <1>3, <1>4, <1>5, <1>7, <1>11
<1>13. OwedApart' /\ Owed' = Owed \ G
  BY <1>0, <1>1, <1>5, <1>8, <1>11, <1>12, MoveAlone
<1>14. Owed' = Owed
  BY <1>3, <1>13
<1>15. (\A g \in Flows : Once(actions'[g])) /\ actions' \in [Flows -> Seq(Payloads)]
  BY <1>0, <1>1 DEF TypesOK, OnceEach
<1>16. OwedByOps(X) \cap OwedByOps(Rest(a)) = {}
  BY <1>4, <1>5, <1>7, <1>11
<1> QED BY <1>a, <1>5, <1>9, <1>11, <1>13, <1>14, <1>15, <1>16, QuietMove DEF h

\* A worker takes a callable off a ready queue.
LEMMA RunCallableInv ==
  ASSUME Inv, NEW w \in Helpers, RunCallable(w) PROVE Inv'
<1>0. /\ TypesOK /\ WaitsPending /\ Anchors /\ TakenApart /\ OwedApart /\ OnceEach /\ Counted
  BY DEF Inv
<1>1. /\ agenda[w] = <<>>
      /\ count' = count /\ use' = use /\ captures' = captures /\ kind' = kind
      /\ actions' = actions /\ status' = status /\ need' = need
  BY DEF RunCallable
<1>2. PICK op \in callables : callables' = callables \ {op} /\ agenda' = [agenda EXCEPT ![w] = <<op>>]
  BY DEF RunCallable
<1>3. w \in Threads
  BY DEF Helpers, Threads
<1>4. /\ op \in Payloads /\ op.do = "decrement" /\ op \in Ops
      /\ \A o \in callables : o \in Payloads /\ o.do = "decrement"
  BY <1>0, <1>2, PayloadsAreOps DEF TypesOK
<1>5. PICK X, G : X = <<op>> /\ G = {}
  OBVIOUS
<1>6. X \in Seq(Ops) /\ Sound(X) /\ OwedByOps(X) = OwedByOp(op) /\ TakenByOps(X) = {}
  <2>1. X \in Seq(Payloads)
    BY <1>4, <1>5
  <2>2. Once(X) /\ OwedByOps(X) = OwedByOp(op)
    BY <1>4, <1>5, SingleOps
  <2> QED BY <2>1, <2>2, PayloadSeq
<1>7. Rest(w) = <<>>
  BY <1>1 DEF Rest
<1>8. AgendaStep(w, X)
  <2>1. X \o <<>> = X
    BY <1>6
  <2> QED BY <1>2, <1>5, <1>7, <2>1 DEF AgendaStep
<1>9. OwedByOps(Rest(w)) = {} /\ OwedByOps(agenda[w]) = {}
  BY <1>1, <1>7, NoOps
<1>10. (\A c \in Users : UseOwes(c)' = UseOwes(c)) /\ UsesKept
  BY <1>1, UseOwesSame
<1>11. Standing /\ callables' \in SUBSET {o \in Payloads : o.do = "decrement"}
  BY <1>0, <1>1, <1>2 DEF TypesOK, Standing
<1> DEFINE q == <<"callables", Main>>
           r == <<"agenda", w>>
<1>13. q \in Places /\ r \in Places /\ q # r
  BY <1>3, PlaceKinds
<1>14. \A o \in callables : o # op => OwedByOp(o) \cap OwedByOp(op) = {}
  <2>1. \A o \in Payloads : o.do = "decrement" => OwedByOp(o) = {<<o.unit, o.counter>>}
    BY DEF OwedByOp
  <2>2. \A o \in Payloads : o.do = "decrement" => o = Decrement(o.counter, o.unit)
    BY DEF Payloads, Decrement
  <2>3. ASSUME NEW o \in callables, o # op, OwedByOp(o) \cap OwedByOp(op) # {} PROVE FALSE
    <3>1. <<o.unit, o.counter>> = <<op.unit, op.counter>>
      BY <1>4, <2>1, <2>3
    <3>2. o.unit = op.unit /\ o.counter = op.counter
      BY <3>1
    <3>3. o = Decrement(o.counter, o.unit) /\ op = Decrement(op.counter, op.unit)
      BY <1>4, <2>2
    <3> QED BY <2>3, <3>2, <3>3
  <2> QED BY <2>3
<1>15. CallablesOwe' = CallablesOwe \ OwedByOp(op) /\ OwedByOp(op) \subseteq CallablesOwe
  <2>1. CallablesOwe' = UNION {OwedByOp(o) : o \in callables \ {op}}
    BY <1>2 DEF CallablesOwe
  <2> QED BY <1>14, <2>1 DEF CallablesOwe
<1>16. Holds[q] = CallablesOwe /\ Holds'[q] = CallablesOwe'
  BY HoldsNow, HoldsNext
<1>17. \A p \in Places : p # q /\ p # r => Holds'[p] = Holds[p]
  <3>1. SUFFICES ASSUME NEW p \in Places, p # q, p # r PROVE Holds'[p] = Holds[p]
    OBVIOUS
  <3>2. CASE \E th \in Threads : p = <<"agenda", th>>
    BY <1>0, <1>3, <1>6, <1>8, <3>1, <3>2, AgendaAfter, PlacesSame
  <3>4. CASE \/ \E c \in Users : p = <<"use", c>>
             \/ \E g \in Flows : p = <<"actions", g>>
    BY <1>1, <1>10, <3>4, PlacesSame
  <3> QED BY <3>1, <3>2, <3>4, PlaceKinds
<1> HIDE DEF q
<1>18. /\ G \subseteq OwedByOps(agenda[w])
       /\ Holds'[q] \cap (OwedByOps(X) \cup OwedByOps(Rest(w))) = {}
       /\ Holds'[q] \cup OwedByOps(X) \cup OwedByOps(Rest(w))
            = (Holds[q] \cup OwedByOps(agenda[w])) \ G
  BY <1>5, <1>6, <1>9, <1>15, <1>16
<1>19. OwedApart' /\ Owed' = Owed \ G
  BY <1>0, <1>3, <1>6, <1>8, <1>13, <1>17, <1>18, MoveBetween
<1>20. Owed' = Owed
  BY <1>5, <1>19
<1>21. (\A g \in Flows : Once(actions'[g])) /\ actions' \in [Flows -> Seq(Payloads)]
  BY <1>0, <1>1 DEF TypesOK, OnceEach
<1>22. OwedByOps(X) \cap OwedByOps(Rest(w)) = {}
  BY <1>9
<1> QED BY <1>1, <1>3, <1>6, <1>8, <1>11, <1>19, <1>20, <1>21, <1>22, QuietMove

\* A task that is ready starts, and owes what it owed.
LEMMA StartInv ==
  ASSUME Inv, NEW t \in Tasks, Start(t) PROVE Inv'
<1>0. /\ TypesOK /\ WaitsPending /\ Anchors /\ TakenApart /\ OwedApart /\ OnceEach /\ Counted
      /\ FreshTasks /\ UsesOK /\ RegistersOK /\ KnownIds /\ AliasIds
  BY DEF Inv
<1>1. /\ status[t] = "ready" /\ status' = [status EXCEPT ![t] = "running"]
      /\ agenda' = agenda /\ callables' = callables
      /\ count' = count /\ use' = use /\ captures' = captures /\ kind' = kind
      /\ actions' = actions /\ need' = need
  BY DEF Start
<1>2. t \in Users
  BY UsersRun
<1>3. \A c \in Users : status'[c] = status[c] \/ (status[c] \in Live /\ status'[c] \in Live)
  BY <1>0, <1>1, <1>2 DEF TypesOK, Live
<1>4. (\A c \in Users : UseOwes(c)' = UseOwes(c)) /\ UsesKept
  BY <1>1, <1>3, UseOwesSame
<1>5. NothingNew
  <2>1. \A c \in Users : /\ status'[c] = "unregistered" <=> status[c] = "unregistered"
                         /\ status[c] = "done" => status'[c] = "done"
    BY <1>3 DEF Live
  <2> QED BY <1>1, <2>1 DEF NothingNew
<1>6. \A p \in Places : Holds'[p] = Holds[p]
  BY <1>1, <1>4, PlaceKinds, PlacesSame
<1>7. OwedApart' /\ Owed' = Owed
  <2>1. OwedApart'
    BY <1>0, <1>6 DEF OwedApart
  <2>2. Owed' = UNION {Holds'[p] : p \in Places}
    BY HoldsNext
  <2>3. Owed = UNION {Holds[p] : p \in Places}
    BY HoldsNow
  <2> QED BY <1>6, <2>1, <2>2, <2>3
<1>8. ToCome' = ToCome
  BY <1>1 DEF ToCome
<1>9. Counted'
  <2>1. Outstanding' = Outstanding
    BY <1>7, <1>8 DEF Outstanding
  <2> QED BY <1>0, <1>1, <2>1, CountedSame
<1>10. FreshTasks' /\ UsesOK' /\ RegistersOK' /\ KnownIds' /\ AliasIds'
  <2>1. Owed' \subseteq Owed /\ \A th \in Threads : Registers(agenda'[th]) \subseteq Registers(agenda[th])
    BY <1>1, <1>7
  <2> QED BY <1>0, <1>5, <2>1, QuietStep
<1>11. WaitsPending'
  <2>1. SUFFICES ASSUME NEW y \in Owed', y[1] \in WaitUnits PROVE status'[y[2]] = "pending"
    BY DEF WaitsPending
  <2>2. y \in Owed /\ status[y[2]] = "pending"
    BY <1>0, <1>7, <2>1 DEF WaitsPending
  <2>3. y[2] \in Users
    BY <1>0, <2>1, <2>2, OwedTokens, TokenKinds, UsersRun
  <2> QED BY <1>0, <1>1, <2>2, <2>3 DEF TypesOK
<1>12. Anchors'
  <2>1. SUFFICES ASSUME NEW th \in Threads, NEW k \in DOMAIN agenda[th], NEW unit \in FlowUnits,
                        NEW f \in Flows, agenda[th][k].do = "increment",
                        agenda[th][k].unit = unit, agenda[th][k].counter = f
                 PROVE  Anchored(th, k, <<unit, f>>)' /\ Backed(th, k, f)'
    BY <1>1 DEF Anchors, Taking
  <2>2. Anchored(th, k, <<unit, f>>) /\ Backed(th, k, f)
    BY <1>0, <2>1 DEF Anchors, Taking
  <2>3. Later(agenda'[th], k) = Later(agenda[th], k)
    BY <1>1
  <2>4. PICK F : F = {}
    OBVIOUS
  <2>5. ToCome' \subseteq ToCome \cup F /\ Fresh(F)
    BY <1>8, <2>4 DEF Fresh
  <2>6. Anchored(th, k, <<unit, f>>)'
    BY <1>0, <1>4, <2>2, <2>3, AnchoredKept
  <2>7. Backed(th, k, f)'
    BY <1>0, <1>4, <2>2, <2>3, <2>5, BackedKept
  <2> QED BY <2>6, <2>7
<1>13. TakenApart' /\ OnceEach'
  BY <1>0, <1>1 DEF TakenApart, OnceEach
<1>14. TypesOK'
  BY <1>0, <1>1 DEF TypesOK
<1> QED BY <1>7, <1>9, <1>10, <1>11, <1>12, <1>13, <1>14 DEF Inv

-----------------------------------------------------------------------------
(* Steps that add to what is owed                                           *)

\* A step that registers uses, or establishes an alias: what it adds has new units.
LEMMA GrowInv ==
  ASSUME Inv, NEW a \in Threads, NEW X \in Seq(Ops), AgendaStep(a, X), Once(X), TakenOnce(X),
         agenda[a] = <<>> \/ Head(agenda[a]).do # "increment",
         OwedByOps(X) \cap OwedByOps(Rest(a)) = {},
         TypesOK', FreshTasks', UsesOK', RegistersOK', Known \subseteq Known',
         UsesKept, actions' = actions, OwedApart', Counted',
         NEW F, Fresh(F), TakenByOps(X) \subseteq F, Owed' = Owed \cup F,
         \A x \in F : IdOfKnown(x)', \A x \in F : AliasOfDone(x)',
         \A x \in F : x[1] \in WaitUnits => status'[x[2]] = "pending",
         \A c \in Users : status[c] = "done" => status'[c] = "done" /\ use'[c].id = use[c].id,
         \A c \in Users : status[c] = "pending" => status'[c] = "pending",
         \A k \in DOMAIN X : \A unit \in FlowUnits, f \in Flows :
           X[k].do = "increment" /\ X[k].unit = unit /\ X[k].counter = f =>
             Anchored(a, k, <<unit, f>>)' /\ Backed(a, k, f)'
  PROVE  Inv'
<1>0. /\ TypesOK /\ WaitsPending /\ Anchors /\ TakenApart /\ OwedApart /\ OnceEach /\ Counted
      /\ FreshTasks /\ UsesOK /\ RegistersOK /\ KnownIds /\ AliasIds
  BY DEF Inv
<1>1. ToCome' = ToCome \cup TakenByOps(X)
  BY <1>0, ToComeSame
<1>2. ToCome' \subseteq ToCome \cup F
  BY <1>1
<1>3. Anchors'
  BY <1>0, <1>2, AnchorsAfter
<1>4. ToCome \subseteq Owed
  BY <1>0, ToComeOwed
<1>5. TakenApart'
  <2>1. Fresh(TakenByOps(X))
    BY DEF Fresh
  <2> QED BY <1>0, <1>4, <2>1, TakenApartAfter
<1>6. OnceEach'
  <2>1. Once(X \o Rest(a))
    BY <1>0, RestFacts, ConcatOnce DEF OnceEach
  <2>2. ASSUME NEW th \in Threads PROVE Once(agenda'[th])
    <3>1. CASE th = a
      <4>1. agenda'[a] = X \o Rest(a)
        BY <1>0, AgendaAfter
      <4> QED BY <2>1, <3>1, <4>1
    <3>2. CASE th # a
      <4>1. agenda'[th] = agenda[th]
        BY <1>0, <3>2, AgendaAfter
      <4> QED BY <1>0, <4>1 DEF OnceEach
    <3> QED BY <3>1, <3>2
  <2> QED BY <1>0, <2>2 DEF OnceEach
<1>7. Owed' \subseteq Owed \cup F
  OBVIOUS
<1>8. KnownIds'
  BY <1>0, <1>7, IdsAfter
<1>9. AliasIds'
  BY <1>0, <1>7, AliasesAfter
<1>10. WaitsPending'
  <2>1. \A x \in Owed : x[1] \in WaitUnits /\ status[x[2]] = "pending" /\ x \in Owed' =>
            status'[x[2]] = "pending"
    BY <1>0, OwedTokens, TokenKinds, UsersRun
  <2> QED BY <1>0, <1>7, <2>1, WaitsAfter
<1> QED BY <1>3, <1>5, <1>6, <1>8, <1>9, <1>10 DEF Inv

\* A new task has no part in what is owed.
LEMMA FreshTask ==
  ASSUME KnownIds, NEW t, t \notin Known, NEW F, \A x \in F : x[1][1][1] = t
  PROVE  Fresh(F) /\ F \cap Owed = {}
BY DEF KnownIds, Fresh

\* What comes later than an operation of X.
LEMMA LaterHere ==
  ASSUME TypesOK, NEW a \in Threads, NEW X \in Seq(Ops), AgendaStep(a, X), NEW k \in DOMAIN X
  PROVE  Later(agenda'[a], k) = Later(X, k) \cup OwedByOps(Rest(a))
<1>1. k \in Nat \ {0} /\ k <= Len(X)
  OBVIOUS
<1>2. agenda'[a] = X \o Rest(a)
  BY AgendaAfter
<1>3. Rest(a) \in Seq(Ops)
  BY RestFacts
<1> QED BY <1>1, <1>2, <1>3, LaterConcat

\* The flows of a new use start with one decrement to come each.
Starting(New) == {<<f, f>> : f \in New}

\* So each of them is counted right.
LEMMA CountedNewFlows ==
  ASSUME TypesOK, Counted, KnownIds, NEW t, t \notin Known,
         NEW New \in SUBSET Flows, \A f \in New : f[1][1] = t, NEW W, W \subseteq WaitUnits \X Tasks,
         Outstanding' = Outstanding \cup Starting(New) \cup W,
         count' = [f \in Flows |-> IF f \in New THEN 1 ELSE count[f]]
  PROVE  \A f \in Flows : count'[f] = Cardinality(FlowShare(Outstanding', f))
<1>1. PICK F : F = Starting(New) \cup W
  OBVIOUS
<1>2. Outstanding' = Outstanding \cup F
  BY <1>1
<1>3. \A x \in W : x[1] \notin FlowUnits
  BY UnitsApart DEF Tokens
<1>4. \A f \in New : f \in FlowUnits
  BY DEF Flows, FlowUnits, Roles
<1>5. ASSUME NEW f \in New PROVE FlowShare(Outstanding, f) = {} /\ \E x : FlowShare(F, f) = {x}
  <2>1. FlowShare(Outstanding, f) = {}
    BY <1>5 DEF KnownIds, Outstanding, FlowShare
  <2>2. FlowShare(F, f) = {<<f, f>>}
    <3>1. <<f, f>> \in FlowShare(F, f)
      BY <1>1, <1>4 DEF Starting, FlowShare
    <3>2. ASSUME NEW x \in FlowShare(F, f) PROVE x = <<f, f>>
      BY <1>1, <1>3, <3>2 DEF Starting, FlowShare
    <3> QED BY <3>1, <3>2
  <2> QED BY <2>1, <2>2
<1>6. ASSUME NEW f \in Flows \ New PROVE FlowShare(F, f) = {}
  BY <1>1, <1>3, <1>6 DEF Starting, FlowShare
<1> QED BY <1>2, <1>5, <1>6, FlowsFresh

\* And the wait of the new task is.
LEMMA CountedNewTask ==
  ASSUME TypesOK, Counted, KnownIds, NEW t \in Tasks, t \notin Known, NEW u \in Uses,
         u.id = <<t, "captured">>, NEW New \in SUBSET Flows, \A f \in New : f[1][1] = t,
         Outstanding' = Outstanding \cup Starting(New) \cup WaitTokens(t, u),
         count' = [f \in Flows |-> IF f \in New THEN 1 ELSE count[f]],
         need' = [need EXCEPT ![t] = PendingCount(u)]
  PROVE  Counted'
<1>1. PICK F, W : W = WaitTokens(t, u) /\ F = Starting(New) \cup W
  OBVIOUS
<1>2. W \subseteq WaitUnits \X Tasks
  BY <1>1 DEF WaitTokens, WaitUnits, Uses
<1>3. \A f \in Flows : count'[f] = Cardinality(FlowShare(Outstanding', f))
  <2>1. Outstanding' = Outstanding \cup Starting(New) \cup W
    BY <1>1
  <2> QED BY <1>2, <2>1, CountedNewFlows
<1>4. Outstanding' = Outstanding \cup F
  BY <1>1
<1>5. WaitShare(Outstanding, t) = {}
  BY DEF KnownIds, Outstanding, WaitShare
<1>6. \A f \in New : f \notin WaitUnits
  <2>1. \A f \in New : <<f, f>> \in Tokens /\ f \in FlowUnits
    BY DEF Flows, FlowUnits, Roles, Tokens
  <2>2. \A f \in New : <<f, f>>[1] = f
    OBVIOUS
  <2> QED BY <2>1, <2>2, UnitsApart
<1>7. \A x \in W : x[2] = t /\ x[1] \in WaitUnits
  BY <1>1, <1>2 DEF WaitTokens
<1>8. WaitShare(F, t) = WaitTokens(t, u)
  BY <1>1, <1>6, <1>7 DEF WaitShare, Starting
<1>9. \A s \in Tasks : s # t => WaitShare(F, s) = {}
  BY <1>1, <1>6, <1>7 DEF WaitShare, Starting
<1>10. \A s \in Tasks : need'[s] = Cardinality(WaitShare(Outstanding', s))
  BY <1>4, <1>5, <1>8, <1>9, WaitsFresh
<1> QED BY <1>3, <1>10 DEF Counted

\* A new use without a task changes no wait.
LEMMA CountedNewUse ==
  ASSUME TypesOK, Counted, KnownIds, NEW t, t \notin Known,
         NEW New \in SUBSET Flows, \A f \in New : f[1][1] = t,
         Outstanding' = Outstanding \cup Starting(New),
         count' = [f \in Flows |-> IF f \in New THEN 1 ELSE count[f]], need' = need
  PROVE  Counted'
<1>1. PICK W : W = {}
  OBVIOUS
<1>2. W \subseteq WaitUnits \X Tasks /\ Outstanding' = Outstanding \cup Starting(New) \cup W
  BY <1>1
<1>3. \A f \in Flows : count'[f] = Cardinality(FlowShare(Outstanding', f))
  BY <1>2, CountedNewFlows
<1>4. \A f \in New : f \notin WaitUnits
  <2>1. \A f \in New : <<f, f>> \in Tokens /\ f \in FlowUnits
    BY DEF Flows, FlowUnits, Roles, Tokens
  <2>2. \A f \in New : <<f, f>>[1] = f
    OBVIOUS
  <2> QED BY <2>1, <2>2, UnitsApart
<1>5. \A s \in Tasks : WaitShare(Outstanding', s) = WaitShare(Outstanding, s)
  BY <1>4 DEF WaitShare, Starting
<1> QED BY <1>3, <1>5 DEF Counted
\* The places that such a step leaves alone.
LEMMA PlacesKept ==
  ASSUME TypesOK, NEW a \in Threads, NEW X \in Seq(Ops), AgendaStep(a, X), actions' = actions,
         callables' = callables, NEW p \in Places, p # <<"agenda", a>>,
         \A c \in Users : p = <<"use", c>> => UseOwes(c)' = UseOwes(c)
  PROVE  Holds'[p] = Holds[p]
<1>1. CASE \E th \in Threads : p = <<"agenda", th>>
  BY <1>1, AgendaAfter, PlacesSame
<1>2. CASE \E c \in Users : p = <<"use", c>>
  BY <1>2, PlacesSame
<1>3. CASE (\E g \in Flows : p = <<"actions", g>>) \/ p = <<"callables", Main>>
  BY <1>3, PlacesSame
<1> QED BY <1>1, <1>2, <1>3, PlaceKinds

\* What is owed after a step that changes one agenda and one use,
LEMMA OwedAfterTwo ==
  ASSUME TypesOK, OwedApart, NEW a \in Threads, NEW X \in Seq(Ops), AgendaStep(a, X),
         actions' = actions, callables' = callables, NEW c \in Users,
         \A d \in Users : d # c => UseOwes(d)' = UseOwes(d), NEW F, F \cap Owed = {},
         UseOwes(c)' \cap (OwedByOps(X) \cup OwedByOps(Rest(a))) = {},
         UseOwes(c)' \cup OwedByOps(X) \cup OwedByOps(Rest(a))
           = UseOwes(c) \cup OwedByOps(agenda[a]) \cup F
  PROVE  OwedApart' /\ Owed' = Owed \cup F
<1> DEFINE r == <<"agenda", a>>
           q == <<"use", c>>
           D == {r, q}
<1>1. r \in Places /\ q \in Places /\ D \in SUBSET Places /\ q # r
  BY PlaceKinds
<1>2. /\ Holds[r] = OwedByOps(agenda[a]) /\ Holds'[r] = OwedByOps(X) \cup OwedByOps(Rest(a))
      /\ Holds[q] = UseOwes(c) /\ Holds'[q] = UseOwes(c)'
  BY HoldsNow, HoldsNext, AgendaAfter
<1>3. \A p \in Places \ D : Holds'[p] = Holds[p]
  <2>1. SUFFICES ASSUME NEW p \in Places, p # r, p # q PROVE Holds'[p] = Holds[p]
    OBVIOUS
  <2>2. \A d \in Users : p = <<"use", d>> => UseOwes(d)' = UseOwes(d)
    BY <2>1
  <2> QED BY <2>1, <2>2, PlacesKept
<1> HIDE DEF r, q
<1>4. PICK Gone : Gone = {}
  OBVIOUS
<1>5. /\ UNION {Holds'[p] : p \in D} = Holds'[q] \cup Holds'[r]
      /\ UNION {Holds[p] : p \in D} = Holds[q] \cup Holds[r]
  OBVIOUS
<1>6. /\ Gone \subseteq UNION {Holds[p] : p \in D}
      /\ UNION {Holds'[p] : p \in D} = ((UNION {Holds[p] : p \in D}) \ Gone) \cup F
  BY <1>2, <1>4, <1>5
<1>7. \A p, p2 \in D : p # p2 => Holds'[p] \cap Holds'[p2] = {}
  BY <1>2
<1> HIDE DEF D
<1>8. OwedApart' /\ Owed' = (Owed \ Gone) \cup F
  BY <1>1, <1>3, <1>6, <1>7, OwedStep
<1> QED BY <1>4, <1>8

\* or one agenda and two uses.
LEMMA OwedAfterThree ==
  ASSUME TypesOK, OwedApart, NEW a \in Threads, NEW X \in Seq(Ops), AgendaStep(a, X),
         actions' = actions, callables' = callables, NEW c \in Users, NEW t \in Users, c # t,
         \A d \in Users : d # c /\ d # t => UseOwes(d)' = UseOwes(d), NEW F, F \cap Owed = {},
         UseOwes(c)' \cap (OwedByOps(X) \cup OwedByOps(Rest(a))) = {},
         UseOwes(t)' \cap (OwedByOps(X) \cup OwedByOps(Rest(a))) = {},
         UseOwes(t)' \cap UseOwes(c)' = {},
         UseOwes(t)' \cup UseOwes(c)' \cup OwedByOps(X) \cup OwedByOps(Rest(a))
           = UseOwes(t) \cup UseOwes(c) \cup OwedByOps(agenda[a]) \cup F
  PROVE  OwedApart' /\ Owed' = Owed \cup F
<1> DEFINE r == <<"agenda", a>>
           q == <<"use", c>>
           s == <<"use", t>>
           D == {r, q, s}
<1>1. r \in Places /\ q \in Places /\ s \in Places /\ D \in SUBSET Places
      /\ q # r /\ s # r /\ s # q
  BY PlaceKinds
<1>2. /\ Holds[r] = OwedByOps(agenda[a]) /\ Holds'[r] = OwedByOps(X) \cup OwedByOps(Rest(a))
      /\ Holds[q] = UseOwes(c) /\ Holds'[q] = UseOwes(c)'
      /\ Holds[s] = UseOwes(t) /\ Holds'[s] = UseOwes(t)'
  BY HoldsNow, HoldsNext, AgendaAfter
<1>3. \A p \in Places \ D : Holds'[p] = Holds[p]
  <2>1. SUFFICES ASSUME NEW p \in Places, p # r, p # q, p # s PROVE Holds'[p] = Holds[p]
    OBVIOUS
  <2>2. \A d \in Users : p = <<"use", d>> => UseOwes(d)' = UseOwes(d)
    BY <2>1
  <2> QED BY <2>1, <2>2, PlacesKept
<1> HIDE DEF r, q, s
<1>4. PICK Gone : Gone = {}
  OBVIOUS
<1>5. /\ UNION {Holds'[p] : p \in D} = Holds'[s] \cup Holds'[q] \cup Holds'[r]
      /\ UNION {Holds[p] : p \in D} = Holds[s] \cup Holds[q] \cup Holds[r]
  OBVIOUS
<1>6. /\ Gone \subseteq UNION {Holds[p] : p \in D}
      /\ UNION {Holds'[p] : p \in D} = ((UNION {Holds[p] : p \in D}) \ Gone) \cup F
  <2>1. Holds'[s] \cup Holds'[q] \cup Holds'[r] = Holds[s] \cup Holds[q] \cup Holds[r] \cup F
    BY <1>2
  <2> QED BY <1>4, <1>5, <2>1
<1>7. \A p, p2 \in D : p # p2 => Holds'[p] \cap Holds'[p2] = {}
  BY <1>2
<1> HIDE DEF D
<1>8. OwedApart' /\ Owed' = (Owed \ Gone) \cup F
  BY <1>1, <1>3, <1>6, <1>7, OwedStep
<1> QED BY <1>4, <1>8

-----------------------------------------------------------------------------
(* A body returns                                                           *)

\* No two uses that are there at the same time have the same id.
LEMMA IdsApart ==
  ASSUME NEW c \in Users, NEW d \in Users, NEW id, OwnId(c, id), OwnId(d, id) PROVE c = d
<1>1. CASE id = <<c, "captured">>
  BY <1>1 DEF OwnId
<1>2. CASE \E t \in Tasks : Parent(t) = c /\ id = <<t, "continuing">>
  BY <1>2 DEF OwnId
<1> QED BY <1>1, <1>2 DEF OwnId

\* The units of an alias are those of its use.
LEMMA AliasTokensOf ==
  ASSUME NEW u, NEW x \in AliasTokens(u)
  PROVE  /\ \/ x[1] = <<u.id, "alias_out">> /\ x[2] = u.out
            \/ x[1] = <<u.id, "alias_anti_in">> /\ x[2] = u.anti_in /\ u.anti_in # None
         /\ x[1][1] = u.id
<1>1. \/ x = <<<<u.id, "alias_out">>, u.out>>
      \/ x = <<<<u.id, "alias_anti_in">>, u.anti_in>> /\ u.anti_in # None
  BY DEF AliasTokens
<1> QED BY <1>1

\* A body returns: its use is released, and its aliases take units for those given back.
LEMMA FinishInv ==
  ASSUME Inv, NEW c \in Users, Finish(c) PROVE Inv'
<1>0. /\ TypesOK /\ WaitsPending /\ Anchors /\ TakenApart /\ OwedApart /\ OnceEach /\ Counted
      /\ FreshTasks /\ UsesOK /\ RegistersOK /\ KnownIds /\ AliasIds
  BY DEF Inv
<1>1. /\ status[c] = "running" /\ agenda[c] = <<>>
      /\ status' = [status EXCEPT ![c] = "done"]
      /\ count' = count /\ use' = use /\ captures' = captures /\ kind' = kind
      /\ actions' = actions /\ need' = need /\ callables' = callables
  BY DEF Finish
<1>2. PICK u : u = use[c]
  OBVIOUS
<1>3. c \in Threads /\ u \in Uses
  BY <1>0, <1>2, UsersRun DEF TypesOK
<1>4. /\ GoodUse(u)
      /\ OwnId(c, u.id)
      /\ Writes(c) => u.out # None
      /\ u.establishes_alias => ~u.anti_dependency /\ Writes(c)
  BY <1>0, <1>1, <1>2 DEF UsesOK
<1>5. PICK X, alias, rest :
        /\ X = ReleaseUse(u)
        /\ alias = (IF u.establishes_alias THEN EstablishAlias(u) ELSE <<>>)
        /\ rest = (IF u.anti_dependency THEN <<>> ELSE DecrementOf(u, "anti_in"))
                    \o DecrementOf(u, "out") \o DecrementOf(u, "anti_out")
  OBVIOUS
<1>6. /\ X = alias \o rest
      /\ Sound(X) /\ Sound(alias) /\ Sound(rest)
      /\ OwedByOps(rest) = OwedByUse(u) /\ TakenByOps(rest) = {}
      /\ OwedByOps(alias) = (IF u.establishes_alias THEN AliasTokens(u) ELSE {})
      /\ TakenByOps(alias) = (IF u.establishes_alias THEN AliasTokens(u) ELSE {})
      /\ \A k \in DOMAIN alias : alias[k].do = "increment" =>
           <<alias[k].unit, alias[k].counter>> \in Later(alias, k)
  BY <1>3, <1>5, Releasing
<1>7. /\ X \in Seq(Ops) /\ alias \in Seq(Ops) /\ rest \in Seq(Ops) /\ Once(X) /\ TakenOnce(X)
      /\ Registers(X) = {}
  BY <1>6 DEF Sound
<1>8. PICK F : F = OwedByOps(alias)
  OBVIOUS
<1>9. /\ OwedByOps(X) = F \cup OwedByUse(u) /\ TakenByOps(X) = F
      /\ \A x \in F : x \in AliasTokens(u) /\ u.establishes_alias
  <2>1. OwedByOps(X) = OwedByOps(alias) \cup OwedByOps(rest)
        /\ TakenByOps(X) = TakenByOps(alias) \cup TakenByOps(rest)
    BY <1>6, <1>7, ConcatOps
  <2>2. OwedByOps(X) = F \cup OwedByUse(u) /\ TakenByOps(X) = F
    BY <1>6, <1>8, <2>1
  <2>3. \A x \in F : x \in AliasTokens(u) /\ u.establishes_alias
    BY <1>6, <1>8
  <2> QED BY <2>2, <2>3
<1>10. Rest(c) = <<>> /\ OwedByOps(Rest(c)) = {} /\ OwedByOps(agenda[c]) = {}
  BY <1>1, NoOps DEF Rest
<1>11. AgendaStep(c, X)
  <2>1. X \o <<>> = X
    BY <1>7
  <2>2. agenda' = [agenda EXCEPT ![c] = X]
    BY <1>2, <1>5 DEF Finish
  <2> QED BY <1>10, <2>1, <2>2 DEF AgendaStep
<1>12. UseOwes(c) = OwedByUse(u)
  BY <1>1, <1>2 DEF UseOwes
<1>13. status'[c] = "done" /\ \A d \in Users : d # c => status'[d] = status[d]
  BY <1>0, <1>1 DEF TypesOK
<1>14. UseOwes(c)' = {} /\ \A d \in Users : d # c => UseOwes(d)' = UseOwes(d)
  BY <1>1, <1>13 DEF UseOwes
<1>15. Fresh(F)
  <2>1. SUFFICES ASSUME NEW x \in F, NEW y \in Owed, x[1] = y[1] PROVE FALSE
    BY DEF Fresh
  <2>2. x[1][1] = u.id /\ x[1][2] \in {"alias_out", "alias_anti_in"}
    BY <1>9, <2>1, AliasTokensOf
  <2>3. PICK d \in Users : status[d] = "done" /\ use[d].id = u.id
    BY <1>0, <2>1, <2>2 DEF AliasIds
  <2>4. OwnId(d, u.id)
    BY <1>0, <2>3 DEF UsesOK
  <2>5. d = c
    BY <1>4, <2>4, IdsApart
  <2> QED BY <1>1, <2>3, <2>5
<1>16. F \cap Owed = {}
  BY <1>15 DEF Fresh
<1>17. OwedApart' /\ Owed' = Owed \cup F
  <2>1. UseOwes(c)' \cap (OwedByOps(X) \cup OwedByOps(Rest(c))) = {}
        /\ UseOwes(c)' \cup OwedByOps(X) \cup OwedByOps(Rest(c))
             = UseOwes(c) \cup OwedByOps(agenda[c]) \cup F
    BY <1>9, <1>10, <1>12, <1>14
  <2> QED BY <1>0, <1>1, <1>3, <1>7, <1>11, <1>14, <1>16, <2>1, OwedAfterTwo
<1>18. NothingNew
  <2>1. \A d \in Users : /\ status'[d] = "unregistered" <=> status[d] = "unregistered"
                         /\ status[d] = "done" => status'[d] = "done"
    BY <1>1, <1>13
  <2> QED BY <1>1, <2>1 DEF NothingNew
<1>19. Known' = Known
  BY <1>0, <1>18, KnownSame
<1>20. FreshTasks' /\ UsesOK'
  BY <1>0, <1>18, SameTasks
<1>21. RegistersOK'
  <2>1. ASSUME NEW th \in Threads PROVE Registers(agenda'[th]) \subseteq Registers(agenda[th])
    <3>1. CASE th = c
      BY <1>0, <1>3, <1>7, <1>11, <3>1, AgendaAfter, RestFacts, ZenonT(60), SMTT(30)
    <3>2. CASE th # c
      BY <1>0, <1>3, <1>7, <1>11, <3>2, AgendaAfter
    <3> QED BY <3>1, <3>2
  <2> QED BY <1>0, <1>18, <2>1, SameRegisters
<1>22. TypesOK'
  <2>1. agenda' \in [Threads -> Seq(Ops)]
    BY <1>0, <1>3, <1>7, <1>11, AgendaAfter
  <2> QED BY <1>0, <1>1, <2>1 DEF TypesOK
<1>23. UsesKept
  BY <1>1, <1>14 DEF UsesKept
<1>24. ToCome' = ToCome \cup F
  BY <1>0, <1>1, <1>3, <1>7, <1>9, <1>11, ToComeSame
<1>25. Counted'
  <2>1. ToCome \subseteq Owed
    BY <1>0, ToComeOwed
  <2>2. Outstanding' = Outstanding
    BY <1>16, <1>17, <1>24, <2>1 DEF Outstanding
  <2> QED BY <1>0, <1>1, <2>2, CountedSame
<1>26. ASSUME NEW x \in F PROVE IdOfKnown(x)' /\ AliasOfDone(x)' /\ x[1] \notin WaitUnits
  <2>1. /\ x[1] \in {<<u.id, "alias_out">>, <<u.id, "alias_anti_in">>} /\ x[1][1] = u.id
        /\ x[2] \in {u.out, u.anti_in}
    BY <1>9, <1>26, AliasTokensOf
  <2>2. u.id[1] \in Known' /\ x[2][1][1] \in Known'
    <3>1. u.id[1] \in Known /\ u.out[1][1] \in Known /\ u.anti_in[1][1] \in Known
      BY <1>4 DEF GoodUse
    <3> QED BY <1>19, <2>1, <3>1
  <2>3. x[1] \notin WaitUnits
    BY <2>1 DEF WaitUnits
  <2>4. IdOfKnown(x)'
    BY <2>1, <2>2, <2>3 DEF IdOfKnown
  <2>5. AliasOfDone(x)'
    <3>1. status'[c] = "done" /\ use'[c].id = x[1][1]
      BY <1>1, <1>2, <1>13, <2>1
    <3> QED BY <3>1 DEF AliasOfDone
  <2> QED BY <2>3, <2>4, <2>5
<1>27. ASSUME NEW k \in DOMAIN X, NEW unit \in FlowUnits, NEW f \in Flows,
              X[k].do = "increment", X[k].unit = unit, X[k].counter = f
       PROVE  Anchored(c, k, <<unit, f>>)' /\ Backed(c, k, f)'
  <2>1. k \in DOMAIN (alias \o rest) /\ (alias \o rest)[k].do = "increment"
    BY <1>6, <1>27
  <2>2. k \in DOMAIN alias /\ alias[k] = X[k] /\ Later(X, k) = Later(alias, k) \cup OwedByUse(u)
    <3>1. X = alias \o rest /\ TakenByOps(rest) = {} /\ OwedByOps(rest) = OwedByUse(u)
      BY <1>6
    <3>2. alias \in Seq(Ops) /\ rest \in Seq(Ops)
      BY <1>7
    <3>3. /\ k \in DOMAIN alias /\ alias[k] = (alias \o rest)[k]
          /\ Later(alias \o rest, k) = Later(alias, k) \cup OwedByOps(rest)
      BY <2>1, <3>1, <3>2, ConcatLater
    <3> QED BY <3>1, <3>3
  <2>3. Later(agenda'[c], k) = Later(alias, k) \cup OwedByUse(u)
    BY <1>0, <1>3, <1>7, <1>10, <1>11, <1>27, <2>2, LaterHere
  <2>4. <<unit, f>> \in Later(alias, k) /\ <<unit, f>> \in F
    <3>1. <<unit, f>> \in Later(alias, k)
      BY <1>6, <1>27, <2>2
    <3>2. <<unit, f>> \in TakenByOps(X)
      BY <1>27 DEF TakenByOps
    <3> QED BY <1>9, <3>1, <3>2
  <2>5. Anchored(c, k, <<unit, f>>)'
    BY <2>3, <2>4 DEF Anchored
  <2>6. u.establishes_alias /\ (f = u.out \/ (f = u.anti_in /\ u.anti_in # None))
    <3>1. PICK x : x = <<unit, f>>
      OBVIOUS
    <3>2. x[2] = f /\ x \in AliasTokens(u) /\ u.establishes_alias
      BY <1>9, <2>4, <3>1
    <3> QED BY <3>2, AliasTokensOf
  <2>7. PICK role \in {"out", "anti_in"} :
             u[role] # None /\ u[role] = f /\ (role = "anti_in" => ~u.anti_dependency)
    <3>1. u.establishes_alias => u.out # None /\ ~u.anti_dependency
      BY <1>4
    <3> QED BY <2>6, <3>1
  <2>8. PICK y : y = <<<<u.id, role>>, f>>
    OBVIOUS
  <2>9. y \in OwedByUse(u)
    BY <2>7, <2>8 DEF OwedByUse
  <2>10. y \in Owed /\ y \notin ToCome
    <3>1. y \in UseOwes(c)
      BY <1>12, <2>9
    <3> QED BY <1>0, <1>1, <1>3, <3>1, UseArrived, OwedAnywhere
  <2>11. y \in Tokens /\ y[1] \in FlowUnits /\ y[2] = f
    <3>1. y \in Tokens
      BY <1>3, <2>9, UsesOwe
    <3>2. u.id \in UseIds
      BY <1>3 DEF Uses
    <3> QED BY <2>8, <3>1, <3>2 DEF FlowUnits
  <2>12. y \notin ToCome'
    BY <1>16, <1>24, <2>10
  <2>13. y \in Later(agenda'[c], k)
    BY <2>3, <2>9
  <2>14. Anchored(c, k, y)'
    BY <2>13 DEF Anchored
  <2>15. Backed(c, k, f)'
    BY <2>11, <2>12, <2>14 DEF Backed
  <2> QED BY <2>5, <2>15
<1>28. \A d \in Users : status[d] = "done" => status'[d] = "done" /\ use'[d].id = use[d].id
  BY <1>1, <1>13
<1>29. \A d \in Users : status[d] = "pending" => status'[d] = "pending"
  BY <1>1, <1>13
<1>30. OwedByOps(X) \cap OwedByOps(Rest(c)) = {} /\ TakenByOps(X) \subseteq F /\ Known \subseteq Known'
  BY <1>9, <1>10, <1>19
<1>31. \A x \in F : x[1] \in WaitUnits => status'[x[2]] = "pending"
  BY <1>26
<1>32. c \in Threads /\ X \in Seq(Ops) /\ Once(X) /\ TakenOnce(X)
  BY <1>3, <1>7
<1>33. agenda[c] = <<>> /\ actions' = actions
  BY <1>1
<1>34. (\A x \in F : IdOfKnown(x)') /\ (\A x \in F : AliasOfDone(x)')
  BY <1>26
<1> QED BY <1>11, <1>15, <1>17, <1>20, <1>21, <1>22, <1>23, <1>25, <1>27, <1>28, <1>29, <1>30,
           <1>31, <1>32, <1>33, <1>34, GrowInv, SMTT(60), ZenonT(60)

-----------------------------------------------------------------------------
(* One more index of a collection                                           *)

\* What a use owes whose anti-in flow nobody has been told of.
LEMMA OwedByWriter ==
  ASSUME NEW v \in Uses, v.anti_dependency, v.out # None, v.anti_out # None
  PROVE  OwedByUse(v) = {<<<<v.id, "out">>, v.out>>, <<<<v.id, "anti_out">>, v.anti_out>>}
<1>1. {r \in {"anti_in", "out", "anti_out"} : v[r] # None /\ (r = "anti_in" => ~v.anti_dependency)}
        = {"out", "anti_out"}
  OBVIOUS
<1> QED BY <1>1 DEF OwedByUse

\* The use of an index, and registering it, owe the new flows and their links.
LEMMA IndexOwes ==
  ASSUME NEW w \in Uses, NEW t \in Tasks
  PROVE  LET id    == <<t, "captured">>
             rels  == IndexRels(w)
             v     == Registered(id, rels, TRUE)
             ops   == RegisterUse(id, rels, TRUE)
             links == {<<<<id, "link_out">>, w.out>>, <<<<id, "link_anti_out">>, w.anti_out>>}
         IN  /\ OwedByOps(ops) \cup OwedByUse(v) = links \cup Starting(NewFlows(id, rels))
             /\ OwedByOps(ops) \cap OwedByUse(v) = {}
             /\ \A x \in links : x[1] \in {id} \X {"link_out", "link_anti_out"}
             /\ \A x \in Starting(NewFlows(id, rels)) : x[1] \in {id} \X Roles
<1> DEFINE id    == <<t, "captured">>
           rels  == IndexRels(w)
           v     == Registered(id, rels, TRUE)
           ops   == RegisterUse(id, rels, TRUE)
           links == {<<<<id, "link_out">>, w.out>>, <<<<id, "link_anti_out">>, w.anti_out>>}
           New   == NewFlows(id, rels)
           names == {"in"} \cup (IF w.anti_in = None THEN {} ELSE {"anti_in"})
<1>1. /\ v \in Uses /\ v.id = id /\ v.anti_dependency = TRUE
      /\ v.out = <<id, "out">> /\ v.anti_out = <<id, "anti_out">>
      /\ New = {<<id, role>> : role \in {"in", "out", "anti_out"}
                                  \cup (IF w.anti_in = None THEN {} ELSE {"anti_in"})}
      /\ OwedByOps(ops) = links \cup {<<<<id, role>>, <<id, role>>>> : role \in names}
  BY IndexedUse
<1>2. v.out # None /\ v.anti_out # None
  BY <1>1, NewFlowsExist, UsersRun DEF Roles
<1>3. OwedByUse(v) = {<<<<id, "out">>, <<id, "out">>>>, <<<<id, "anti_out">>, <<id, "anti_out">>>>}
  BY <1>1, <1>2, OwedByWriter
<1> HIDE DEF v, ops
<1>4. Starting(New) = {<<<<id, role>>, <<id, role>>>> : role \in names}
        \cup {<<<<id, "out">>, <<id, "out">>>>, <<<<id, "anti_out">>, <<id, "anti_out">>>>}
  <2>1. \A f \in New : \E role \in names \cup {"out", "anti_out"} : f = <<id, role>>
    BY <1>1
  <2>2. \A role \in names \cup {"out", "anti_out"} : <<id, role>> \in New
    BY <1>1
  <2> HIDE DEF New, names, id
  <2> QED BY <2>1, <2>2 DEF Starting
<1>5. \A x \in Starting(New) : x[1] \in {id} \X Roles
  <2>1. \A role \in names : role \in Roles
    BY DEF Roles
  <2> HIDE DEF New, names, id
  <2> QED BY <1>4, <2>1 DEF Roles
<1>6. \A x \in links : x[1] \in {id} \X {"link_out", "link_anti_out"}
  OBVIOUS
<1>7. \A x \in links : x \notin OwedByUse(v)
  BY <1>3
<1>8. \A role \in names : role # "out" /\ role # "anti_out"
  OBVIOUS
<1>9. OwedByOps(ops) \cap OwedByUse(v) = {}
  <2> HIDE DEF links, names, id, New
  <2> QED BY <1>1, <1>3, <1>7, <1>8
<1>10. OwedByOps(ops) \cup OwedByUse(v) = links \cup Starting(New)
  <2> HIDE DEF links, names, id, New
  <2> QED BY <1>1, <1>3, <1>4
<1> QED BY <1>5, <1>6, <1>9, <1>10 DEF v, ops

\* What holds of the use of a task that has been captured.
UseFits(c) ==
  /\ GoodUse(use[c])
  /\ OwnId(c, use[c].id)
  /\ Writes(c) => use[c].out # None
  /\ use[c].establishes_alias => ~use[c].anti_dependency /\ Writes(c)

\* A use that does not change stays fit,
LEMMA UseStillFits ==
  ASSUME UsesOK, Known \subseteq Known', NEW c \in Users, status[c] # "unregistered",
         use'[c] = use[c], c # Main => kind'[c] = kind[c]
  PROVE  UseFits(c)'
<1>1. PICK u : u = use[c]
  OBVIOUS
<1>2. /\ GoodUse(u)
      /\ OwnId(c, u.id)
      /\ Writes(c) => u.out # None
      /\ u.establishes_alias => ~u.anti_dependency /\ Writes(c)
  BY <1>1 DEF UsesOK
<1>3. Writes(c)' <=> Writes(c)
  BY DEF Writes
<1>4. /\ u.id[1] \in Known' /\ u.anti_in[1][1] \in Known' /\ u.out[1][1] \in Known'
      /\ u.anti_out[1][1] \in Known' /\ u.anti_out # None
  <2>1. /\ u.id[1] \in Known /\ u.anti_in[1][1] \in Known /\ u.out[1][1] \in Known
        /\ u.anti_out[1][1] \in Known /\ u.anti_out # None
    BY <1>2 DEF GoodUse
  <2> QED BY <2>1
<1>5. use'[c] = u
  BY <1>1
<1> QED BY <1>2, <1>3, <1>4, <1>5 DEF UseFits, GoodUse

\* and when all are, the uses of all tasks are.
LEMMA UsesFit ==
  ASSUME \A c \in Users : status'[c] # "unregistered" => UseFits(c)' PROVE UsesOK'
BY DEF UsesOK, UseFits

\* Registering an index adds one task.
LEMMA KnownIndex ==
  ASSUME TypesOK, Indices > 0, NEW p \in SubTasks, captures' = captures,
         status[p] = "unregistered", status' = [status EXCEPT ![p] = "pending"]
  PROVE  Known' = Known \cup {p} /\ p \notin Known
<1>1. Indices # 0 /\ p \in Users /\ p # Main /\ p \notin TopTasks
  <2>1. p \in Users
    BY UsersRun DEF Tasks
  <2>2. Len(p) = 2
    BY DEF SubTasks
  <2>3. p # Main
    BY <2>2 DEF Main
  <2>4. \A t \in TopTasks : Len(t) = 1
    BY DEF TopTasks
  <2> QED BY <2>1, <2>2, <2>3, <2>4
<1>2. p \notin Known
  BY <1>1 DEF Known
<1>3. \A t \in SubTasks : status'[t] # "unregistered" <=> status[t] # "unregistered" \/ t = p
  <2>1. \A t \in SubTasks : t \in Users
    BY UsersRun DEF Tasks
  <2> QED BY <1>1, <2>1 DEF TypesOK
<1>4. Known' = {Main} \cup {t \in TopTasks : t[1] <= captures[Main]}
                \cup {t \in SubTasks : status'[t] # "unregistered"}
  BY <1>1 DEF Known
<1>5. Known = {Main} \cup {t \in TopTasks : t[1] <= captures[Main]}
                \cup {t \in SubTasks : status[t] # "unregistered"}
  BY <1>1 DEF Known
<1> QED BY <1>2, <1>3, <1>4, <1>5

\* The loop over the indices of a collection is in one place only.
LEMMA RegistersApart ==
  ASSUME TypesOK, OwedApart, NEW a \in Threads, agenda[a] # <<>>, Once(agenda[a]),
         NEW th \in Threads, NEW op, NEW op2 \in Registers(IF th = a THEN Tail(agenda[a]) ELSE agenda[th]),
         op = Head(agenda[a]), op.do = "register", GoodRegister(op), GoodRegister(op2)
  PROVE  op2.task # op.task
<1>1. SUFFICES ASSUME op2.task = op.task PROVE FALSE
  OBVIOUS
<1>2. PICK s : s = IF th = a THEN Tail(agenda[a]) ELSE agenda[th]
  OBVIOUS
<1>3. s \in Seq(Ops) /\ op \in Ops
  BY <1>2, TailOps DEF TypesOK
<1>4. PICK k \in DOMAIN s : op2 = s[k] /\ op2.do = "register"
  BY <1>2 DEF Registers
<1>5. op2 \in Ops /\ op.use \in Uses /\ op2.use \in Uses
  <2>1. op2 \in Ops
    BY <1>3, <1>4
  <2> QED BY <1>3, <1>4, <2>1, OpKinds
<1>6. OwedByOp(op) = OwedByUse(op.use) /\ OwedByOp(op2) = OwedByUse(op2.use)
  BY <1>4 DEF OwedByOp
<1>7. PICK u, u2 : u = op.use /\ u2 = op2.use
  OBVIOUS
<1>8. /\ u.id = u2.id /\ u.out = u2.out /\ u.out # None
      /\ u.anti_dependency /\ u2.anti_dependency
  BY <1>1, <1>7 DEF GoodRegister
<1>9. PICK x : x = <<<<u.id, "out">>, u.out>>
  OBVIOUS
<1>10. x \in OwedByUse(u) /\ x \in OwedByUse(u2)
  BY <1>8, <1>9 DEF OwedByUse
<1>11. x \in OwedByOp(op) /\ x \in OwedByOps(s)
  BY <1>4, <1>6, <1>7, <1>10 DEF OwedByOps
<1>12. agenda[a] \in Seq(Ops)
  BY DEF TypesOK
<1>13. /\ OwedByOps(agenda[a]) = OwedByOp(op) \cup OwedByOps(Tail(agenda[a]))
       /\ OwedByOp(op) \cap OwedByOps(Tail(agenda[a])) = {}
  BY <1>12, TailOwes
<1>14. CASE th = a
  BY <1>2, <1>11, <1>13, <1>14
<1>15. CASE th # a
  BY <1>2, <1>11, <1>13, <1>15, PlacesApart
<1> QED BY <1>14, <1>15

\* What holds of the next index that the loop over a collection is about to register.
LEMMA IndexNext ==
  ASSUME NEW op, GoodRegister(op), op.index <= Indices
  PROVE  /\ Indices > 0 /\ op.task \in Known /\ op.index \in 1..Indices
         /\ op.use.id = <<op.task, "captured">> /\ op.use.out = <<op.use.id, "out">>
         /\ op.use.out # None /\ op.use.anti_out # None /\ op.use.anti_dependency
         /\ op.use.out[1][1] \in Known /\ op.use.anti_out[1][1] \in Known
         /\ op.use.anti_in[1][1] \in Known
         /\ status[Append(op.task, op.index)] = "unregistered"
         /\ \A j \in op.index..Indices : status[Append(op.task, j)] = "unregistered"
<1>1. /\ Indices > 0 /\ op.task \in Known /\ op.index \in 1..(Indices + 1)
      /\ GoodUse(op.use)
      /\ op.use.id = <<op.task, "captured">> /\ op.use.out = <<op.use.id, "out">>
      /\ op.use.out # None /\ op.use.anti_dependency
      /\ \A j \in op.index..Indices : status[Append(op.task, j)] = "unregistered"
  BY DEF GoodRegister
<1>2. /\ op.use.out[1][1] \in Known /\ op.use.anti_out[1][1] \in Known
      /\ op.use.anti_in[1][1] \in Known /\ op.use.anti_out # None
  BY <1>1 DEF GoodUse
<1>3. op.index \in 1..Indices /\ op.index \in op.index..Indices
  BY <1>1, BoundsAssumption
<1>4. status[Append(op.task, op.index)] = "unregistered"
  BY <1>1, <1>3
<1> QED BY <1>1, <1>2, <1>3, <1>4

\* One more index of a collection is registered.
LEMMA RegisterIndexInv ==
  ASSUME Inv, NEW a \in Threads, DoRegister(a), Head(agenda[a]).index <= Indices PROVE Inv'
<1>0. /\ TypesOK /\ WaitsPending /\ Anchors /\ TakenApart /\ OwedApart /\ OnceEach /\ Counted
      /\ FreshTasks /\ UsesOK /\ RegistersOK /\ KnownIds /\ AliasIds
  BY DEF Inv
<1>1. PICK op, w, i, T, p, id, rels, v, rest, R, M :
        /\ op = Head(agenda[a]) /\ w = op.use /\ i = op.index /\ T = op.task
        /\ p = Append(T, i) /\ id = <<p, "captured">> /\ rels = IndexRels(w)
        /\ v = Registered(id, rels, TRUE) /\ rest = RegisterFrom(T, i + 1, w)
        /\ R = RegisterUse(id, rels, TRUE) /\ M = MakePendingTask(p, v)
  OBVIOUS
<1>2. agenda[a] # <<>> /\ op.do = "register"
  BY <1>1 DEF DoRegister, IsNext
<1>3. op \in Ops /\ w \in Uses /\ i \in Nat /\ T \in TopTasks /\ op \in Registers(agenda[a])
  <2>1. op \in Ops
    BY <1>1, <1>2, HeadFacts
  <2>2. op \in Registers(agenda[a])
    BY <1>0, <1>1, <1>2, RegistersTail DEF TypesOK
  <2> QED BY <1>1, <1>2, <2>1, <2>2, OpKinds
<1>4. GoodRegister(op)
  BY <1>0, <1>3 DEF RegistersOK
<1>5. /\ Indices > 0 /\ T \in Known /\ i \in 1..Indices /\ w.id = <<T, "captured">>
      /\ w.out = <<w.id, "out">> /\ w.out # None /\ w.anti_out # None /\ w.anti_dependency
      /\ w.out[1][1] \in Known /\ w.anti_out[1][1] \in Known /\ w.anti_in[1][1] \in Known
      /\ status[p] = "unregistered"
  <2>1. w = op.use /\ i = op.index /\ T = op.task /\ p = Append(T, i)
    BY <1>1
  <2>2. op.index <= Indices
    BY <1>1
  <2>3. /\ Indices > 0 /\ op.task \in Known /\ op.index \in 1..Indices
        /\ op.use.id = <<op.task, "captured">> /\ op.use.out = <<op.use.id, "out">>
        /\ op.use.out # None /\ op.use.anti_out # None /\ op.use.anti_dependency
        /\ op.use.out[1][1] \in Known /\ op.use.anti_out[1][1] \in Known
        /\ op.use.anti_in[1][1] \in Known
        /\ status[Append(op.task, op.index)] = "unregistered"
    BY <1>4, <2>2, IndexNext
  <2> QED BY <2>1, <2>3
<1>6. p \in SubTasks /\ p \in Tasks /\ p \in Users /\ p # Main /\ p = <<T[1], i>>
  <2>1. p \in SubTasks /\ p = <<T[1], i>>
    BY <1>1, <1>3, <1>5, TopSubTask
  <2>2. p # <<>>
    BY <2>1
  <2> QED BY <2>1, <2>2, UsersRun DEF Tasks, Main
<1>7. /\ agenda' = [agenda EXCEPT ![a] = ((R \o M) \o <<rest>>) \o Tail(@)]
      /\ use' = [use EXCEPT ![p] = v]
      /\ count' = [f \in Flows |-> IF f \in NewFlows(id, rels) THEN 1 ELSE count[f]]
      /\ need' = [need EXCEPT ![p] = PendingCount(v)]
      /\ kind' = [kind EXCEPT ![p] = "index"]
      /\ status' = [status EXCEPT ![p] = "pending"]
      /\ actions' = actions /\ captures' = captures /\ callables' = callables
  <2>1. ~(Head(agenda[a]).index > Indices)
    BY <1>1, <1>5, BoundsAssumption
  <2>2. /\ agenda' = [agenda EXCEPT ![a] = ((R \o M) \o <<rest>>) \o Tail(@)]
        /\ use' = [use EXCEPT ![p] = v]
        /\ need' = [need EXCEPT ![p] = PendingCount(v)]
        /\ kind' = [kind EXCEPT ![p] = "index"]
        /\ status' = [status EXCEPT ![p] = "pending"]
    BY <1>1, <2>1, ZenonT(60), SMTT(30) DEF DoRegister
  <2>3. /\ count' = [f \in Flows |-> IF f \in NewFlows(id, rels) THEN 1 ELSE count[f]]
    BY <1>1, <2>1, ZenonT(60), SMTT(30) DEF DoRegister
  <2>4. actions' = actions /\ captures' = captures /\ callables' = callables
    BY DEF DoRegister
  <2> QED BY <2>2, <2>3, <2>4
<1>8. PICK New, links, ready : /\ New = NewFlows(id, rels)
        /\ links = {<<<<id, "link_out">>, w.out>>, <<<<id, "link_anti_out">>, w.anti_out>>}
        /\ ready = OwedByOps(R)
  OBVIOUS
<1>9. /\ v \in Uses /\ v.id = id /\ v.in = <<id, "in">>
      /\ v.anti_dependency = TRUE /\ v.establishes_alias = FALSE
      /\ v.out = <<id, "out">> /\ v.anti_out = <<id, "anti_out">>
      /\ v.anti_in = (IF w.anti_in = None THEN None ELSE <<id, "anti_in">>)
      /\ Sound(R) /\ SelfAnchored(R)
      /\ Names(R) \subseteq {id} \X {"in", "anti_in", "link_out", "link_anti_out"}
      /\ TakenByOps(R) = links
  <2> DEFINE ident == <<p, "captured">>
             part == Registered(ident, IndexRels(w), TRUE)
             ops == RegisterUse(ident, IndexRels(w), TRUE)
  <2>1. /\ part \in Uses /\ part.id = ident /\ part.in = <<ident, "in">>
        /\ part.anti_dependency = TRUE /\ part.establishes_alias = FALSE
        /\ part.out = <<ident, "out">> /\ part.anti_out = <<ident, "anti_out">>
        /\ part.anti_in = (IF w.anti_in = None THEN None ELSE <<ident, "anti_in">>)
        /\ Sound(ops) /\ SelfAnchored(ops)
        /\ Names(ops) \subseteq {ident} \X {"in", "anti_in", "link_out", "link_anti_out"}
        /\ TakenByOps(ops) = {<<<<ident, "link_out">>, w.out>>, <<<<ident, "link_anti_out">>, w.anti_out>>}
    BY <1>3, <1>6, IndexedUse, ZenonT(60), SMTT(30)
  <2>2. ident = id /\ part = v /\ ops = R
    BY <1>1
  <2> HIDE DEF ident, part, ops
  <2> QED BY <1>8, <2>1, <2>2
<1>10. /\ ready \cup OwedByUse(v) = links \cup Starting(New)
       /\ ready \cap OwedByUse(v) = {}
       /\ \A x \in links : x[1] \in {id} \X {"link_out", "link_anti_out"}
       /\ \A x \in Starting(New) : x[1] \in {id} \X Roles
  BY <1>1, <1>3, <1>6, <1>8, IndexOwes
<1>11. /\ Sound(M) /\ TakenByOps(M) = {} /\ OwedByOps(M) = WaitTokens(p, v)
       /\ Names(M) \subseteq {id} \X {"wait_in", "wait_anti_in", "setup"}
  BY <1>1, <1>6, <1>9, Making, ZenonT(120), SMTT(30)
<1>12. Known' = Known \cup {p} /\ p \notin Known
  BY <1>0, <1>5, <1>6, <1>7, KnownIndex
<1>13. New \in SUBSET Flows /\ \A f \in New : f[1][1] = p
  <2>1. id \in UseIds
    BY <1>1, <1>6, IdsOfUser
  <2>2. \A f \in New : \E role \in Roles : f = <<id, role>>
    BY <1>8 DEF NewFlows
  <2>3. id[1] = p
    BY <1>1
  <2>4. \A f \in New : f \in Flows /\ f[1] = id
    BY <2>1, <2>2 DEF Flows
  <2> QED BY <2>3, <2>4
<1>14. PICK waits : waits = WaitTokens(p, v)
  OBVIOUS
<1>15. \A x \in waits : x[1] \in {id} \X {"wait_in", "wait_anti_in", "setup"} /\ x[2] = p
  BY <1>9, <1>14 DEF WaitTokens
<1>16. \A x \in ready \cup OwedByUse(v) : x \in links \cup Starting(New)
  BY <1>10
<1>17. \A x \in links \cup Starting(New) :
         x[1] \in {id} \X {"in", "anti_in", "out", "anti_out", "link_out", "link_anti_out"}
  BY <1>10 DEF Roles
<1>18. PICK F : F = ready \cup OwedByUse(v) \cup waits
  OBVIOUS
<1>19. \A x \in F : x[1][1] = id
  BY <1>15, <1>16, <1>17, <1>18
<1>20. Fresh(F) /\ F \cap Owed = {}
  <2>1. id[1] = p
    BY <1>1
  <2>2. \A x \in F : x[1][1][1] = p
    BY <1>19, <2>1
  <2> QED BY <1>0, <1>12, <2>2, FreshTask
<1>21. PICK RM, X : RM = R \o M /\ X = RM \o <<rest>>
  OBVIOUS
<1>22. /\ Sound(RM) /\ OwedByOps(RM) = ready \cup waits /\ TakenByOps(RM) = links
  <2>1. Names(R) \cap Names(M) = {}
    BY <1>9, <1>11
  <2> QED BY <1>8, <1>9, <1>11, <1>14, <1>21, <2>1, SoundConcat, SMTT(60), ZenonT(60)
<1>23. rest \in Ops /\ OwedByOp(rest) = OwedByUse(w) /\ rest.do = "register"
  BY <1>1, <1>3, RegisterOp
<1>24. OwedByUse(w) \subseteq Owed
  <2>1. OwedByOp(op) = OwedByUse(w)
    BY <1>1, <1>2 DEF OwedByOp
  <2> QED BY <1>1, <1>2, <2>1, HeadFacts
<1>25. /\ RM \in Seq(Ops) /\ Once(RM) /\ TakenOnce(RM) /\ Registers(RM) = {}
       /\ R \in Seq(Ops) /\ M \in Seq(Ops)
  BY <1>9, <1>11, <1>22 DEF Sound
<1>26. /\ <<rest>> \in Seq(Ops) /\ OwedByOps(<<rest>>) = OwedByUse(w) /\ TakenByOps(<<rest>>) = {}
       /\ Once(<<rest>>) /\ TakenOnce(<<rest>>) /\ Registers(<<rest>>) = {rest}
  BY <1>23, SingleOps, RegistersSingle
<1>27. PICK one : one = <<rest>>
  OBVIOUS
<1>28. /\ one \in Seq(Ops) /\ OwedByOps(one) = OwedByUse(w) /\ TakenByOps(one) = {}
       /\ Once(one) /\ TakenOnce(one) /\ Registers(one) = {rest} /\ X = RM \o one
  BY <1>21, <1>26, <1>27
<1>29. /\ X \in Seq(Ops) /\ OwedByOps(X) = ready \cup waits \cup OwedByUse(w)
       /\ TakenByOps(X) = links /\ Once(X) /\ TakenOnce(X) /\ Registers(X) = {rest}
  <2>1. X \in Seq(Ops) /\ OwedByOps(X) = OwedByOps(RM) \cup OwedByOps(one)
        /\ TakenByOps(X) = TakenByOps(RM) \cup TakenByOps(one)
    BY <1>25, <1>28, ConcatOps
  <2>2. Registers(X) = Registers(RM) \cup Registers(one)
    BY <1>25, <1>28, RegistersConcat
  <2>3. OwedByOps(RM) \cap OwedByOps(one) = {}
    BY <1>18, <1>20, <1>22, <1>24, <1>28
  <2>4. Once(X)
    BY <1>25, <1>28, <2>3, ConcatOnce
  <2>5. TakenOnce(X)
    BY <1>25, <1>28, ConcatOnce
  <2> QED BY <1>22, <1>25, <1>28, <2>1, <2>2, <2>4, <2>5
<1>30. AgendaStep(a, X) /\ Rest(a) = Tail(agenda[a])
  <2>1. agenda' = [agenda EXCEPT ![a] = X \o Tail(@)]
    BY <1>7, <1>21
  <2> QED BY <1>0, <1>2, <1>29, <2>1, DropHead
<1>31. /\ OwedByOps(agenda[a]) = OwedByUse(w) \cup OwedByOps(Rest(a))
       /\ OwedByUse(w) \cap OwedByOps(Rest(a)) = {} /\ OwedByUse(w) \cap ToCome = {}
       /\ OwedByOps(Rest(a)) \subseteq Owed
  <2>1. OwedByOp(op) = OwedByUse(w)
    BY <1>1, <1>2 DEF OwedByOp
  <2> QED BY <1>1, <1>2, <1>30, <2>1, HeadFacts, OwedAnywhere
<1>32. /\ use' \in [Users -> Uses] /\ use'[p] = v /\ status'[p] = "pending"
       /\ \A c \in Users : c # p => use'[c] = use[c] /\ status'[c] = status[c]
       /\ status' \in [Users -> {"unregistered", "pending", "ready", "running", "done"}]
  BY <1>0, <1>6, <1>7, <1>9 DEF TypesOK
<1>33. UseOwes(p) = {} /\ UseOwes(p)' = OwedByUse(v)
       /\ \A c \in Users : c # p => UseOwes(c)' = UseOwes(c)
  BY <1>5, <1>6, <1>32 DEF UseOwes
<1>34. OwedApart' /\ Owed' = Owed \cup F
  <2>1. OwedByUse(v) \cap waits = {}
    BY <1>15, <1>16, <1>17
  <2>2. OwedByUse(v) \cap (OwedByUse(w) \cup OwedByOps(Rest(a))) = {}
    BY <1>18, <1>20, <1>24, <1>31
  <2>3. UseOwes(p)' \cap (OwedByOps(X) \cup OwedByOps(Rest(a))) = {}
    BY <1>10, <1>29, <1>33, <2>1, <2>2
  <2>4. UseOwes(p)' \cup OwedByOps(X) \cup OwedByOps(Rest(a))
           = UseOwes(p) \cup OwedByOps(agenda[a]) \cup F
    BY <1>18, <1>29, <1>31, <1>33
  <2> QED BY <1>0, <1>6, <1>7, <1>20, <1>29, <1>30, <1>33, <2>3, <2>4, OwedAfterTwo, ZenonT(120), SMTT(30)
<1>35. OwedByOps(X) \cap OwedByOps(Rest(a)) = {}
  BY <1>18, <1>20, <1>29, <1>31
<1>36. ToCome' = ToCome \cup links
  <2>1. Head(agenda[a]).do # "increment"
    BY <1>1, <1>2
  <2> QED BY <1>0, <1>29, <1>30, <2>1, ToComeSame
<1>37. links \subseteq F /\ F = links \cup Starting(New) \cup waits
  BY <1>9, <1>10, <1>18, <1>22, <1>25
<1>38. Outstanding' = Outstanding \cup Starting(New) \cup waits
  <2>1. links \cap Starting(New) = {} /\ links \cap waits = {}
    BY <1>10, <1>15 DEF Roles
  <2>2. ToCome \subseteq Owed
    BY <1>0, ToComeOwed
  <2> QED BY <1>20, <1>34, <1>36, <1>37, <2>1, <2>2 DEF Outstanding
<1>39. Counted'
  <2>1. count' = [f \in Flows |-> IF f \in New THEN 1 ELSE count[f]]
    BY <1>7, <1>8
  <2>2. Outstanding' = Outstanding \cup Starting(New) \cup WaitTokens(p, v)
    BY <1>14, <1>38
  <2>3. v.id = <<p, "captured">>
    BY <1>1, <1>9
  <2> QED BY <1>0, <1>6, <1>7, <1>9, <1>12, <1>13, <2>1, <2>2, <2>3, CountedNewTask, ZenonT(60), SMTT(30)
<1>40. TypesOK'
  <2>1. agenda' \in [Threads -> Seq(Ops)]
    BY <1>0, <1>29, <1>30, AgendaAfter
  <2>2. count' \in [Flows -> Nat]
    BY <1>0, <1>7 DEF TypesOK
  <2>3. need' \in [Tasks -> Nat]
    <3>1. PendingCount(v) \in Nat
      BY DEF PendingCount
    <3> QED BY <1>0, <1>7, <3>1 DEF TypesOK
  <2>4. kind' \in [Tasks -> {"read", "write", "index"}]
    BY <1>0, <1>7 DEF TypesOK
  <2> QED BY <1>0, <1>7, <1>32, <2>1, <2>2, <2>3, <2>4 DEF TypesOK
<1>41. FreshTasks'
  <2>1. \A t \in Tasks : t \notin Known' => status'[t] = "unregistered"
    <3>1. SUFFICES ASSUME NEW t \in Tasks, t \notin Known' PROVE status'[t] = "unregistered"
      OBVIOUS
    <3>2. t # p /\ t \notin Known /\ t \in Users
      BY <1>12, <3>1, UsersRun
    <3> QED BY <1>0, <1>32, <3>2 DEF FreshTasks
  <2>2. \A t \in SubTasks : <<t[1]>> \notin Known' => t \notin Known'
    <3>1. SUFFICES ASSUME NEW t \in SubTasks, <<t[1]>> \notin Known' PROVE t \notin Known'
      OBVIOUS
    <3>2. <<t[1]>> \notin Known /\ t \notin Known
      BY <1>0, <1>12, <3>1 DEF FreshTasks
    <3>3. <<T[1]>> = T
      BY <1>3 DEF TopTasks
    <3>4. t # p
      <4>1. p[1] = T[1]
        BY <1>6
      <4> QED BY <1>5, <3>2, <3>3, <4>1
    <3> QED BY <1>12, <3>2, <3>4
  <2> QED BY <2>1, <2>2 DEF FreshTasks
<1>42. UsesOK'
  <2>1. ASSUME NEW c \in Users, status'[c] # "unregistered" PROVE UseFits(c)'
    <3>1. CASE c = p
      <4>1. use'[c] = v
        BY <1>32, <3>1
      <4>2. p \in Known' /\ Main \in Known'
        BY <1>12 DEF Known
      <4>3. None[1][1] = Main /\ id[1] = p
        BY <1>1 DEF None
      <4>4. v.id[1] \in Known' /\ v.anti_in[1][1] \in Known' /\ v.out[1][1] \in Known'
            /\ v.anti_out[1][1] \in Known'
        BY <1>9, <4>2, <4>3
      <4>5. v.out # None /\ v.anti_out # None
        BY <1>1, <1>6, <1>9, NewFlowsExist, ZenonT(60), SMTT(30) DEF Roles
      <4>6. OwnId(c, v.id)
        BY <1>1, <1>9, <3>1 DEF OwnId
      <4> QED BY <1>9, <4>1, <4>4, <4>5, <4>6 DEF UseFits, GoodUse
    <3>2. CASE c # p
      <4>1. status[c] # "unregistered" /\ use'[c] = use[c]
        BY <1>32, <2>1, <3>2
      <4>2. c # Main => kind'[c] = kind[c]
        BY <1>0, <1>7, <3>2 DEF TypesOK, Users
      <4>3. Known \subseteq Known'
        BY <1>12
      <4> QED BY <1>0, <4>1, <4>2, <4>3, UseStillFits
    <3> QED BY <3>1, <3>2
  <2> QED BY <2>1, UsesFit
<1>43. RegistersOK'
  <2>1. GoodRegister(rest)'
    <3>1. rest.task = T /\ rest.index = i + 1 /\ rest.use = w
      BY <1>1 DEF RegisterFrom
    <3>2. T \in Known' /\ w.id[1] \in Known' /\ w.out[1][1] \in Known'
          /\ w.anti_out[1][1] \in Known' /\ w.anti_in[1][1] \in Known'
      <4>1. w.id[1] \in Known
        BY <1>5
      <4> QED BY <1>5, <1>12, <4>1
    <3>3. GoodUse(w)'
      BY <1>5, <3>2 DEF GoodUse
    <3>4. ~w.establishes_alias
      BY <1>1, <1>4 DEF GoodRegister
    <3>5. i + 1 \in 1..(Indices + 1)
      BY <1>5, BoundsAssumption
    <3>6. ASSUME NEW j \in (i + 1)..Indices PROVE status'[Append(T, j)] = "unregistered"
      <4>1. j \in op.index..Indices /\ j \in 1..Indices /\ j # i
        BY <1>1, <1>5, <3>6, BoundsAssumption
      <4>2. status[Append(T, j)] = "unregistered"
        BY <1>1, <1>4, <4>1 DEF GoodRegister
      <4>3. Append(T, j) = <<T[1], j>> /\ Append(T, j) \in SubTasks
        BY <1>3, <1>5, <4>1, TopSubTask
      <4>4. Append(T, j) # p /\ Append(T, j) \in Users
        BY <1>6, <4>1, <4>3, UsersRun DEF Tasks
      <4> QED BY <1>32, <4>2, <4>4
    <3> QED BY <1>3, <1>5, <3>1, <3>2, <3>3, <3>4, <3>5, <3>6 DEF GoodRegister
  <2>2. ASSUME NEW th \in Threads,
               NEW op2 \in Registers(IF th = a THEN Tail(agenda[a]) ELSE agenda[th])
        PROVE  GoodRegister(op2)'
    <3>1. op2 \in Registers(agenda[th]) /\ op2 \in Ops /\ op2.do = "register"
      <4>1. op2 \in Registers(agenda[th])
        BY <1>0, <1>3, <1>30, <2>2, RestFacts
      <4>2. agenda[th] \in Seq(Ops)
        BY <1>0 DEF TypesOK
      <4> QED BY <4>1, <4>2 DEF Registers
    <3>2. GoodRegister(op2)
      BY <1>0, <3>1 DEF RegistersOK
    <3>3. op2.task # T
      BY <1>0, <1>1, <1>2, <1>4, <2>2, <3>2, RegistersApart DEF OnceEach
    <3>4. ASSUME NEW j \in op2.index..Indices
          PROVE status'[Append(op2.task, j)] = status[Append(op2.task, j)]
      <4>1. op2.task \in TopTasks /\ j \in 1..Indices
        BY <3>2, <3>4, BoundsAssumption DEF GoodRegister
      <4>2. Append(op2.task, j) \in SubTasks /\ Append(op2.task, j) = <<op2.task[1], j>>
        BY <1>5, <4>1, TopSubTask
      <4>3. <<T[1]>> = T /\ <<op2.task[1]>> = op2.task
        BY <1>3, <4>1 DEF TopTasks
      <4>4. Append(op2.task, j) # p
        <5>1. op2.task[1] # T[1]
          BY <3>3, <4>3
        <5> QED BY <1>6, <4>2, <5>1
      <4>5. Append(op2.task, j) \in Users
        BY <4>2, UsersRun DEF Tasks
      <4> QED BY <1>32, <4>4, <4>5
    <3>5. Known \subseteq Known'
      BY <1>12
    <3> QED BY <3>1, <3>2, <3>4, <3>5, GoodRegisterKept
  <2>3. ASSUME NEW th \in Threads, NEW op2 \in Registers(agenda'[th]) PROVE GoodRegister(op2)'
    <3>1. CASE th = a
      <4>1. op2 \in {rest} \cup Registers(Tail(agenda[a]))
        BY <1>0, <1>29, <1>30, <2>3, <3>1, AgendaAfter, ZenonT(60), SMTT(30)
      <4> QED BY <2>1, <2>2, <3>1, <4>1
    <3>2. CASE th # a
      <4>1. op2 \in Registers(agenda[th])
        BY <1>0, <1>29, <1>30, <2>3, <3>2, AgendaAfter
      <4> QED BY <2>2, <3>2, <4>1
    <3> QED BY <3>1, <3>2
  <2> QED BY <2>3 DEF RegistersOK
<1>44. UsesKept
  <2>1. status[p] # "pending" /\ UseOwes(p) = {}
    BY <1>5, <1>33
  <2> QED BY <1>33, <2>1 DEF UsesKept
<1>45. ASSUME NEW x \in F
       PROVE  IdOfKnown(x)' /\ AliasOfDone(x)' /\ (x[1] \in WaitUnits => status'[x[2]] = "pending")
  <2>1. x[1][1] = id /\ id[1] = p /\ p \in Known'
    BY <1>1, <1>12, <1>19
  <2>2. CASE x \in waits
    <3>1. x[1][2] \in {"wait_in", "wait_anti_in", "setup"} /\ x[2] = p
      BY <1>15, <2>2
    <3>2. x[1] \in WaitUnits /\ x \in Tokens
      BY <1>1, <1>6, <1>15, <2>2, IdsOfUser, <1>11, <1>14, <1>25, OpsOwe DEF WaitUnits
    <3>3. x[1] \notin FlowUnits
      BY <3>2, UnitsApart
    <3> QED BY <1>1, <1>32, <2>1, <3>1, <3>3 DEF IdOfKnown, AliasOfDone
  <2>3. CASE x \in links \cup Starting(New)
    <3>1. x[1][2] \in {"in", "anti_in", "out", "anti_out", "link_out", "link_anti_out"}
      BY <1>17, <2>3
    <3>2. x[1] \notin WaitUnits
      BY <3>1 DEF WaitUnits
    <3>3. x[2][1][1] \in Known'
      <4>1. CASE x \in links
        <5>1. x[2] \in {w.out, w.anti_out}
          BY <1>8, <4>1
        <5> QED BY <1>5, <1>12, <5>1
      <4>2. CASE x \in Starting(New)
        <5>1. x[2] \in New
          BY <4>2 DEF Starting
        <5> QED BY <1>12, <1>13, <5>1
      <4> QED BY <2>3, <4>1, <4>2
    <3>4. IdOfKnown(x)'
      BY <2>1, <3>2, <3>3 DEF IdOfKnown
    <3>5. AliasOfDone(x)'
      BY <3>1 DEF AliasOfDone
    <3> QED BY <3>2, <3>4, <3>5
  <2> QED BY <1>37, <2>2, <2>3
<1>46. ASSUME NEW k \in DOMAIN X, NEW unit \in FlowUnits, NEW f \in Flows,
              X[k].do = "increment", X[k].unit = unit, X[k].counter = f
       PROVE  Anchored(a, k, <<unit, f>>)' /\ Backed(a, k, f)'
  <2>1. k \in DOMAIN RM /\ RM[k] = X[k] /\ Later(X, k) = Later(RM, k) \cup OwedByUse(w)
    <3>1. k \in DOMAIN (RM \o one) /\ (RM \o one)[k].do = "increment"
      BY <1>28, <1>46
    <3>2. k \in DOMAIN RM /\ RM[k] = (RM \o one)[k] /\ Later(RM \o one, k) = Later(RM, k) \cup OwedByOps(one)
      BY <1>25, <1>28, <3>1, ConcatLater
    <3> QED BY <1>28, <3>2
  <2>2. k \in DOMAIN R /\ R[k] = X[k] /\ Later(RM, k) = Later(R, k) \cup OwedByOps(M)
    <3>1. k \in DOMAIN (R \o M) /\ (R \o M)[k].do = "increment"
      BY <1>21, <1>46, <2>1
    <3> QED BY <1>11, <1>21, <1>25, <2>1, <3>1, ConcatLater
  <2>3. Later(agenda'[a], k) = Later(X, k) \cup OwedByOps(Rest(a))
    BY <1>0, <1>29, <1>30, <1>46, LaterHere
  <2>4. <<unit, f>> \in Later(R, k)
    BY <1>9, <1>46, <2>2 DEF SelfAnchored
  <2>5. Anchored(a, k, <<unit, f>>)'
    BY <2>1, <2>2, <2>3, <2>4 DEF Anchored
  <2>6. f = w.out \/ f = w.anti_out
    <3>1. PICK x : x = <<unit, f>>
      OBVIOUS
    <3>2. x \in links /\ x[2] = f
      BY <1>29, <1>46, <3>1 DEF TakenByOps
    <3> QED BY <1>8, <3>2
  <2>7. PICK y : y[2] = f /\ y \in OwedByUse(w) /\ y[1] \in FlowUnits
    <3>1. OwedByUse(w) = {<<<<w.id, "out">>, w.out>>, <<<<w.id, "anti_out">>, w.anti_out>>}
      BY <1>3, <1>5, OwedByWriter
    <3>2. w.id \in UseIds
      BY <1>3 DEF Uses
    <3>3. <<w.id, "out">> \in FlowUnits /\ <<w.id, "anti_out">> \in FlowUnits
      BY <3>2 DEF FlowUnits
    <3>4. CASE f = w.out
      <4>1. PICK y : y = <<<<w.id, "out">>, w.out>>
        OBVIOUS
      <4>2. y[2] = f /\ y \in OwedByUse(w) /\ y[1] \in FlowUnits
        BY <3>1, <3>3, <3>4, <4>1
      <4> QED BY <4>2
    <3>5. CASE f = w.anti_out
      <4>1. PICK y : y = <<<<w.id, "anti_out">>, w.anti_out>>
        OBVIOUS
      <4>2. y[2] = f /\ y \in OwedByUse(w) /\ y[1] \in FlowUnits
        BY <3>1, <3>3, <3>5, <4>1
      <4> QED BY <4>2
    <3> QED BY <2>6, <3>4, <3>5
  <2>8. y \in Tokens /\ y \notin ToCome'
    <3>1. y \notin ToCome /\ y \in Owed
      BY <1>24, <1>31, <2>7
    <3>2. y \notin links
      BY <1>20, <1>37, <3>1
    <3> QED BY <1>0, <1>36, <3>1, <3>2, OwedTokens
  <2>9. Anchored(a, k, y)'
    BY <2>1, <2>3, <2>7 DEF Anchored
  <2> QED BY <2>5, <2>7, <2>8, <2>9 DEF Backed
<1>47. (\A c \in Users : status[c] = "done" => status'[c] = "done" /\ use'[c].id = use[c].id)
       /\ (\A c \in Users : status[c] = "pending" => status'[c] = "pending")
  BY <1>5, <1>32
<1>48. (agenda[a] = <<>> \/ Head(agenda[a]).do # "increment") /\ Known \subseteq Known'
       /\ TakenByOps(X) \subseteq F
  BY <1>1, <1>2, <1>12, <1>29, <1>37
<1>49. /\ \A x \in F : IdOfKnown(x)'
       /\ \A x \in F : AliasOfDone(x)'
       /\ \A x \in F : x[1] \in WaitUnits => status'[x[2]] = "pending"
  BY <1>45
<1>50. actions' = actions /\ Fresh(F) /\ OwedApart' /\ Owed' = Owed \cup F
  BY <1>7, <1>20, <1>34
<1>51. X \in Seq(Ops) /\ AgendaStep(a, X) /\ Once(X) /\ TakenOnce(X)
  BY <1>29, <1>30
<1> QED BY <1>35, <1>39, <1>40, <1>41, <1>42, <1>43, <1>44,
           <1>46, <1>47, <1>48, <1>49, <1>50, <1>51, GrowInv, SMTT(60), ZenonT(60)

-----------------------------------------------------------------------------
(* Capturing a use                                                          *)

\* What a task that may modify gives when a use is captured from its use u:
\* the captured use v, the use left, and the operations, with the new flows.
Captures(u, t, v, left, ops, New) ==
  LET taken == TakenByOps(ops)
      fields == {u.anti_in, u.out, u.anti_out, None} \cup ({<<t, "captured">>} \X Roles)
  IN  /\ v \in Uses /\ v.id = <<t, "captured">> /\ v.anti_out # None /\ ~v.establishes_alias
      /\ v.anti_in \in fields /\ v.out \in fields /\ v.anti_out \in fields
      /\ left \in Uses /\ left.id \in {u.id, <<t, "continuing">>}
      /\ left.out # None /\ left.anti_out # None
      /\ left.establishes_alias => ~left.anti_dependency
      /\ left.anti_in \in fields /\ left.out \in fields /\ left.anti_out \in fields
      /\ New \subseteq {<<t, "captured">>} \X Roles
      /\ Sound(ops) /\ Names(ops) \subseteq UseIds \X {"anti_in", "out", "anti_out"}
      /\ OwedByOps(ops) \cup OwedByUse(left) \cup OwedByUse(v) = OwedByUse(u) \cup Starting(New) \cup taken
      /\ OwedByOps(ops) \cap OwedByUse(left) = {} /\ OwedByOps(ops) \cap OwedByUse(v) = {}
      /\ OwedByUse(left) \cap OwedByUse(v) = {} /\ Starting(New) \cap taken = {}
      /\ taken \subseteq OwedByUse(left) \cup OwedByUse(v)
      /\ \A x \in taken : /\ x[1] \in {<<t, "captured">>, <<t, "continuing">>} \X {"anti_in", "out", "anti_out"}
                          /\ x[2] \in fields
      /\ \A j \in DOMAIN ops : ops[j].do = "increment" =>
           \E y : /\ y[1] \in FlowUnits /\ y[2] = ops[j].counter
                  /\ \/ y \in OwedByUse(u) /\ y \in Later(ops, j)
                     \/ y \in OwedByUse(u) /\ y \in OwedByUse(left)
                     \/ y \in OwedByUse(v) /\ y \in Starting(New)

\* The use that a task captures from u,
UseFor(u, t, k) == Registered(<<t, "captured">>, CapturedRels(u, k), k # "read")

\* the operations that register_use performs for it,
OpsFor(u, t, k) == RegisterUse(<<t, "captured">>, CapturedRels(u, k), k # "read")

\* and the flows that are made.
NewFor(u, t, k) == NewFlows(<<t, "captured">>, CapturedRels(u, k))

\* The use that goes on after v was captured from u,
UseAfter(u, v, t, k) ==
  [Registered(<<t, "continuing">>, ContinuingRels(u, v, k), FALSE) EXCEPT !.establishes_alias = TRUE]

\* and the operations that register_use performs for that.
OpsAfter(u, v, t, k) == RegisterUse(<<t, "continuing">>, ContinuingRels(u, v, k), FALSE)

\* The uses that are captured from, which are never those of an index.
Capturable(u, t) == /\ u \in Uses /\ u.id[1] # t /\ u.out # None /\ u.anti_out # None
                    /\ u.establishes_alias => ~u.anti_dependency

\* What a use owes that has not given up its anti-in flow.
LEMMA OwedByReader ==
  ASSUME NEW v \in Uses, ~v.anti_dependency, v.anti_out # None
  PROVE  OwedByUse(v) = {<<<<v.id, "anti_out">>, v.anti_out>>}
           \cup (IF v.out = None THEN {} ELSE {<<<<v.id, "out">>, v.out>>})
           \cup (IF v.anti_in = None THEN {} ELSE {<<<<v.id, "anti_in">>, v.anti_in>>})
<1> DEFINE S == {r \in {"anti_in", "out", "anti_out"} : v[r] # None /\ (r = "anti_in" => ~v.anti_dependency)}
<1>1. S = {"anti_out"} \cup (IF v.out = None THEN {} ELSE {"out"})
            \cup (IF v.anti_in = None THEN {} ELSE {"anti_in"})
  OBVIOUS
<1>2. OwedByUse(v) = {<<<<v.id, r>>, v[r]>> : r \in S}
  BY DEF OwedByUse
<1> HIDE DEF S
<1> QED BY <1>1, <1>2

\* A use owes for its own id only.
LEMMA OwedIds ==
  ASSUME NEW u, NEW x \in OwedByUse(u)
  PROVE  /\ x[1][1] = u.id /\ x[1][2] \in {"anti_in", "out", "anti_out"}
         /\ x[2] \in {u.anti_in, u.out, u.anti_out}
         /\ u \in Uses => x[1] \in FlowUnits
<1>1. PICK r \in {"anti_in", "out", "anti_out"} : x = <<<<u.id, r>>, u[r]>>
  BY DEF OwedByUse
<1>2. x[1] = <<u.id, r>> /\ x[2] = u[r]
  BY <1>1
<1>3. u[r] \in {u.anti_in, u.out, u.anti_out}
  OBVIOUS
<1>4. u \in Uses => <<u.id, r>> \in FlowUnits
  BY DEF Uses, FlowUnits
<1> QED BY <1>2, <1>3, <1>4

\* A captured use, and registering it, owe its new flows and what they take.
LEMMA CapturedOwes ==
  ASSUME NEW u \in Uses, u.anti_out # None, NEW t \in Tasks, NEW k \in {"read", "write"}
  PROVE  LET id   == <<t, "captured">>
             v    == UseFor(u, t, k)
             ops  == OpsFor(u, t, k)
             New  == NewFor(u, t, k)
         IN  /\ v \in Uses /\ v.id = id /\ v.anti_out # None /\ ~v.establishes_alias
             /\ v.anti_in \in {None, u.anti_out, <<id, "anti_in">>}
             /\ v.out \in {None, <<id, "out">>} /\ v.anti_out \in {u.anti_out, <<id, "anti_out">>}
             /\ New \subseteq {id} \X Roles
             /\ Sound(ops) /\ Names(ops) \subseteq {id} \X {"anti_in", "anti_out"}
             /\ OwedByOps(ops) \cup OwedByUse(v) = Starting(New) \cup TakenByOps(ops)
             /\ OwedByOps(ops) \cap OwedByUse(v) = {} /\ TakenByOps(ops) \subseteq OwedByUse(v)
             /\ Starting(New) \cap TakenByOps(ops) = {}
             /\ TakenByOps(ops) = IF k = "read" /\ ~Modifying(u)
                                  THEN {<<<<id, "anti_out">>, u.anti_out>>} ELSE {}
             /\ k = "read" /\ ~Modifying(u) => OwedByOps(ops) = {}
             /\ ~(k = "read" /\ ~Modifying(u)) =>
                  /\ v.anti_out = <<id, "anti_out">>
                  /\ <<<<id, "anti_out">>, <<id, "anti_out">>>> \in OwedByUse(v)
                  /\ <<<<id, "anti_out">>, <<id, "anti_out">>>> \in Starting(New)
<1> DEFINE id   == <<t, "captured">>
           rels == CapturedRels(u, k)
           v    == UseFor(u, t, k)
           ops  == OpsFor(u, t, k)
           New  == NewFor(u, t, k)
           owed == OwedByOps(ops)
           taken == TakenByOps(ops)
           names == (IF k = "write" THEN {"out", "anti_out"} ELSE {})
                     \cup (IF Modifying(u) THEN {"anti_out"} ELSE {})
                     \cup (IF k = "write" /\ Modifying(u) THEN {"anti_in"} ELSE {})
<1>1. /\ v \in Uses /\ v.id = id /\ v.in = u.in
      /\ (v.anti_dependency <=> k # "read") /\ ~v.establishes_alias
      /\ v.out = (IF k = "read" THEN None ELSE <<id, "out">>)
      /\ v.anti_in = (IF k = "read" THEN None
                      ELSE IF Modifying(u) THEN <<id, "anti_in">> ELSE u.anti_out)
      /\ v.anti_out = (IF k = "read" /\ ~Modifying(u) THEN u.anti_out ELSE <<id, "anti_out">>)
      /\ New = {<<id, role>> : role \in names}
      /\ Sound(ops)
      /\ Names(ops) \subseteq {id} \X {"anti_in", "anti_out"}
      /\ owed = (IF k = "write" /\ Modifying(u) THEN {<<<<id, "anti_in">>, <<id, "anti_in">>>>} ELSE {})
      /\ taken = (IF k = "read" /\ ~Modifying(u) THEN {<<<<id, "anti_out">>, u.anti_out>>} ELSE {})
  <2>1. New = {<<id, role>> : role \in (IF k = "write" THEN {"out", "anti_out"} ELSE {})
                     \cup (IF Modifying(u) THEN {"anti_out"} ELSE {})
                     \cup (IF k = "write" /\ Modifying(u) THEN {"anti_in"} ELSE {})}
    BY CapturedFlows DEF NewFor
  <2>2. v \in Uses /\ v.id = id /\ v.in = u.in
        /\ (v.anti_dependency <=> k # "read") /\ ~v.establishes_alias
    BY CapturedUse DEF UseFor
  <2>3. /\ v.out = (IF k = "read" THEN None ELSE <<id, "out">>)
        /\ v.anti_in = (IF k = "read" THEN None
                      ELSE IF Modifying(u) THEN <<id, "anti_in">> ELSE u.anti_out)
        /\ v.anti_out = (IF k = "read" /\ ~Modifying(u) THEN u.anti_out ELSE <<id, "anti_out">>)
    BY CapturedUse DEF UseFor
  <2>4. /\ Sound(ops)
        /\ Names(ops) \subseteq {id} \X {"anti_in", "anti_out"}
        /\ owed = (IF k = "write" /\ Modifying(u) THEN {<<<<id, "anti_in">>, <<id, "anti_in">>>>} ELSE {})
        /\ taken = (IF k = "read" /\ ~Modifying(u) THEN {<<<<id, "anti_out">>, u.anti_out>>} ELSE {})
    BY CapturedOps DEF OpsFor
  <2>5. New = {<<id, role>> : role \in names}
    BY <2>1
  <2> HIDE DEF v, ops, New, owed, taken, names, id
  <2> QED BY <2>2, <2>3, <2>4, <2>5
<1>2. \A role \in Roles : <<id, role>> # None
  BY NewFlowsExist, UsersRun
<1> HIDE DEF v, ops, New, owed, taken
<1>3. v.anti_out # None
  BY <1>1, <1>2 DEF Roles
<1>4. OwedByUse(v) =
        IF k = "write" THEN {<<<<id, "out">>, <<id, "out">>>>, <<<<id, "anti_out">>, <<id, "anti_out">>>>}
        ELSE {<<<<id, "anti_out">>, v.anti_out>>}
  <2>1. CASE k = "write"
    <3>1. v.out # None /\ v.out = <<id, "out">> /\ v.anti_out = <<id, "anti_out">> /\ v.anti_dependency
      BY <1>1, <1>2, <2>1 DEF Roles
    <3>2. OwedByUse(v) = {<<<<v.id, "out">>, v.out>>, <<<<v.id, "anti_out">>, v.anti_out>>}
      BY <1>1, <1>3, <3>1, OwedByWriter
    <3> HIDE DEF id
    <3> QED BY <1>1, <2>1, <3>1, <3>2
  <2>2. CASE k = "read"
    <3>1. v.out = None /\ v.anti_in = None /\ ~v.anti_dependency
      BY <1>1, <2>2
    <3>2. OwedByUse(v) = {<<<<v.id, "anti_out">>, v.anti_out>>}
      BY <1>1, <1>3, <3>1, OwedByReader
    <3> QED BY <1>1, <2>2, <3>2
  <2> QED BY <2>1, <2>2
<1>5. Starting(New) = {<<<<id, role>>, <<id, role>>>> : role \in names}
  <2>1. \A f \in New : \E role \in names : f = <<id, role>>
    BY <1>1
  <2>2. \A role \in names : <<id, role>> \in New
    BY <1>1
  <2> HIDE DEF names, id
  <2> QED BY <2>1, <2>2 DEF Starting
<1>6. New \subseteq {id} \X Roles
  BY <1>1 DEF Roles
<1> DEFINE plain == k = "read" /\ ~Modifying(u)
           ao == <<<<id, "anti_out">>, <<id, "anti_out">>>>
           ai == <<<<id, "anti_in">>, <<id, "anti_in">>>>
           o == <<<<id, "out">>, <<id, "out">>>>
<1>7. Starting(New) = (IF k = "write" THEN {o, ao} ELSE {}) \cup (IF Modifying(u) THEN {ao} ELSE {})
                        \cup (IF k = "write" /\ Modifying(u) THEN {ai} ELSE {})
  BY <1>5
<1>8. ai # ao /\ ai # o /\ o # ao
  OBVIOUS
<1>9. CASE k = "write"
  <2>1. taken = {} /\ OwedByUse(v) = {o, ao} /\ owed = (IF Modifying(u) THEN {ai} ELSE {})
        /\ Starting(New) = {o, ao} \cup (IF Modifying(u) THEN {ai} ELSE {})
    BY <1>1, <1>4, <1>7, <1>9
  <2>2. v.anti_out = <<id, "anti_out">>
    BY <1>1, <1>9
  <2> HIDE DEF ao, ai, o
  <2>3. /\ owed \cup OwedByUse(v) = Starting(New) \cup taken /\ owed \cap OwedByUse(v) = {}
        /\ taken \subseteq OwedByUse(v) /\ Starting(New) \cap taken = {}
        /\ ao \in OwedByUse(v) /\ ao \in Starting(New)
    BY <1>8, <2>1
  <2> QED BY <1>1, <1>3, <1>6, <1>9, <2>2, <2>3 DEF ao, v, ops, New, owed, taken
<1>10. CASE k = "read" /\ Modifying(u)
  <2>1. v.anti_out = <<id, "anti_out">>
    BY <1>1, <1>10
  <2>2. taken = {} /\ OwedByUse(v) = {ao} /\ owed = {} /\ Starting(New) = {ao}
    BY <1>1, <1>4, <1>7, <1>10, <2>1
  <2> HIDE DEF ao, ai, o
  <2>3. /\ owed \cup OwedByUse(v) = Starting(New) \cup taken /\ owed \cap OwedByUse(v) = {}
        /\ taken \subseteq OwedByUse(v) /\ Starting(New) \cap taken = {}
        /\ ao \in OwedByUse(v) /\ ao \in Starting(New)
    BY <2>2
  <2> QED BY <1>1, <1>3, <1>6, <1>10, <2>1, <2>3 DEF ao, v, ops, New, owed, taken
<1>11. CASE plain
  <2>1. v.anti_out = u.anti_out
    BY <1>1, <1>11
  <2>2. taken = {<<<<id, "anti_out">>, u.anti_out>>} /\ OwedByUse(v) = {<<<<id, "anti_out">>, u.anti_out>>}
        /\ owed = {} /\ Starting(New) = {}
    BY <1>1, <1>4, <1>7, <1>11, <2>1
  <2>3. /\ owed \cup OwedByUse(v) = Starting(New) \cup taken /\ owed \cap OwedByUse(v) = {}
        /\ taken \subseteq OwedByUse(v) /\ Starting(New) \cap taken = {}
    BY <2>2
  <2> QED BY <1>1, <1>3, <1>6, <1>11, <2>1, <2>2, <2>3 DEF v, ops, New, owed, taken
<1> QED BY <1>9, <1>10, <1>11

\* The part of this about the use,
LEMMA UseForOwes ==
  ASSUME NEW u \in Uses, u.anti_out # None, NEW t \in Tasks, NEW k \in {"read", "write"}
  PROVE  LET id == <<t, "captured">>
             v  == UseFor(u, t, k)
         IN  /\ v \in Uses /\ v.id = id /\ v.anti_out # None /\ ~v.establishes_alias
             /\ v.anti_in \in {None, u.anti_out, <<id, "anti_in">>}
             /\ v.out \in {None, <<id, "out">>} /\ v.anti_out \in {u.anti_out, <<id, "anti_out">>}
BY CapturedOwes, ZenonT(60), SMTT(30)

\* that about the operations,
LEMMA OpsForOwe ==
  ASSUME NEW u \in Uses, u.anti_out # None, NEW t \in Tasks, NEW k \in {"read", "write"}
  PROVE  LET id  == <<t, "captured">>
             v   == UseFor(u, t, k)
             ops == OpsFor(u, t, k)
             New == NewFor(u, t, k)
         IN  /\ New \subseteq {id} \X Roles
             /\ Sound(ops) /\ Names(ops) \subseteq {id} \X {"anti_in", "anti_out"}
             /\ OwedByOps(ops) \cup OwedByUse(v) = Starting(New) \cup TakenByOps(ops)
             /\ OwedByOps(ops) \cap OwedByUse(v) = {} /\ TakenByOps(ops) \subseteq OwedByUse(v)
             /\ Starting(New) \cap TakenByOps(ops) = {}
BY CapturedOwes, ZenonT(60), SMTT(30)

\* and what they take.
LEMMA OpsForTake ==
  ASSUME NEW u \in Uses, u.anti_out # None, NEW t \in Tasks, NEW k \in {"read", "write"}
  PROVE  LET id == <<t, "captured">>
             v  == UseFor(u, t, k)
             ao == <<<<id, "anti_out">>, <<id, "anti_out">>>>
         IN  IF k = "read" /\ ~Modifying(u)
               THEN /\ TakenByOps(OpsFor(u, t, k)) = {<<<<id, "anti_out">>, u.anti_out>>}
                    /\ OwedByOps(OpsFor(u, t, k)) = {}
               ELSE /\ TakenByOps(OpsFor(u, t, k)) = {} /\ v.anti_out = <<id, "anti_out">>
                    /\ ao \in OwedByUse(v) /\ ao \in Starting(NewFor(u, t, k))
BY CapturedOwes, ZenonT(60), SMTT(30)

\* The units that a use owes, one by one.
LEMMA OwesParts ==
  ASSUME NEW u \in Uses
  PROVE  /\ u.out # None => <<<<u.id, "out">>, u.out>> \in OwedByUse(u)
         /\ u.anti_out # None => <<<<u.id, "anti_out">>, u.anti_out>> \in OwedByUse(u)
         /\ u.anti_in # None /\ ~u.anti_dependency =>
              <<<<u.id, "anti_in">>, u.anti_in>> \in OwedByUse(u)
         /\ <<u.id, "out">> \in FlowUnits /\ <<u.id, "anti_out">> \in FlowUnits
         /\ <<u.id, "anti_in">> \in FlowUnits
<1>1. u.id \in UseIds
  BY DEF Uses
<1>2. <<u.id, "out">> \in FlowUnits /\ <<u.id, "anti_out">> \in FlowUnits
      /\ <<u.id, "anti_in">> \in FlowUnits
  BY <1>1 DEF FlowUnits
<1>3. u.out # None => <<<<u.id, "out">>, u.out>> \in OwedByUse(u)
  BY DEF OwedByUse
<1>4. u.anti_out # None => <<<<u.id, "anti_out">>, u.anti_out>> \in OwedByUse(u)
  BY DEF OwedByUse
<1>5. u.anti_in # None /\ ~u.anti_dependency => <<<<u.id, "anti_in">>, u.anti_in>> \in OwedByUse(u)
  BY DEF OwedByUse
<1> QED BY <1>2, <1>3, <1>4, <1>5

\* Without its alias a use owes the same.
LEMMA OwedUnaliased ==
  ASSUME NEW u \in Uses
  PROVE  LET x == [u EXCEPT !.establishes_alias = FALSE]
         IN  /\ x \in Uses /\ x.id = u.id /\ ~x.establishes_alias
             /\ OwedByUse(x) = OwedByUse(u)
<1>1. PICK x : x = [u EXCEPT !.establishes_alias = FALSE]
  OBVIOUS
<1>2. /\ x \in Uses /\ x.id = u.id /\ x.anti_in = u.anti_in
      /\ x.out = u.out /\ x.anti_out = u.anti_out
      /\ x.anti_dependency = u.anti_dependency /\ x.establishes_alias = FALSE
  BY <1>1, AliasRecord
<1>3. \A r \in {"anti_in", "out", "anti_out"} : x[r] = u[r]
  BY <1>2
<1>4. x.anti_dependency <=> u.anti_dependency
  BY <1>2
<1>5. OwedByUse(x) = OwedByUse(u)
  BY <1>2, <1>3, <1>4 DEF OwedByUse
<1> QED BY <1>1, <1>2, <1>5

\* What goes on where a use was captured owes exactly what it takes.
LEMMA ContinuingOwes ==
  ASSUME NEW u \in Uses, NEW v \in Uses, NEW t \in Tasks, NEW k \in {"read", "write"},
         u.out # None, v.anti_out # None
  PROVE  LET id   == <<t, "continuing">>
             next == UseAfter(u, v, t, k)
             ops  == OpsAfter(u, v, t, k)
         IN  /\ next \in Uses /\ next.id = id /\ ~next.anti_dependency
             /\ next.out = u.out /\ next.anti_out = v.anti_out
             /\ next.anti_in = IF Modifying(u) THEN u.anti_out ELSE u.anti_in
             /\ Sound(ops)
             /\ Names(ops) \subseteq {id} \X {"anti_in", "out", "anti_out"}
             /\ OwedByOps(ops) = {}
             /\ OwedByUse(next) = TakenByOps(ops)
<1> DEFINE id   == <<t, "continuing">>
           rels == ContinuingRels(u, v, k)
           w    == Registered(id, rels, FALSE)
           next == [w EXCEPT !.establishes_alias = TRUE]
           ops  == RegisterUse(id, rels, FALSE)
           anti == IF Modifying(u) THEN u.anti_out ELSE u.anti_in
<1>1. /\ next \in Uses /\ next.id = id /\ ~next.anti_dependency
      /\ next.out = u.out /\ next.anti_out = v.anti_out
      /\ next.anti_in = anti
  <2>1. /\ w \in Uses /\ w.id = id /\ ~w.anti_dependency
        /\ w.out = u.out /\ w.anti_out = v.anti_out /\ w.anti_in = anti
    BY ContinuingUse, ZenonT(90)
  <2> HIDE DEF w, anti, id
  <2>2. w \in Uses
    BY <2>1
  <2>3. PICK x : x = [w EXCEPT !.establishes_alias = TRUE]
    OBVIOUS
  <2>4. /\ x \in Uses /\ x.id = w.id /\ x.anti_in = w.anti_in
        /\ x.out = w.out /\ x.anti_out = w.anti_out
        /\ x.anti_dependency = w.anti_dependency
    BY <2>2, <2>3, AliasRecord
  <2>5. next = x
    BY <2>3
  <2> HIDE DEF next
  <2> QED BY <2>1, <2>4, <2>5
<1>2. /\ Sound(ops)
      /\ Names(ops) \subseteq {id} \X {"anti_in", "out", "anti_out"}
      /\ OwedByOps(ops) = {}
      /\ TakenByOps(ops) = {<<<<id, "out">>, u.out>>, <<<<id, "anti_out">>, v.anti_out>>}
           \cup IF anti = None THEN {} ELSE {<<<<id, "anti_in">>, anti>>}
  BY ContinuingOps
<1> HIDE DEF next, w, rels, ops, id, anti, UseAfter, OpsAfter
<1>3. OwedByUse(next) = {<<<<next.id, "anti_out">>, next.anti_out>>}
           \cup (IF next.out = None THEN {} ELSE {<<<<next.id, "out">>, next.out>>})
           \cup (IF next.anti_in = None THEN {} ELSE {<<<<next.id, "anti_in">>, next.anti_in>>})
  BY <1>1, OwedByReader
<1>4. OwedByUse(next) = TakenByOps(ops)
  BY <1>1, <1>2, <1>3
<1> QED BY <1>1, <1>2, <1>4 DEF next, w, rels, ops, id, anti, UseAfter, OpsAfter

\* What Capture makes of the use u.
Parts(u, t, k) ==
  LET id   == <<t, "captured">>
      crel == CapturedRels(u, k)
      v    == Registered(id, crel, k # "read")
      cid  == <<t, "continuing">>
      nrel == ContinuingRels(u, v, k)
      next == [Registered(cid, nrel, FALSE) EXCEPT !.establishes_alias = TRUE]
  IN  IF k = "read" /\ ~Modifying(u)
        THEN [captured |-> v, left |-> u, new |-> NewFlows(id, crel),
              ops |-> RegisterUse(id, crel, FALSE)]
        ELSE [captured |-> v, left |-> next, new |-> NewFlows(id, crel),
              ops |-> RegisterUse(id, crel, k # "read") \o RegisterUse(cid, nrel, FALSE)
                        \o ReleaseUse([u EXCEPT !.establishes_alias = FALSE])]

\* Which it does for the use of whoever captures.
LEMMA CaptureParts ==
  ASSUME NEW c, NEW t, NEW k PROVE Capture(c, t, k) = Parts(use[c], t, k)
BY DEF Capture, Parts

\* A reader captured from a use that does not modify: the source stays as it is.
LEMMA PlainCapture ==
  ASSUME NEW u \in Uses, NEW t \in Tasks, NEW k \in {"read", "write"}, Capturable(u, t),
         k = "read" /\ ~Modifying(u)
  PROVE  Captures(u, t, UseFor(u, t, k), u, OpsFor(u, t, k), NewFor(u, t, k))
<1> DEFINE id   == <<t, "captured">>
           v    == UseFor(u, t, k)
           ops  == OpsFor(u, t, k)
           New  == NewFor(u, t, k)
           own  == <<<<id, "anti_out">>, u.anti_out>>
           fields == {u.anti_in, u.out, u.anti_out, None} \cup ({<<t, "captured">>} \X Roles)
<1>1. /\ u.id[1] # t /\ u.out # None /\ u.anti_out # None
      /\ u.establishes_alias => ~u.anti_dependency
  BY DEF Capturable
<1>2. /\ v \in Uses /\ v.id = id /\ v.anti_out # None /\ ~v.establishes_alias
      /\ v.anti_in \in {None, u.anti_out, <<id, "anti_in">>}
      /\ v.out \in {None, <<id, "out">>} /\ v.anti_out \in {u.anti_out, <<id, "anti_out">>}
  BY <1>1, UseForOwes
<1>3. /\ New \subseteq {id} \X Roles
      /\ Sound(ops) /\ Names(ops) \subseteq {id} \X {"anti_in", "anti_out"}
      /\ OwedByOps(ops) \cup OwedByUse(v) = Starting(New) \cup TakenByOps(ops)
      /\ OwedByOps(ops) \cap OwedByUse(v) = {} /\ TakenByOps(ops) \subseteq OwedByUse(v)
      /\ Starting(New) \cap TakenByOps(ops) = {}
  BY <1>1, OpsForOwe
<1>4. TakenByOps(ops) = {own} /\ OwedByOps(ops) = {}
  BY <1>1, OpsForTake
<1>5. PICK y : y = <<<<u.id, "anti_out">>, u.anti_out>>
  OBVIOUS
<1>6. y \in OwedByUse(u) /\ y[1] \in FlowUnits /\ y[2] = u.anti_out
  BY <1>1, <1>5, OwesParts
<1>7. u.id \in UseIds /\ id[1] = t /\ id \in {<<t, "captured">>, <<t, "continuing">>}
  BY DEF Uses
<1>8. {<<id, "anti_in">>, <<id, "out">>, <<id, "anti_out">>} \subseteq fields
  BY DEF Roles
<1>9. fields = {u.anti_in, u.out, u.anti_out, None} \cup ({id} \X Roles)
  OBVIOUS
<1>10. own[1] = <<id, "anti_out">> /\ own[2] = u.anti_out /\ own[1][1] = id
  OBVIOUS
<1> HIDE DEF v, ops, New, own, id
<1>11. OwedByUse(v) = Starting(New) \cup {own}
  BY <1>3, <1>4
<1>12. \A x \in Starting(New) \cup {own} : x[1][1] = id
  <2>1. \A x \in Starting(New) : x[1] \in New
    BY DEF Starting
  <2> QED BY <1>3, <1>10, <2>1
<1>13. \A x \in OwedByUse(u) : x[1][1] = u.id
  BY OwedIds
<1>14. OwedByUse(u) \cap OwedByUse(v) = {}
  BY <1>1, <1>7, <1>11, <1>12, <1>13
<1>15. ASSUME NEW j \in DOMAIN ops, ops[j].do = "increment"
       PROVE  ops[j].counter = u.anti_out
  <2>1. PICK x : x = <<ops[j].unit, ops[j].counter>>
    OBVIOUS
  <2>2. x \in TakenByOps(ops) /\ x[2] = ops[j].counter
    BY <1>15, <2>1 DEF TakenByOps
  <2> QED BY <1>4, <1>10, <2>2
<1>16. \A j \in DOMAIN ops : ops[j].do = "increment" =>
         \E z : /\ z[1] \in FlowUnits /\ z[2] = ops[j].counter
                /\ \/ z \in OwedByUse(u) /\ z \in Later(ops, j)
                   \/ z \in OwedByUse(u) /\ z \in OwedByUse(u)
                   \/ z \in OwedByUse(v) /\ z \in Starting(New)
  BY <1>6, <1>15
<1>17. /\ OwedByOps(ops) \cup OwedByUse(u) \cup OwedByUse(v)
            = OwedByUse(u) \cup Starting(New) \cup TakenByOps(ops)
       /\ OwedByOps(ops) \cap OwedByUse(u) = {}
       /\ TakenByOps(ops) \subseteq OwedByUse(u) \cup OwedByUse(v)
  BY <1>4, <1>11
<1>18. \A x \in TakenByOps(ops) :
         /\ x[1] \in {<<t, "captured">>, <<t, "continuing">>} \X {"anti_in", "out", "anti_out"}
         /\ x[2] \in fields
  BY <1>4, <1>7, <1>10
<1>19. Names(ops) \subseteq UseIds \X {"anti_in", "out", "anti_out"}
  <2>1. v.id \in UseIds
    BY <1>2 DEF Uses
  <2> QED BY <1>2, <1>3, <2>1
<1>20. /\ v.anti_in \in fields /\ v.out \in fields /\ v.anti_out \in fields
       /\ u.anti_in \in fields /\ u.out \in fields /\ u.anti_out \in fields
  BY <1>2, <1>8
<1>21. New \subseteq {<<t, "captured">>} \X Roles /\ v.id = <<t, "captured">>
  BY <1>2, <1>3 DEF id
<1> HIDE DEF fields
<1>22. Captures(u, t, v, u, ops, New)
  BY <1>1, <1>2, <1>3, <1>14, <1>16, <1>17, <1>18, <1>19, <1>20, <1>21 DEF Captures, fields
<1> QED BY <1>22 DEF v, ops, New, id

\* Any other: the source is released, and another use goes on in its place.
LEMMA FullCapture ==
  ASSUME NEW u \in Uses, NEW t \in Tasks, NEW k \in {"read", "write"}, Capturable(u, t),
         ~(k = "read" /\ ~Modifying(u))
  PROVE  LET v == UseFor(u, t, k)
         IN  Captures(u, t, v, UseAfter(u, v, t, k),
                      OpsFor(u, t, k) \o OpsAfter(u, v, t, k)
                        \o ReleaseUse([u EXCEPT !.establishes_alias = FALSE]),
                      NewFor(u, t, k))
<1> DEFINE id   == <<t, "captured">>
           cid  == <<t, "continuing">>
           v    == UseFor(u, t, k)
           New  == NewFor(u, t, k)
           next == UseAfter(u, v, t, k)
           r1   == OpsFor(u, t, k)
           r2   == OpsAfter(u, v, t, k)
           rel  == ReleaseUse([u EXCEPT !.establishes_alias = FALSE])
           both == r1 \o r2
           ops  == both \o rel
           ao   == <<<<id, "anti_out">>, <<id, "anti_out">>>>
           fields == {u.anti_in, u.out, u.anti_out, None} \cup ({<<t, "captured">>} \X Roles)
<1>1. /\ u.id[1] # t /\ u.out # None /\ u.anti_out # None
      /\ u.establishes_alias => ~u.anti_dependency
  BY DEF Capturable
<1>2. /\ v \in Uses /\ v.id = id /\ v.anti_out # None /\ ~v.establishes_alias
      /\ v.anti_in \in {None, u.anti_out, <<id, "anti_in">>}
      /\ v.out \in {None, <<id, "out">>} /\ v.anti_out \in {u.anti_out, <<id, "anti_out">>}
  BY <1>1, UseForOwes
<1>3. /\ New \subseteq {id} \X Roles
      /\ Sound(r1) /\ Names(r1) \subseteq {id} \X {"anti_in", "anti_out"}
      /\ OwedByOps(r1) \cup OwedByUse(v) = Starting(New) \cup TakenByOps(r1)
      /\ OwedByOps(r1) \cap OwedByUse(v) = {} /\ TakenByOps(r1) \subseteq OwedByUse(v)
      /\ Starting(New) \cap TakenByOps(r1) = {}
  BY <1>1, OpsForOwe
<1>4. /\ TakenByOps(r1) = {}
      /\ v.anti_out = <<id, "anti_out">> /\ ao \in OwedByUse(v) /\ ao \in Starting(New)
  BY <1>1, OpsForTake
<1>5. /\ next \in Uses /\ next.id = cid /\ ~next.anti_dependency
      /\ next.out = u.out /\ next.anti_out = v.anti_out
      /\ next.anti_in = IF Modifying(u) THEN u.anti_out ELSE u.anti_in
      /\ Sound(r2)
      /\ Names(r2) \subseteq {cid} \X {"anti_in", "out", "anti_out"}
      /\ OwedByOps(r2) = {}
      /\ OwedByUse(next) = TakenByOps(r2)
  BY <1>1, <1>2, ContinuingOwes
<1>6. /\ Sound(rel) /\ OwedByOps(rel) = OwedByUse(u) /\ TakenByOps(rel) = {}
      /\ Names(rel) \subseteq {u.id} \X {"anti_in", "out", "anti_out"}
  <2>1. PICK x : x = [u EXCEPT !.establishes_alias = FALSE]
    OBVIOUS
  <2>2. x \in Uses /\ x.id = u.id /\ ~x.establishes_alias /\ OwedByUse(x) = OwedByUse(u)
    BY <2>1, OwedUnaliased
  <2>3. PICK rest :
          /\ ReleaseUse(x) = <<>> \o rest
          /\ Sound(rest) /\ OwedByOps(rest) = OwedByUse(x) /\ TakenByOps(rest) = {}
          /\ Names(rest) \subseteq {x.id} \X {"anti_in", "out", "anti_out"}
    BY <2>2, Releasing
  <2>4. ReleaseUse(x) = rest
    BY <2>3, ConcatEmptySeq DEF Sound
  <2>5. rel = ReleaseUse(x)
    BY <2>1
  <2> HIDE DEF rel
  <2> QED BY <2>2, <2>3, <2>4, <2>5
<1>7. /\ u.id \in UseIds /\ id[1] = t /\ cid[1] = t /\ id # cid /\ id # u.id /\ cid # u.id
      /\ id \in UseIds /\ cid \in UseIds
      /\ id \in {<<t, "captured">>, <<t, "continuing">>}
      /\ cid \in {<<t, "captured">>, <<t, "continuing">>}
  <2>1. id \in UseIds /\ cid \in UseIds
    BY UsersRun, IdsOfUser
  <2>2. u.id \in UseIds
    BY DEF Uses
  <2> QED BY <1>1, <2>1, <2>2
<1>8. {<<id, "anti_in">>, <<id, "out">>, <<id, "anti_out">>} \subseteq fields
  BY DEF Roles
<1>9. New \subseteq {<<t, "captured">>} \X Roles /\ v.id = <<t, "captured">>
      /\ next.id \in {u.id, <<t, "continuing">>}
  BY <1>2, <1>3, <1>5
<1>10. ao[1] = <<id, "anti_out">> /\ ao[2] = <<id, "anti_out">>
  OBVIOUS
<1> HIDE DEF v, New, next, r1, r2, rel, both, ops, ao, id, cid, fields
<1>11. /\ Sound(both) /\ OwedByOps(both) = OwedByOps(r1)
       /\ TakenByOps(both) = TakenByOps(r2)
       /\ Names(both) \subseteq {id, cid} \X {"anti_in", "out", "anti_out"}
  <2>1. Names(r1) \cap Names(r2) = {}
    BY <1>3, <1>5, <1>7
  <2>2. /\ Sound(both) /\ OwedByOps(both) = OwedByOps(r1) \cup OwedByOps(r2)
        /\ TakenByOps(both) = TakenByOps(r1) \cup TakenByOps(r2)
        /\ Names(both) = Names(r1) \cup Names(r2)
    BY <1>3, <1>5, <2>1, SoundConcat DEF both
  <2> QED BY <1>3, <1>4, <1>5, <2>2
<1>12. /\ Sound(ops) /\ OwedByOps(ops) = OwedByOps(r1) \cup OwedByUse(u)
       /\ TakenByOps(ops) = OwedByUse(next)
       /\ Names(ops) \subseteq UseIds \X {"anti_in", "out", "anti_out"}
  <2>1. Names(both) \cap Names(rel) = {}
    BY <1>6, <1>7, <1>11
  <2>2. /\ Sound(ops) /\ OwedByOps(ops) = OwedByOps(both) \cup OwedByOps(rel)
        /\ TakenByOps(ops) = TakenByOps(both) \cup TakenByOps(rel)
        /\ Names(ops) = Names(both) \cup Names(rel)
    BY <1>6, <1>11, <2>1, SoundConcat DEF ops
  <2> QED BY <1>5, <1>6, <1>7, <1>11, <2>2
<1>13. OwedByOps(r1) \cup OwedByUse(v) = Starting(New)
  BY <1>3, <1>4
<1>14. \A x \in Starting(New) : x[1][1] = id
  <2>1. \A x \in Starting(New) : x[1] \in New
    BY DEF Starting
  <2> QED BY <1>3, <2>1
<1>15. /\ \A x \in OwedByUse(u) : x[1][1] = u.id
       /\ \A x \in OwedByUse(next) : /\ x[1][1] = cid /\ x[1][2] \in {"anti_in", "out", "anti_out"}
                                     /\ x[2] \in {next.anti_in, next.out, next.anti_out}
  BY <1>5, OwedIds
<1>16. /\ OwedByOps(ops) \cup OwedByUse(next) \cup OwedByUse(v)
            = OwedByUse(u) \cup Starting(New) \cup TakenByOps(ops)
       /\ TakenByOps(ops) \subseteq OwedByUse(next) \cup OwedByUse(v)
  BY <1>12, <1>13
<1>17. /\ OwedByOps(ops) \cap OwedByUse(next) = {} /\ OwedByOps(ops) \cap OwedByUse(v) = {}
       /\ OwedByUse(next) \cap OwedByUse(v) = {} /\ Starting(New) \cap TakenByOps(ops) = {}
  <2>1. OwedByUse(u) \cap (Starting(New) \cup OwedByUse(next)) = {}
    BY <1>7, <1>14, <1>15
  <2>2. Starting(New) \cap OwedByUse(next) = {}
    BY <1>7, <1>14, <1>15
  <2> QED BY <1>3, <1>12, <1>13, <2>1, <2>2
<1>18. /\ v.anti_in \in fields /\ v.out \in fields /\ v.anti_out \in fields
       /\ next.anti_in \in fields /\ next.out \in fields /\ next.anti_out \in fields
  <2>1. {u.anti_in, u.out, u.anti_out, None} \subseteq fields
    BY DEF fields
  <2>2. v.anti_in \in fields /\ v.out \in fields /\ v.anti_out \in fields
    BY <1>2, <1>8, <2>1
  <2> QED BY <1>5, <2>1, <2>2
<1>19. \A x \in TakenByOps(ops) :
         /\ x[1] \in {<<t, "captured">>, <<t, "continuing">>} \X {"anti_in", "out", "anti_out"}
         /\ x[2] \in fields
  <2>1. SUFFICES ASSUME NEW x \in OwedByUse(next)
                 PROVE  /\ x[1] \in {<<t, "captured">>, <<t, "continuing">>}
                                      \X {"anti_in", "out", "anti_out"}
                        /\ x[2] \in fields
    BY <1>12
  <2>2. x[1] \in {cid} \X {"anti_in", "out", "anti_out"}
    <3>1. PICK r \in {"anti_in", "out", "anti_out"} : x = <<<<next.id, r>>, next[r]>>
      BY DEF OwedByUse
    <3> QED BY <1>5, <3>1
  <2>3. x[2] \in fields
    BY <1>15, <1>18
  <2> QED BY <1>7, <2>2, <2>3
<1>20. ASSUME NEW j \in DOMAIN ops, ops[j].do = "increment"
       PROVE  \E z : /\ z[1] \in FlowUnits /\ z[2] = ops[j].counter
                     /\ \/ z \in OwedByUse(u) /\ z \in Later(ops, j)
                        \/ z \in OwedByUse(u) /\ z \in OwedByUse(next)
                        \/ z \in OwedByUse(v) /\ z \in Starting(New)
  <2>1. PICK f : f = ops[j].counter
    OBVIOUS
  <2>2. OwedByUse(u) \subseteq Later(ops, j)
    <3>1. j \in DOMAIN (both \o rel) /\ (both \o rel)[j].do = "increment"
      BY <1>20 DEF ops
    <3>2. Later(both \o rel, j) = Later(both, j) \cup OwedByOps(rel)
      BY <1>6, <1>11, <3>1, ConcatLater DEF Sound
    <3> QED BY <1>6, <3>2 DEF ops
  <2>3. f \in {next.anti_in, next.out, next.anti_out}
    <3>1. PICK x : x = <<ops[j].unit, ops[j].counter>>
      OBVIOUS
    <3>2. x \in TakenByOps(ops) /\ x[2] = f
      BY <1>20, <2>1, <3>1 DEF TakenByOps
    <3> QED BY <1>12, <1>15, <3>2
  <2>4. PICK y1, y2, y3 : /\ y1 = <<<<u.id, "out">>, u.out>>
                          /\ y2 = <<<<u.id, "anti_out">>, u.anti_out>>
                          /\ y3 = <<<<u.id, "anti_in">>, u.anti_in>>
    OBVIOUS
  <2>5. y1[2] = u.out /\ y2[2] = u.anti_out /\ y3[2] = u.anti_in
    BY <2>4
  <2>6. y1[1] \in FlowUnits /\ y2[1] \in FlowUnits /\ y3[1] \in FlowUnits
    BY <2>4, OwesParts
  <2>7. y1 \in OwedByUse(u) /\ y2 \in OwedByUse(u)
    BY <1>1, <2>4, OwesParts
  <2>8. CASE f = next.out
    BY <1>5, <2>1, <2>2, <2>5, <2>6, <2>7, <2>8
  <2>9. CASE f = next.anti_out
    <3>1. ao[1] \in FlowUnits
      BY <1>7, <1>10 DEF FlowUnits
    <3>2. ao[2] = f
      BY <1>4, <1>5, <1>10, <2>9
    <3> QED BY <1>4, <2>1, <3>1, <3>2
  <2>10. CASE f = next.anti_in /\ Modifying(u)
    BY <1>5, <2>1, <2>2, <2>5, <2>6, <2>7, <2>10
  <2>11. CASE f = next.anti_in /\ ~Modifying(u) /\ f # None
    <3>1. f = u.anti_in /\ u.anti_in # None /\ ~u.anti_dependency
      BY <1>5, <2>11 DEF Modifying
    <3>2. y3 \in OwedByUse(u)
      BY <2>4, <3>1, OwesParts
    <3> QED BY <2>1, <2>2, <2>5, <2>6, <3>1, <3>2
  <2>12. f # None
    <3>1. PICK x : x = <<ops[j].unit, ops[j].counter>>
      OBVIOUS
    <3>2. x \in OwedByUse(next) /\ x[2] = f
      <4>1. x \in TakenByOps(ops) /\ x[2] = f
        BY <1>20, <2>1, <3>1 DEF TakenByOps
      <4> QED BY <1>12, <4>1
    <3>3. PICK r \in {"anti_in", "out", "anti_out"} : x = <<<<next.id, r>>, next[r]>> /\ next[r] # None
      BY <3>2 DEF OwedByUse
    <3> QED BY <3>2, <3>3
  <2> QED BY <2>3, <2>8, <2>9, <2>10, <2>11, <2>12
<1>21. Captures(u, t, v, next, ops, New)
  <2>1. next.out # None /\ next.anti_out # None
    BY <1>1, <1>2, <1>5
  <2>2. \A j \in DOMAIN ops : ops[j].do = "increment" =>
           \E z : /\ z[1] \in FlowUnits /\ z[2] = ops[j].counter
                  /\ \/ z \in OwedByUse(u) /\ z \in Later(ops, j)
                     \/ z \in OwedByUse(u) /\ z \in OwedByUse(next)
                     \/ z \in OwedByUse(v) /\ z \in Starting(New)
    BY <1>20
  <2> QED BY <1>2, <1>5, <1>9, <1>12, <1>16, <1>17, <1>18, <1>19, <2>1, <2>2 DEF Captures, fields
<1> QED BY <1>21 DEF v, New, next, r1, r2, rel, both, ops, id, cid

\* So every capture gives back all that it takes.
LEMMA CaptureGives ==
  ASSUME NEW u \in Uses, NEW t \in Tasks, NEW k \in {"read", "write"}, Capturable(u, t)
  PROVE  LET cap == Parts(u, t, k)
         IN  /\ Captures(u, t, cap.captured, cap.left, cap.ops, cap.new)
             /\ cap.captured = UseFor(u, t, k)
<1> DEFINE id   == <<t, "captured">>
           crel == CapturedRels(u, k)
           v    == Registered(id, crel, k # "read")
           cid  == <<t, "continuing">>
           nrel == ContinuingRels(u, v, k)
           next == [Registered(cid, nrel, FALSE) EXCEPT !.establishes_alias = TRUE]
           both == RegisterUse(id, crel, k # "read") \o RegisterUse(cid, nrel, FALSE)
                        \o ReleaseUse([u EXCEPT !.establishes_alias = FALSE])
           cap  == Parts(u, t, k)
<1>1. v = UseFor(u, t, k) /\ NewFlows(id, crel) = NewFor(u, t, k)
  BY DEF UseFor, NewFor
<1>2. CASE k = "read" /\ ~Modifying(u)
  <2>1. cap = [captured |-> v, left |-> u, new |-> NewFlows(id, crel),
               ops |-> RegisterUse(id, crel, FALSE)]
    BY <1>2, Zenon DEF Parts
  <2>2. RegisterUse(id, crel, FALSE) = OpsFor(u, t, k)
    <3>1. k # "read" <=> FALSE
      BY <1>2
    <3>2. RegisterUse(id, crel, FALSE) = RegisterUse(id, crel, k # "read")
      BY <3>1, Zenon
    <3> QED BY <3>2 DEF OpsFor
  <2> HIDE DEF v, cap, crel
  <2>3. cap.captured = UseFor(u, t, k) /\ cap.left = u /\ cap.new = NewFor(u, t, k)
        /\ cap.ops = OpsFor(u, t, k)
    BY <1>1, <2>1, <2>2
  <2> QED BY <1>2, <2>3, PlainCapture DEF cap
<1>3. CASE ~(k = "read" /\ ~Modifying(u))
  <2>1. cap = [captured |-> v, left |-> next, new |-> NewFlows(id, crel), ops |-> both]
    BY <1>3, Zenon DEF Parts
  <2>2. next = UseAfter(u, UseFor(u, t, k), t, k)
    BY <1>1, Zenon DEF UseAfter
  <2>3. both = OpsFor(u, t, k) \o OpsAfter(u, UseFor(u, t, k), t, k)
                 \o ReleaseUse([u EXCEPT !.establishes_alias = FALSE])
    BY <1>1, Zenon DEF OpsFor, OpsAfter
  <2>4. Captures(u, t, UseFor(u, t, k), UseAfter(u, UseFor(u, t, k), t, k),
                 OpsFor(u, t, k) \o OpsAfter(u, UseFor(u, t, k), t, k)
                   \o ReleaseUse([u EXCEPT !.establishes_alias = FALSE]), NewFor(u, t, k))
    BY <1>3, FullCapture, Zenon
  <2> HIDE DEF v, next, both, cap, crel
  <2>5. cap.captured = UseFor(u, t, k) /\ cap.left = next /\ cap.new = NewFor(u, t, k)
        /\ cap.ops = both
    BY <1>1, <2>1
  <2>6. Captures(u, t, cap.captured, cap.left, cap.ops, cap.new)
    BY <2>2, <2>3, <2>4, <2>5, Zenon
  <2> QED BY <2>5, <2>6 DEF cap
<1> QED BY <1>2, <1>3

\* A writer always has an out flow of its own.
LEMMA UseForWriter ==
  ASSUME NEW u \in Uses, NEW t \in Tasks
  PROVE  LET v == UseFor(u, t, "write")
         IN  v.anti_dependency /\ v.out = <<<<t, "captured">>, "out">> /\ v.out # None
<1> DEFINE id   == <<t, "captured">>
           rels == CapturedRels(u, "write")
           v    == Registered(id, rels, "write" # "read")
<1>1. v.anti_dependency /\ v.out = <<id, "out">>
  BY CapturedUse
<1>2. <<id, "out">> # None
  BY NewFlowsExist, UsersRun DEF Roles
<1>3. v = UseFor(u, t, "write")
  BY DEF UseFor
<1> HIDE DEF v
<1> QED BY <1>1, <1>2, <1>3

-----------------------------------------------------------------------------
(* A new task                                                               *)

\* The main program, tasks and subtasks are different paths.
LEMMA TasksApart ==
  /\ \A t \in TopTasks : t \notin SubTasks /\ t # Main /\ t = <<t[1]>> /\ t[1] \in 1..Width
  /\ \A t \in SubTasks : t \notin TopTasks /\ t # Main
<1>1. \A t \in TopTasks : t \notin SubTasks /\ t # Main
  BY DEF TopTasks, SubTasks, Main
<1>2. \A t \in TopTasks : t = <<t[1]>> /\ t[1] \in 1..Width
  BY DEF TopTasks
<1>3. \A t \in SubTasks : t \notin TopTasks /\ t # Main
  BY <1>1 DEF SubTasks, Main
<1> QED BY <1>1, <1>2, <1>3

\* And every path within the bounds is one.
LEMMA TaskPaths ==
  /\ \A i \in 1..Width : <<i>> \in TopTasks /\ <<i>>[1] = i
  /\ \A i \in 1..Width, n \in 1..(IF Indices = 0 THEN Subwidth ELSE Indices) : <<i, n>> \in SubTasks
BY DEF TopTasks, SubTasks

\* The two parts of a pair.
LEMMA PairParts == \A i, n : <<i, n>>[1] = i /\ <<i, n>>[2] = n
OBVIOUS

\* Numbers are not below their predecessors.
LEMMA NextIsMore ==
  \A n \in Nat : ~(n + 1 <= n) /\ \A w \in Nat : n < w => n + 1 \in 1..w
OBVIOUS

\* The task that is captured next is new.
LEMMA NewTask ==
  ASSUME TypesOK, FreshTasks, NEW c \in {Main} \cup TopTasks, CanCapture(c),
         NEW t, t = Append(c, captures[c] + 1)
  PROVE  /\ t \in Tasks /\ t \in Users /\ c \in Users /\ t \notin Known /\ c \in Known
         /\ Parent(t) = c /\ t # c /\ t # Main /\ status[t] = "unregistered"
         /\ Indices > 0 => c = Main /\ t \in TopTasks
         /\ c = Main => t \in TopTasks /\ t = <<captures[Main] + 1>>
         /\ c # Main => Indices = 0 /\ t \in SubTasks /\ t = <<c[1], captures[c] + 1>>
                          /\ c = <<c[1]>>
         /\ captures[c] \in Nat
<1>0. Width \in Nat /\ Subwidth \in Nat /\ Indices \in Nat
  BY BoundsAssumption
<1>1. captures[c] < Bound(c) /\ status[c] = "running"
  BY DEF CanCapture
<1>2. c \in Users
  BY DEF Users, Tasks
<1>3. captures[c] \in Nat
  BY <1>2 DEF TypesOK
<1>4. CASE c = Main
  <2>1. captures[Main] < Width
    BY <1>1, <1>4 DEF Bound
  <2>2. t = <<captures[Main] + 1>>
    BY <1>4 DEF Main
  <2>3. t \in TopTasks /\ t[1] = captures[Main] + 1
    <3>1. PICK i : i = captures[Main] + 1
      OBVIOUS
    <3>2. i \in 1..Width
      <4>1. PICK n : n = captures[Main]
        OBVIOUS
      <4>2. n \in Nat /\ n < Width /\ i = n + 1
        BY <1>3, <1>4, <2>1, <3>1, <4>1
      <4> QED BY <1>0, <4>2, NextIsMore
    <3>3. t = <<i>>
      BY <2>2, <3>1, Zenon
    <3> QED BY <3>1, <3>2, <3>3, TaskPaths
  <2>4. t \notin SubTasks /\ t # Main
    BY <2>3, TasksApart
  <2>5. t \notin Known
    <3>1. ~(t[1] <= captures[Main])
      BY <1>3, <1>4, <2>3
    <3> QED BY <2>4, <3>1 DEF Known
  <2>6. t \in Tasks /\ Main \in Known
    BY <2>3 DEF Tasks, Known
  <2>7. status[t] = "unregistered"
    BY <2>5, <2>6 DEF FreshTasks
  <2> QED BY <1>2, <1>3, <1>4, <2>2, <2>3, <2>4, <2>5, <2>6, <2>7, UsersRun DEF Parent
<1>5. CASE c # Main
  <2>1. c \in TopTasks /\ Indices = 0 /\ captures[c] < Subwidth
    <3>1. c \in TopTasks
      BY <1>5
    <3>2. Bound(c) = IF Indices = 0 /\ Len(c) = 1 THEN Subwidth ELSE 0
      BY <1>5 DEF Bound
    <3> QED BY <1>1, <1>3, <3>1, <3>2
  <2>2. c = <<c[1]>> /\ c[1] \in 1..Width
    BY <2>1 DEF TopTasks
  <2>3. t = <<c[1], captures[c] + 1>>
    <3>1. PICK i, n : i = c[1] /\ n = captures[c] + 1
      OBVIOUS
    <3>2. c = <<i>> /\ t = Append(<<i>>, n)
      BY <2>2, <3>1
    <3>3. Append(<<i>>, n) = <<i, n>>
      <4>1. /\ Append(<<i>>, n) \in Seq({i, n}) /\ <<i, n>> \in Seq({i, n})
            /\ Len(Append(<<i>>, n)) = 2 /\ Len(<<i, n>>) = 2
        <5>1. <<i>> \in Seq({i, n}) /\ Len(<<i>>) = 1
          OBVIOUS
        <5> QED BY <5>1, AppendProperties
      <4>2. Append(<<i>>, n)[1] = i /\ Append(<<i>>, n)[2] = n
        OBVIOUS
      <4>3. \A j \in 1..2 : Append(<<i>>, n)[j] = <<i, n>>[j]
        BY <4>2
      <4> QED BY <4>1, <4>3, SeqEqual
    <3> QED BY <3>1, <3>2, <3>3
  <2>4. t \in SubTasks
    <3>1. PICK i, n : i = c[1] /\ n = captures[c] + 1
      OBVIOUS
    <3>2. i \in 1..Width /\ n \in 1..(IF Indices = 0 THEN Subwidth ELSE Indices)
      <4>1. n \in 1..Subwidth
        BY <1>0, <1>3, <2>1, <3>1, NextIsMore
      <4> QED BY <2>1, <2>2, <3>1, <4>1
    <3>3. t = <<i, n>>
      BY <2>3, <3>1
    <3> QED BY <3>2, <3>3, TaskPaths
  <2>5. t[1] = c[1] /\ t[2] = captures[c] + 1 /\ t \notin TopTasks /\ t # Main /\ t # c
    <3>1. t[1] = c[1] /\ t[2] = captures[c] + 1
      <4>1. PICK i, n : i = c[1] /\ n = captures[c] + 1
        OBVIOUS
      <4>2. t = <<i, n>>
        BY <2>3, <4>1
      <4>3. <<i, n>>[1] = i /\ <<i, n>>[2] = n
        BY PairParts
      <4>4. t[1] = i /\ t[2] = n
        BY <4>2, <4>3
      <4> QED BY <4>1, <4>4
    <3> QED BY <2>1, <2>4, <3>1, TasksApart
  <2>6. t \notin Known
    <3>1. captures[<<t[1]>>] = captures[c]
      BY <2>2, <2>5
    <3>2. ~(t[2] <= captures[<<t[1]>>])
      <4>1. PICK n : n = captures[c]
        OBVIOUS
      <4>2. n \in Nat /\ t[2] = n + 1 /\ captures[<<t[1]>>] = n
        BY <1>3, <2>5, <3>1, <4>1
      <4>3. ~(n + 1 <= n)
        BY <4>2, NextIsMore
      <4> QED BY <4>2, <4>3, Zenon
    <3> QED BY <2>1, <2>5, <3>2 DEF Known
  <2>7. t \in Tasks /\ c \in Tasks
    BY <2>1, <2>4 DEF Tasks
  <2>8. c \in Known
    BY <1>1, <2>7 DEF FreshTasks
  <2>9. status[t] = "unregistered"
    BY <2>6, <2>7 DEF FreshTasks
  <2>10. Parent(t) = c
    BY <2>2, <2>5 DEF Parent
  <2>11. ~(Indices > 0)
    BY <2>1
  <2> QED BY <1>2, <1>3, <1>5, <2>1, <2>2, <2>3, <2>4, <2>5, <2>6, <2>7, <2>8, <2>9, <2>10, <2>11, UsersRun
<1> QED BY <1>4, <1>5

\* And it is the only one that is.
LEMMA KnownMore ==
  ASSUME TypesOK, FreshTasks, NEW c \in {Main} \cup TopTasks, CanCapture(c),
         NEW t, t = Append(c, captures[c] + 1),
         captures' = [captures EXCEPT ![c] = @ + 1],
         status' = status \/ status' = [status EXCEPT ![t] = "pending"]
  PROVE  Known' = Known \cup {t} /\ FreshTasks'
<1>1. /\ t \in Tasks /\ t \in Users /\ c \in Users /\ t \notin Known /\ c \in Known
      /\ t # c /\ t # Main
      /\ Indices > 0 => c = Main /\ t \in TopTasks
      /\ c = Main => t \in TopTasks /\ t = <<captures[Main] + 1>>
      /\ c # Main => Indices = 0 /\ t \in SubTasks /\ t = <<c[1], captures[c] + 1>> /\ c = <<c[1]>>
      /\ captures[c] \in Nat
  BY NewTask
<1>2. captures'[c] = captures[c] + 1 /\ \A d \in Users : d # c => captures'[d] = captures[d]
  BY <1>1 DEF TypesOK
<1>3. \A d \in Users : d # t => status'[d] = status[d]
  BY <1>1 DEF TypesOK
<1>4. \A s \in TopTasks : s[1] <= captures'[Main] <=> s[1] <= captures[Main] \/ s = t
  <2>1. SUFFICES ASSUME NEW s \in TopTasks
                 PROVE  s[1] <= captures'[Main] <=> s[1] <= captures[Main] \/ s = t
    OBVIOUS
  <2>2. s = <<s[1]>> /\ s[1] \in Int
    BY BoundsAssumption DEF TopTasks
  <2>3. CASE c = Main
    <3>1. s = t <=> s[1] = captures[Main] + 1
      BY <1>1, <2>2, <2>3
    <3> QED BY <1>1, <1>2, <2>2, <2>3, <3>1
  <2>4. CASE c # Main
    <3>1. s # t
      BY <1>1, <2>2, <2>4
    <3>2. captures'[Main] = captures[Main]
      BY <1>2, <2>4, UsersRun
    <3> QED BY <3>1, <3>2
  <2> QED BY <2>3, <2>4
<1>5. ASSUME NEW s \in SubTasks
      PROVE  (IF Indices = 0 THEN s[2] <= captures'[<<s[1]>>] ELSE status'[s] # "unregistered")
               <=> \/ IF Indices = 0 THEN s[2] <= captures[<<s[1]>>] ELSE status[s] # "unregistered"
                   \/ s = t
  <2>1. s = <<s[1], s[2]>> /\ s[2] \in Int /\ <<s[1]>> \in TopTasks /\ s \in Users
    BY UsersRun DEF SubTasks, TopTasks, Tasks
  <2>2. <<s[1]>> \in Users /\ s \notin TopTasks /\ <<s[1]>> # Main
    BY <2>1, UsersRun DEF Tasks, TopTasks, Main
  <2>3. CASE Indices = 0
    <3>1. CASE c = <<s[1]>>
      <4>1. c # Main /\ c[1] = s[1]
        BY <2>2, <3>1
      <4>2. s = t <=> s[2] = captures[c] + 1
        BY <1>1, <2>1, <4>1
      <4> QED BY <1>1, <1>2, <2>1, <2>3, <3>1, <4>2
    <3>2. CASE c # <<s[1]>>
      <4>1. captures'[<<s[1]>>] = captures[<<s[1]>>]
        BY <1>2, <2>2, <3>2
      <4>2. s # t
        <5>1. CASE c = Main
          BY <1>1, <2>2, <5>1
        <5>2. CASE c # Main
          BY <1>1, <2>1, <3>2, <5>2
        <5> QED BY <5>1, <5>2
      <4> QED BY <2>3, <4>1, <4>2
    <3> QED BY <3>1, <3>2
  <2>4. CASE Indices # 0
    <3>1. t \in TopTasks
      <4>1. Indices > 0
        BY <2>4, BoundsAssumption
      <4> QED BY <1>1, <4>1
    <3>2. s # t
      BY <2>2, <3>1
    <3>3. status'[s] = status[s]
      BY <1>3, <2>1, <3>2
    <3> QED BY <2>4, <3>2, <3>3
  <2> QED BY <2>3, <2>4
<1>6. Known' = Known \cup {t}
  <2>1. \A s \in TopTasks : s \in Known' <=> s \in Known \/ s = t
    <3>1. SUFFICES ASSUME NEW s \in TopTasks PROVE s \in Known' <=> s \in Known \/ s = t
      OBVIOUS
    <3>2. s \notin SubTasks /\ s # Main
      BY TasksApart
    <3> QED BY <1>4, <3>2 DEF Known
  <2>2. \A s \in SubTasks : s \in Known' <=> s \in Known \/ s = t
    <3>1. SUFFICES ASSUME NEW s \in SubTasks PROVE s \in Known' <=> s \in Known \/ s = t
      OBVIOUS
    <3>2. s \notin TopTasks /\ s # Main
      BY TasksApart
    <3>3. s \in Known <=> IF Indices = 0 THEN s[2] <= captures[<<s[1]>>] ELSE status[s] # "unregistered"
      <4>1. s \in Known <=> s \in {r \in SubTasks : IF Indices = 0 THEN r[2] <= captures[<<r[1]>>]
                                                                  ELSE status[r] # "unregistered"}
        BY <3>2 DEF Known
      <4> QED BY <4>1
    <3>4. s \in Known' <=> IF Indices = 0 THEN s[2] <= captures'[<<s[1]>>] ELSE status'[s] # "unregistered"
      <4>1. s \in Known' <=> s \in {r \in SubTasks : IF Indices = 0 THEN r[2] <= captures'[<<r[1]>>]
                                                                   ELSE status'[r] # "unregistered"}
        BY <3>2 DEF Known
      <4> QED BY <4>1
    <3> QED BY <1>5, <3>3, <3>4
  <2>3. Main \in Known /\ Main \in Known' /\ Known \subseteq Users /\ Known' \subseteq Users
    BY DEF Known, Users, Tasks
  <2> QED BY <1>1, <2>1, <2>2, <2>3 DEF Users, Tasks
<1>7. \A s \in Tasks : s \notin Known' => status'[s] = "unregistered"
  BY <1>3, <1>6, UsersRun DEF FreshTasks
<1>8. ASSUME NEW s \in SubTasks, <<s[1]>> \notin Known' PROVE s \notin Known'
  <2>1. s \notin Known
    BY <1>6, <1>8 DEF FreshTasks
  <2>2. s # t
    <3>1. SUFFICES ASSUME s = t PROVE FALSE
      OBVIOUS
    <3>2. c # Main
      BY <1>1, <3>1, TasksApart
    <3>3. s[1] = c[1]
      BY <1>1, <3>1, <3>2
    <3> QED BY <1>1, <1>6, <1>8, <3>2, <3>3
  <2> QED BY <1>6, <2>1, <2>2
<1> QED BY <1>6, <1>7, <1>8 DEF FreshTasks

\* Who captures goes on running, and has a use to capture from.
LEMMA Capturing ==
  ASSUME Inv, NEW c \in {Main} \cup TopTasks, CanCapture(c),
         NEW t, t = Append(c, captures[c] + 1)
  PROVE  /\ use[c] \in Uses /\ Capturable(use[c], t) /\ GoodUse(use[c])
         /\ OwnId(c, use[c].id) /\ Writes(c)
         /\ UseOwes(c) = OwedByUse(use[c])
         /\ agenda[c] = <<>> /\ status[c] = "running" /\ c \in Threads
<1>1. c \in Users /\ t \notin Known /\ c \in Threads
  BY NewTask, UsersRun DEF Inv
<1>2. status[c] = "running" /\ agenda[c] = <<>>
  BY DEF CanCapture
<1>3. Writes(c)
  BY DEF CanCapture, Writes
<1>4. PICK u : u = use[c]
  OBVIOUS
<1>5. u \in Uses
  BY <1>1, <1>4 DEF Inv, TypesOK
<1>6. /\ GoodUse(u) /\ OwnId(c, u.id) /\ u.out # None
      /\ u.establishes_alias => ~u.anti_dependency
  BY <1>1, <1>2, <1>3, <1>4 DEF Inv, UsesOK
<1>7. u.id[1] # t /\ u.anti_out # None
  BY <1>1, <1>6 DEF GoodUse
<1>8. UseOwes(c) = OwedByUse(u)
  BY <1>2, <1>4 DEF UseOwes
<1> QED BY <1>1, <1>2, <1>3, <1>4, <1>5, <1>6, <1>7, <1>8 DEF Capturable

\* The flows and uses of a captured use are those of tasks that there are.
LEMMA CapturedKnown ==
  ASSUME NEW u, NEW t \in Users, NEW v, NEW left, NEW ops, NEW New,
         Captures(u, t, v, left, ops, New), GoodUse(u), Known' = Known \cup {t}
  PROVE  /\ GoodUse(v)' /\ GoodUse(left)'
         /\ New \subseteq Flows /\ \A f \in New : f[1][1] = t
         /\ \A x \in TakenByOps(ops) : /\ x[1][1][1] = t /\ x[2][1][1] \in Known'
                                       /\ x[1][2] \in {"anti_in", "out", "anti_out"}
<1> DEFINE fields == {u.anti_in, u.out, u.anti_out, None} \cup ({<<t, "captured">>} \X Roles)
<1>1. \A f \in fields : f[1][1] \in Known'
  <2>1. None[1][1] = Main /\ Main \in Known
    BY DEF None, Known
  <2>2. {u.anti_in[1][1], u.out[1][1], u.anti_out[1][1]} \subseteq Known
    BY DEF GoodUse
  <2>3. \A f \in {<<t, "captured">>} \X Roles : f[1][1] = t
    OBVIOUS
  <2> QED BY <2>1, <2>2, <2>3
<1>2. \A f \in {<<t, "captured">>} \X Roles : f[1][1] = t /\ f \in Flows
  <2>1. <<t, "captured">> \in UseIds
    BY IdsOfUser
  <2>2. \A f \in {<<t, "captured">>} \X Roles : f[1] = <<t, "captured">>
    OBVIOUS
  <2>3. \A f \in {<<t, "captured">>} \X Roles : f \in Flows
    BY <2>1 DEF Flows
  <2> QED BY <2>2, <2>3
<1> HIDE DEF fields
<1>3. /\ v.id = <<t, "captured">> /\ v.anti_out # None
      /\ v.anti_in \in fields /\ v.out \in fields /\ v.anti_out \in fields
      /\ left.id \in {u.id, <<t, "continuing">>} /\ left.anti_out # None
      /\ left.anti_in \in fields /\ left.out \in fields /\ left.anti_out \in fields
      /\ New \subseteq {<<t, "captured">>} \X Roles
  BY DEF Captures, fields
<1>4. \A x \in TakenByOps(ops) :
         /\ x[1] \in {<<t, "captured">>, <<t, "continuing">>} \X {"anti_in", "out", "anti_out"}
         /\ x[2] \in fields
  BY DEF Captures, fields
<1>5. v.id[1] \in Known' /\ left.id[1] \in Known'
  <2>1. u.id[1] \in Known
    BY DEF GoodUse
  <2> QED BY <1>3, <2>1
<1>6. GoodUse(v)' /\ GoodUse(left)'
  BY <1>1, <1>3, <1>5 DEF GoodUse
<1>7. \A x \in TakenByOps(ops) : /\ x[1][1][1] = t /\ x[2][1][1] \in Known'
                                 /\ x[1][2] \in {"anti_in", "out", "anti_out"}
  <2>1. SUFFICES ASSUME NEW x \in TakenByOps(ops)
                 PROVE  /\ x[1][1][1] = t /\ x[2][1][1] \in Known'
                        /\ x[1][2] \in {"anti_in", "out", "anti_out"}
    OBVIOUS
  <2>2. x[1][1] \in {<<t, "captured">>, <<t, "continuing">>} /\ x[1][2] \in {"anti_in", "out", "anti_out"}
    BY <1>4
  <2> QED BY <1>1, <1>4, <2>2
<1> QED BY <1>2, <1>3, <1>6, <1>7

\* A new task is no index of a collection that is being registered.
LEMMA OldRegisters ==
  ASSUME TypesOK, RegistersOK, Known \subseteq Known', NEW t \in Users,
         Indices > 0 => t \in TopTasks,
         \A s \in Users : s # t => status'[s] = status[s]
  PROVE  \A th \in Threads : \A op \in Registers(agenda[th]) : GoodRegister(op)'
<1>1. SUFFICES ASSUME NEW th \in Threads, NEW op \in Registers(agenda[th]) PROVE GoodRegister(op)'
  OBVIOUS
<1>2. op \in Ops /\ op.do = "register"
  <2>1. agenda[th] \in Seq(Ops)
    BY DEF TypesOK
  <2> QED BY <2>1 DEF Registers
<1>3. GoodRegister(op)
  BY DEF RegistersOK
<1>4. ASSUME NEW j \in op.index..Indices
      PROVE  status'[Append(op.task, j)] = status[Append(op.task, j)]
  <2>1. op.task \in TopTasks /\ j \in 1..Indices /\ Indices > 0
    BY <1>3, <1>4, BoundsAssumption DEF GoodRegister
  <2>2. Append(op.task, j) \in SubTasks
    BY <2>1, TopSubTask
  <2>3. Append(op.task, j) # t /\ Append(op.task, j) \in Users
    BY <2>1, <2>2, TasksApart, UsersRun DEF Tasks
  <2> QED BY <2>3
<1> QED BY <1>2, <1>3, <1>4, GoodRegisterKept

\* A task is captured and registered.
LEMMA CaptureTaskInv ==
  ASSUME Inv, NEW c \in {Main} \cup TopTasks, NEW k \in {"read", "write"}, CaptureTask(c, k)
  PROVE  Inv'
<1>0. /\ TypesOK /\ WaitsPending /\ Anchors /\ TakenApart /\ OwedApart /\ OnceEach /\ Counted
      /\ FreshTasks /\ UsesOK /\ RegistersOK /\ KnownIds /\ AliasIds
  BY DEF Inv
<1>1. PICK t : t = Append(c, captures[c] + 1)
  OBVIOUS
<1>2. CanCapture(c)
  BY DEF CaptureTask
<1>3. /\ t \in Tasks /\ t \in Users /\ c \in Users /\ t \notin Known /\ c \in Known
      /\ Parent(t) = c /\ t # c /\ t # Main /\ status[t] = "unregistered"
      /\ Indices > 0 => t \in TopTasks
  BY <1>0, <1>1, <1>2, NewTask
<1>4. PICK u, cap : u = use[c] /\ cap = Parts(u, t, k)
  OBVIOUS
<1>5. /\ u \in Uses /\ Capturable(u, t) /\ GoodUse(u) /\ OwnId(c, u.id) /\ Writes(c)
      /\ UseOwes(c) = OwedByUse(u)
      /\ agenda[c] = <<>> /\ status[c] = "running" /\ c \in Threads
  BY <1>1, <1>2, <1>4, Capturing
<1>6. PICK v, left, ops, New : v = cap.captured /\ left = cap.left /\ ops = cap.ops /\ New = cap.new
  OBVIOUS
<1>7. Captures(u, t, v, left, ops, New) /\ v = UseFor(u, t, k)
  BY <1>3, <1>4, <1>5, <1>6, CaptureGives
<1>8. PICK M : M = MakePendingTask(t, v)
  OBVIOUS
<1>9. PICK X : X = ops \o M
  OBVIOUS
<1>10. /\ captures' = [captures EXCEPT ![c] = @ + 1]
       /\ use' = [use EXCEPT ![c] = left, ![t] = v]
       /\ count' = [f \in Flows |-> IF f \in New THEN 1 ELSE count[f]]
       /\ agenda' = [agenda EXCEPT ![c] = X]
       /\ need' = [need EXCEPT ![t] = PendingCount(v)]
       /\ kind' = [kind EXCEPT ![t] = k]
       /\ status' = [status EXCEPT ![t] = "pending"]
       /\ actions' = actions /\ callables' = callables
  <2>1. cap = Capture(c, t, k)
    BY <1>4, CaptureParts
  <2> QED BY <1>1, <1>6, <1>8, <1>9, <2>1 DEF CaptureTask
<1>11. Known' = Known \cup {t} /\ FreshTasks'
  BY <1>0, <1>1, <1>2, <1>10, KnownMore
<1>12. /\ v \in Uses /\ v.id = <<t, "captured">> /\ v.anti_out # None /\ ~v.establishes_alias
       /\ left \in Uses /\ left.id \in {u.id, <<t, "continuing">>}
       /\ left.out # None /\ left.anti_out # None
       /\ left.establishes_alias => ~left.anti_dependency
       /\ Sound(ops) /\ Names(ops) \subseteq UseIds \X {"anti_in", "out", "anti_out"}
  BY <1>7 DEF Captures
<1>13. PICK taken : taken = TakenByOps(ops)
  OBVIOUS
<1>14. /\ OwedByOps(ops) \cup OwedByUse(left) \cup OwedByUse(v) = OwedByUse(u) \cup Starting(New) \cup taken
       /\ OwedByOps(ops) \cap OwedByUse(left) = {} /\ OwedByOps(ops) \cap OwedByUse(v) = {}
       /\ OwedByUse(left) \cap OwedByUse(v) = {} /\ Starting(New) \cap taken = {}
       /\ taken \subseteq OwedByUse(left) \cup OwedByUse(v)
  BY <1>7, <1>13 DEF Captures
<1>15. \A j \in DOMAIN ops : ops[j].do = "increment" =>
           \E y : /\ y[1] \in FlowUnits /\ y[2] = ops[j].counter
                  /\ \/ y \in OwedByUse(u) /\ y \in Later(ops, j)
                     \/ y \in OwedByUse(u) /\ y \in OwedByUse(left)
                     \/ y \in OwedByUse(v) /\ y \in Starting(New)
  BY <1>7 DEF Captures
<1>16. /\ GoodUse(v)' /\ GoodUse(left)'
       /\ New \subseteq Flows /\ \A f \in New : f[1][1] = t
       /\ \A x \in taken : /\ x[1][1][1] = t /\ x[2][1][1] \in Known'
                           /\ x[1][2] \in {"anti_in", "out", "anti_out"}
  BY <1>3, <1>5, <1>7, <1>11, <1>13, CapturedKnown
<1>17. PICK waits : waits = WaitTokens(t, v)
  OBVIOUS
<1>18. /\ \A x \in waits : x[1] \in {v.id} \X {"wait_in", "wait_anti_in", "setup"} /\ x[2] = t
       /\ Setup(t) \in waits
  <2>1. <<<<v.id, "setup">>, t>> \in waits
    BY <1>17 DEF WaitTokens
  <2>2. \A x \in waits : x[1] \in {v.id} \X {"wait_in", "wait_anti_in", "setup"} /\ x[2] = t
    BY <1>17 DEF WaitTokens
  <2> QED BY <1>12, <2>1, <2>2 DEF Setup
<1>19. \A x \in waits : x[1][1] = <<t, "captured">> /\ x[1][1][1] = t
                        /\ x[1][2] \in {"wait_in", "wait_anti_in", "setup"}
  <2>1. \A x \in waits : x[1][1] = v.id /\ x[1][2] \in {"wait_in", "wait_anti_in", "setup"}
    BY <1>18
  <2> QED BY <1>12, <2>1
<1>20. /\ Sound(M) /\ TakenByOps(M) = {} /\ OwedByOps(M) = waits
       /\ Names(M) \subseteq {v.id} \X {"wait_in", "wait_anti_in", "setup"}
  BY <1>3, <1>8, <1>12, <1>17, Making
<1>21. /\ Sound(X) /\ OwedByOps(X) = OwedByOps(ops) \cup waits /\ TakenByOps(X) = taken
       /\ X \in Seq(Ops) /\ Once(X) /\ TakenOnce(X) /\ Registers(X) = {}
       /\ ops \in Seq(Ops) /\ M \in Seq(Ops)
  <2>1. Names(ops) \cap Names(M) = {}
    BY <1>12, <1>20
  <2>2. /\ Sound(X) /\ OwedByOps(X) = OwedByOps(ops) \cup OwedByOps(M)
        /\ TakenByOps(X) = TakenByOps(ops) \cup TakenByOps(M)
    BY <1>9, <1>12, <1>20, <2>1, SoundConcat
  <2> QED BY <1>12, <1>13, <1>20, <2>2 DEF Sound
<1>22. AgendaStep(c, X) /\ Rest(c) = <<>>
  <2>1. Rest(c) = <<>>
    BY <1>5 DEF Rest
  <2>2. X \o <<>> = X
    BY <1>21, ConcatEmptySeq
  <2> QED BY <1>10, <2>1, <2>2 DEF AgendaStep
<1>23. PICK F : F = Starting(New) \cup taken \cup waits
  OBVIOUS
<1>24. \A x \in Starting(New) : x[1] \in New /\ x[2] \in New /\ x[1] = x[2]
  BY DEF Starting
<1>25. \A x \in F : x[1][1][1] = t
  BY <1>16, <1>19, <1>23, <1>24
<1>26. Fresh(F) /\ F \cap Owed = {}
  BY <1>0, <1>3, <1>25, FreshTask
<1>27. /\ use' \in [Users -> Uses] /\ use'[t] = v /\ use'[c] = left
       /\ status'[t] = "pending" /\ status'[c] = "running"
       /\ \A d \in Users : d # t => status'[d] = status[d]
       /\ \A d \in Users : d # t /\ d # c => use'[d] = use[d]
       /\ status' \in [Users -> {"unregistered", "pending", "ready", "running", "done"}]
  BY <1>0, <1>3, <1>5, <1>10, <1>12 DEF TypesOK
<1>28. /\ UseOwes(t) = {} /\ UseOwes(t)' = OwedByUse(v) /\ UseOwes(c)' = OwedByUse(left)
       /\ \A d \in Users : d # c /\ d # t => UseOwes(d)' = UseOwes(d)
  BY <1>3, <1>27 DEF UseOwes
<1>29. OwedByOps(agenda[c]) = {} /\ OwedByOps(Rest(c)) = {}
  BY <1>5, <1>22, NoOps
<1>30. waits \cap (OwedByUse(v) \cup OwedByUse(left)) = {}
  <2>1. \A x \in OwedByUse(v) \cup OwedByUse(left) : x[1][2] \in {"anti_in", "out", "anti_out"}
    BY OwedIds
  <2> QED BY <1>19, <2>1
<1>31. OwedApart' /\ Owed' = Owed \cup F
  <2>1. UseOwes(c)' \cap (OwedByOps(X) \cup OwedByOps(Rest(c))) = {}
    BY <1>14, <1>21, <1>28, <1>29, <1>30
  <2>2. UseOwes(t)' \cap (OwedByOps(X) \cup OwedByOps(Rest(c))) = {}
    BY <1>14, <1>21, <1>28, <1>29, <1>30
  <2>3. UseOwes(t)' \cap UseOwes(c)' = {}
    BY <1>14, <1>28
  <2>4. UseOwes(t)' \cup UseOwes(c)' \cup OwedByOps(X) \cup OwedByOps(Rest(c))
           = UseOwes(t) \cup UseOwes(c) \cup OwedByOps(agenda[c]) \cup F
    BY <1>5, <1>14, <1>21, <1>23, <1>28, <1>29
  <2>5. AgendaStep(c, X) /\ X \in Seq(Ops) /\ actions' = actions /\ callables' = callables
    BY <1>10, <1>21, <1>22
  <2> QED BY <1>0, <1>3, <1>5, <1>26, <1>28, <2>1, <2>2, <2>3, <2>4, <2>5, OwedAfterThree
<1>32. ToCome' = ToCome \cup taken
  BY <1>0, <1>5, <1>21, <1>22, ToComeSame
<1>33. ToCome \subseteq Owed
  BY <1>0, ToComeOwed
<1>34. Outstanding' = Outstanding \cup Starting(New) \cup waits
  <2>1. waits \cap taken = {}
    BY <1>16, <1>19
  <2> QED BY <1>14, <1>23, <1>26, <1>31, <1>32, <1>33, <2>1 DEF Outstanding
<1>35. Counted'
  <2>1. Outstanding' = Outstanding \cup Starting(New) \cup WaitTokens(t, v)
    BY <1>17, <1>34
  <2> QED BY <1>0, <1>3, <1>10, <1>12, <1>16, <2>1, CountedNewTask
<1>36. TypesOK'
  <2>1. agenda' \in [Threads -> Seq(Ops)]
    BY <1>0, <1>5, <1>21, <1>22, AgendaAfter
  <2>2. count' \in [Flows -> Nat]
    BY <1>0, <1>10 DEF TypesOK
  <2>3. need' \in [Tasks -> Nat]
    <3>1. PendingCount(v) \in Nat
      BY DEF PendingCount
    <3> QED BY <1>0, <1>10, <3>1 DEF TypesOK
  <2>4. kind' \in [Tasks -> {"read", "write", "index"}]
    BY <1>0, <1>10 DEF TypesOK
  <2>5. captures' \in [Users -> Nat]
    BY <1>0, <1>3, <1>10 DEF TypesOK
  <2> QED BY <1>0, <1>10, <1>27, <2>1, <2>2, <2>3, <2>4, <2>5 DEF TypesOK
<1>37. kind'[t] = k /\ \A d \in Tasks : d # t => kind'[d] = kind[d]
  BY <1>0, <1>3, <1>10 DEF TypesOK
<1>38. UsesOK'
  <2>1. ASSUME NEW d \in Users, status'[d] # "unregistered" PROVE UseFits(d)'
    <3>1. CASE d = t
      <4>1. OwnId(t, v.id)
        BY <1>12 DEF OwnId
      <4>2. kind'[t] = "write" => v.out # None
        BY <1>3, <1>5, <1>7, <1>37, UseForWriter
      <4>3. Writes(t)' <=> kind'[t] = "write"
        BY <1>3 DEF Writes
      <4> QED BY <1>12, <1>16, <1>27, <3>1, <4>1, <4>2, <4>3 DEF UseFits
    <3>2. CASE d = c
      <4>1. OwnId(c, left.id)
        <5>1. CASE left.id = u.id
          BY <1>5, <5>1
        <5>2. CASE left.id = <<t, "continuing">>
          BY <1>3, <5>2 DEF OwnId
        <5> QED BY <1>12, <5>1, <5>2
      <4>2. Writes(c)'
        <5>1. c # Main => c \in Tasks
          BY <1>3 DEF Users
        <5>2. c # Main => kind'[c] = kind[c]
          BY <1>3, <1>37, <5>1
        <5> QED BY <1>5, <5>2 DEF Writes
      <4> QED BY <1>12, <1>16, <1>27, <3>2, <4>1, <4>2 DEF UseFits
    <3>3. CASE d # c /\ d # t
      <4>1. status[d] # "unregistered" /\ use'[d] = use[d]
        BY <1>27, <2>1, <3>3
      <4>2. d # Main => kind'[d] = kind[d]
        BY <1>37, <3>3 DEF Users
      <4>3. Known \subseteq Known'
        BY <1>11
      <4> QED BY <1>0, <4>1, <4>2, <4>3, UseStillFits
    <3> QED BY <3>1, <3>2, <3>3
  <2> QED BY <2>1, UsesFit
<1>39. RegistersOK'
  <2>1. \A th \in Threads : \A op \in Registers(agenda[th]) : GoodRegister(op)'
    BY <1>0, <1>3, <1>11, <1>27, OldRegisters
  <2>2. \A th \in Threads : Registers(agenda'[th]) \subseteq Registers(agenda[th])
    <3>1. Registers(Rest(c)) \subseteq Registers(agenda[c])
      BY <1>0, <1>5, RestFacts
    <3> QED BY <1>0, <1>5, <1>21, <1>22, <3>1, AgendaAfter
  <2> QED BY <2>1, <2>2 DEF RegistersOK
<1>40. UsesKept
  <2>1. ASSUME NEW d \in Users, agenda[d] # <<>> \/ status[d] = "pending"
        PROVE  UseOwes(d) \subseteq UseOwes(d)'
    <3>1. d # c
      BY <1>5, <2>1
    <3> QED BY <1>28, <3>1
  <2> QED BY <2>1 DEF UsesKept
<1>41. ASSUME NEW x \in F
       PROVE  IdOfKnown(x)' /\ AliasOfDone(x)' /\ (x[1] \in WaitUnits => status'[x[2]] = "pending")
  <2>1. x[1][1][1] \in Known'
    BY <1>11, <1>25
  <2>2. CASE x \in waits
    <3>1. x[1][1] = <<t, "captured">> /\ x[2] = t /\ x[1][2] \in {"wait_in", "wait_anti_in", "setup"}
      BY <1>18, <1>19, <2>2
    <3>2. x[1] \notin FlowUnits
      BY <3>1 DEF FlowUnits
    <3> QED BY <1>27, <2>1, <3>1, <3>2 DEF IdOfKnown, AliasOfDone
  <2>3. CASE x \in taken
    <3>1. x[1][2] \in {"anti_in", "out", "anti_out"} /\ x[2][1][1] \in Known'
      BY <1>16, <2>3
    <3>2. x[1] \notin WaitUnits
      BY <3>1 DEF WaitUnits
    <3> QED BY <2>1, <3>1, <3>2 DEF IdOfKnown, AliasOfDone
  <2>4. CASE x \in Starting(New)
    <3>1. x[1] \in Flows /\ x[2][1][1] = t
      BY <1>16, <1>24, <2>4
    <3>2. x[1][2] \in Roles
      BY <3>1 DEF Flows
    <3>3. x[1] \notin WaitUnits
      BY <3>2 DEF WaitUnits, Roles
    <3>4. x[2][1][1] \in Known'
      BY <1>11, <3>1
    <3> QED BY <2>1, <3>2, <3>3, <3>4 DEF IdOfKnown, AliasOfDone, Roles
  <2> QED BY <1>23, <2>2, <2>3, <2>4
<1>42. ASSUME NEW j \in DOMAIN X, NEW unit \in FlowUnits, NEW f \in Flows,
              X[j].do = "increment", X[j].unit = unit, X[j].counter = f
       PROVE  Anchored(c, j, <<unit, f>>)' /\ Backed(c, j, f)'
  <2>1. j \in DOMAIN ops /\ ops[j] = X[j] /\ Later(X, j) = Later(ops, j) \cup waits
    <3>1. j \in DOMAIN (ops \o M) /\ (ops \o M)[j].do = "increment"
      BY <1>9, <1>42
    <3> QED BY <1>9, <1>20, <1>21, <3>1, ConcatLater
  <2>2. Later(agenda'[c], j) = Later(X, j)
    <3>1. Later(agenda'[c], j) = Later(X, j) \cup OwedByOps(Rest(c))
      BY <1>0, <1>5, <1>21, <1>22, <1>42, LaterHere
    <3> QED BY <1>29, <3>1
  <2>3. Setup(t) \in Later(agenda'[c], j)
    BY <1>18, <2>1, <2>2
  <2>4. \A z \in OwedByUse(v) \cup OwedByUse(left) : Anchored(c, j, z)'
    BY <1>3, <1>28, <2>3 DEF Anchored
  <2>5. \A z \in Later(ops, j) : Anchored(c, j, z)'
    BY <2>1, <2>2 DEF Anchored
  <2>6. Anchored(c, j, <<unit, f>>)'
    <3>1. <<unit, f>> \in taken
      BY <1>13, <1>42, <2>1 DEF TakenByOps
    <3> QED BY <1>14, <2>4, <3>1
  <2>7. PICK y : /\ y[1] \in FlowUnits /\ y[2] = f
                 /\ \/ y \in OwedByUse(u) /\ y \in Later(ops, j)
                    \/ y \in OwedByUse(u) /\ y \in OwedByUse(left)
                    \/ y \in OwedByUse(v) /\ y \in Starting(New)
    BY <1>15, <1>42, <2>1
  <2>8. Anchored(c, j, y)'
    BY <2>4, <2>5, <2>7
  <2>9. y \in Tokens
    BY <1>5, <1>12, <2>7, UsesOwe
  <2>10. y \notin ToCome'
    <3>1. CASE y \in OwedByUse(u)
      <4>1. y \in UseOwes(c)
        BY <1>5, <3>1
      <4>2. y \notin ToCome
        BY <1>0, <1>3, <1>5, <4>1, UseArrived
      <4>3. y \in Owed
        BY <1>3, <4>1, OwedAnywhere
      <4> QED BY <1>23, <1>26, <1>32, <4>2, <4>3
    <3>2. CASE y \in Starting(New)
      BY <1>14, <1>23, <1>26, <1>32, <1>33, <3>2
    <3> QED BY <2>7, <3>1, <3>2
  <2> QED BY <2>6, <2>7, <2>8, <2>9, <2>10 DEF Backed
<1>43. (\A d \in Users : status[d] = "done" => status'[d] = "done" /\ use'[d].id = use[d].id)
       /\ (\A d \in Users : status[d] = "pending" => status'[d] = "pending")
  BY <1>3, <1>5, <1>27
<1>44. (agenda[c] = <<>> \/ Head(agenda[c]).do # "increment") /\ Known \subseteq Known'
       /\ TakenByOps(X) \subseteq F
  BY <1>5, <1>11, <1>21, <1>23
<1>45. /\ \A x \in F : IdOfKnown(x)'
       /\ \A x \in F : AliasOfDone(x)'
       /\ \A x \in F : x[1] \in WaitUnits => status'[x[2]] = "pending"
  BY <1>41
<1>46. actions' = actions /\ Fresh(F) /\ OwedApart' /\ Owed' = Owed \cup F
  BY <1>10, <1>26, <1>31
<1>47. X \in Seq(Ops) /\ AgendaStep(c, X) /\ Once(X) /\ TakenOnce(X)
  BY <1>21, <1>22
<1>48. OwedByOps(X) \cap OwedByOps(Rest(c)) = {}
  BY <1>29
<1> QED BY <1>5, <1>11, <1>35, <1>36, <1>38, <1>39, <1>40,
           <1>42, <1>43, <1>44, <1>45, <1>46, <1>47, <1>48, GrowInv, SMTT(60), ZenonT(60)

\* A collection is captured, and its indices are still to be registered.
LEMMA CaptureCollectionInv ==
  ASSUME Inv, CaptureCollection PROVE Inv'
<1>0. /\ TypesOK /\ WaitsPending /\ Anchors /\ TakenApart /\ OwedApart /\ OnceEach /\ Counted
      /\ FreshTasks /\ UsesOK /\ RegistersOK /\ KnownIds /\ AliasIds
  BY DEF Inv
<1>1. PICK c, k, t : c = Main /\ k = "write" /\ t = Append(c, captures[c] + 1)
  OBVIOUS
<1>2. CanCapture(c) /\ c \in {Main} \cup TopTasks /\ Indices > 0 /\ k \in {"read", "write"}
  BY <1>1 DEF CaptureCollection
<1>3. /\ t \in Tasks /\ t \in Users /\ c \in Users /\ t \notin Known /\ c \in Known
      /\ Parent(t) = c /\ t # c /\ t # Main /\ status[t] = "unregistered"
      /\ t \in TopTasks /\ t = <<captures[Main] + 1>>
  BY <1>0, <1>1, <1>2, NewTask
<1>4. PICK u, cap : u = use[c] /\ cap = Parts(u, t, k)
  OBVIOUS
<1>5. /\ u \in Uses /\ Capturable(u, t) /\ GoodUse(u) /\ OwnId(c, u.id) /\ Writes(c)
      /\ UseOwes(c) = OwedByUse(u)
      /\ agenda[c] = <<>> /\ status[c] = "running" /\ c \in Threads
  BY <1>1, <1>2, <1>4, Capturing
<1>6. PICK v, left, ops, New : v = cap.captured /\ left = cap.left /\ ops = cap.ops /\ New = cap.new
  OBVIOUS
<1>7. Captures(u, t, v, left, ops, New) /\ v = UseFor(u, t, k)
  BY <1>2, <1>3, <1>4, <1>5, <1>6, CaptureGives
<1>8. PICK rest, one : rest = RegisterFrom(t, 1, v) /\ one = <<rest>>
  OBVIOUS
<1>9. PICK X : X = ops \o one
  OBVIOUS
<1>10. /\ captures' = [captures EXCEPT ![c] = @ + 1]
       /\ use' = [use EXCEPT ![c] = left]
       /\ count' = [f \in Flows |-> IF f \in New THEN 1 ELSE count[f]]
       /\ agenda' = [agenda EXCEPT ![c] = X]
       /\ need' = need /\ kind' = kind /\ status' = status
       /\ actions' = actions /\ callables' = callables
  <2>1. cap = Capture(Main, <<captures[Main] + 1>>, "write")
    BY <1>1, <1>3, <1>4, CaptureParts
  <2> QED BY <1>1, <1>3, <1>6, <1>8, <1>9, <2>1 DEF CaptureCollection
<1>11. Known' = Known \cup {t} /\ FreshTasks'
  BY <1>0, <1>1, <1>2, <1>10, KnownMore
<1>12. /\ v \in Uses /\ v.id = <<t, "captured">> /\ v.anti_out # None /\ ~v.establishes_alias
       /\ left \in Uses /\ left.id \in {u.id, <<t, "continuing">>}
       /\ left.out # None /\ left.anti_out # None
       /\ left.establishes_alias => ~left.anti_dependency
       /\ Sound(ops) /\ Names(ops) \subseteq UseIds \X {"anti_in", "out", "anti_out"}
  BY <1>7 DEF Captures
<1>13. PICK taken : taken = TakenByOps(ops)
  OBVIOUS
<1>14. /\ OwedByOps(ops) \cup OwedByUse(left) \cup OwedByUse(v) = OwedByUse(u) \cup Starting(New) \cup taken
       /\ OwedByOps(ops) \cap OwedByUse(left) = {} /\ OwedByOps(ops) \cap OwedByUse(v) = {}
       /\ OwedByUse(left) \cap OwedByUse(v) = {} /\ Starting(New) \cap taken = {}
       /\ taken \subseteq OwedByUse(left) \cup OwedByUse(v)
  BY <1>7, <1>13 DEF Captures
<1>15. \A j \in DOMAIN ops : ops[j].do = "increment" =>
           \E y : /\ y[1] \in FlowUnits /\ y[2] = ops[j].counter
                  /\ \/ y \in OwedByUse(u) /\ y \in Later(ops, j)
                     \/ y \in OwedByUse(u) /\ y \in OwedByUse(left)
                     \/ y \in OwedByUse(v) /\ y \in Starting(New)
  BY <1>7 DEF Captures
<1>16. /\ GoodUse(v)' /\ GoodUse(left)'
       /\ New \subseteq Flows /\ \A f \in New : f[1][1] = t
       /\ \A x \in taken : /\ x[1][1][1] = t /\ x[2][1][1] \in Known'
                           /\ x[1][2] \in {"anti_in", "out", "anti_out"}
  BY <1>3, <1>5, <1>7, <1>11, <1>13, CapturedKnown
<1>17. v.anti_dependency /\ v.out = <<<<t, "captured">>, "out">> /\ v.out # None
  BY <1>1, <1>3, <1>5, <1>7, UseForWriter
<1>18. rest \in Ops /\ OwedByOp(rest) = OwedByUse(v) /\ rest.do = "register"
  BY <1>3, <1>8, <1>12, RegisterOp
<1>19. /\ one \in Seq(Ops) /\ OwedByOps(one) = OwedByUse(v) /\ TakenByOps(one) = {}
       /\ Once(one) /\ TakenOnce(one) /\ Registers(one) = {rest}
  <2>1. /\ <<rest>> \in Seq(Ops) /\ OwedByOps(<<rest>>) = OwedByUse(v)
        /\ TakenByOps(<<rest>>) = {} /\ Once(<<rest>>) /\ TakenOnce(<<rest>>)
        /\ Registers(<<rest>>) = {rest}
    BY <1>18, SingleOps, RegistersSingle
  <2> QED BY <1>8, <2>1
<1>20. ops \in Seq(Ops) /\ Once(ops) /\ TakenOnce(ops) /\ Registers(ops) = {}
  BY <1>12 DEF Sound
<1>21. /\ X \in Seq(Ops) /\ OwedByOps(X) = OwedByOps(ops) \cup OwedByUse(v)
       /\ TakenByOps(X) = taken /\ Once(X) /\ TakenOnce(X) /\ Registers(X) = {rest}
  <2>1. /\ X \in Seq(Ops) /\ OwedByOps(X) = OwedByOps(ops) \cup OwedByOps(one)
        /\ TakenByOps(X) = TakenByOps(ops) \cup TakenByOps(one)
    BY <1>9, <1>19, <1>20, ConcatOps
  <2>2. Registers(X) = Registers(ops) \cup Registers(one)
    BY <1>9, <1>19, <1>20, RegistersConcat
  <2>3. Once(X)
    BY <1>9, <1>14, <1>19, <1>20, ConcatOnce
  <2>4. TakenOnce(X)
    BY <1>9, <1>19, <1>20, ConcatOnce
  <2> QED BY <1>13, <1>19, <1>20, <2>1, <2>2, <2>3, <2>4
<1>22. AgendaStep(c, X) /\ Rest(c) = <<>>
  <2>1. Rest(c) = <<>>
    BY <1>5 DEF Rest
  <2>2. X \o <<>> = X
    BY <1>21, ConcatEmptySeq
  <2> QED BY <1>10, <2>1, <2>2 DEF AgendaStep
<1>23. PICK F : F = Starting(New) \cup taken
  OBVIOUS
<1>24. \A x \in Starting(New) : x[1] \in New /\ x[2] \in New /\ x[1] = x[2]
  BY DEF Starting
<1>25. \A x \in F : x[1][1][1] = t
  BY <1>16, <1>23, <1>24
<1>26. Fresh(F) /\ F \cap Owed = {}
  BY <1>0, <1>3, <1>25, FreshTask
<1>27. /\ use' \in [Users -> Uses] /\ use'[c] = left /\ status' = status
       /\ \A d \in Users : d # c => use'[d] = use[d]
  BY <1>0, <1>3, <1>5, <1>10, <1>12 DEF TypesOK
<1>28. /\ UseOwes(c)' = OwedByUse(left)
       /\ \A d \in Users : d # c => UseOwes(d)' = UseOwes(d)
  BY <1>5, <1>27 DEF UseOwes
<1>29. OwedByOps(agenda[c]) = {} /\ OwedByOps(Rest(c)) = {}
  BY <1>5, <1>22, NoOps
<1>31. OwedApart' /\ Owed' = Owed \cup F
  <2>1. UseOwes(c)' \cap (OwedByOps(X) \cup OwedByOps(Rest(c))) = {}
    BY <1>14, <1>21, <1>28, <1>29
  <2>2. UseOwes(c)' \cup OwedByOps(X) \cup OwedByOps(Rest(c))
           = UseOwes(c) \cup OwedByOps(agenda[c]) \cup F
    BY <1>5, <1>14, <1>21, <1>23, <1>28, <1>29
  <2>3. AgendaStep(c, X) /\ X \in Seq(Ops) /\ actions' = actions /\ callables' = callables
    BY <1>10, <1>21, <1>22
  <2> QED BY <1>0, <1>3, <1>5, <1>26, <1>28, <2>1, <2>2, <2>3, OwedAfterTwo
<1>32. ToCome' = ToCome \cup taken
  BY <1>0, <1>5, <1>21, <1>22, ToComeSame
<1>33. ToCome \subseteq Owed
  BY <1>0, ToComeOwed
<1>34. Outstanding' = Outstanding \cup Starting(New)
  BY <1>14, <1>23, <1>26, <1>31, <1>32, <1>33 DEF Outstanding
<1>35. Counted'
  BY <1>0, <1>3, <1>10, <1>16, <1>34, CountedNewUse
<1>36. TypesOK'
  <2>1. agenda' \in [Threads -> Seq(Ops)]
    BY <1>0, <1>5, <1>21, <1>22, AgendaAfter
  <2>2. count' \in [Flows -> Nat]
    BY <1>0, <1>10 DEF TypesOK
  <2>3. captures' \in [Users -> Nat]
    BY <1>0, <1>3, <1>10 DEF TypesOK
  <2> QED BY <1>0, <1>10, <1>27, <2>1, <2>2, <2>3 DEF TypesOK
<1>38. UsesOK'
  <2>1. ASSUME NEW d \in Users, status'[d] # "unregistered" PROVE UseFits(d)'
    <3>1. CASE d = c
      <4>1. OwnId(c, left.id)
        <5>1. CASE left.id = u.id
          BY <1>5, <5>1
        <5>2. CASE left.id = <<t, "continuing">>
          BY <1>3, <5>2 DEF OwnId
        <5> QED BY <1>12, <5>1, <5>2
      <4>2. Writes(c)'
        BY <1>1 DEF Writes
      <4> QED BY <1>12, <1>16, <1>27, <3>1, <4>1, <4>2 DEF UseFits
    <3>2. CASE d # c
      <4>1. status[d] # "unregistered" /\ use'[d] = use[d]
        BY <1>27, <2>1, <3>2
      <4>2. d # Main => kind'[d] = kind[d]
        BY <1>10
      <4>3. Known \subseteq Known'
        BY <1>11
      <4> QED BY <1>0, <4>1, <4>2, <4>3, UseStillFits
    <3> QED BY <3>1, <3>2
  <2> QED BY <2>1, UsesFit
<1>39. RegistersOK'
  <2>1. \A th \in Threads : \A op \in Registers(agenda[th]) : GoodRegister(op)'
    BY <1>0, <1>3, <1>11, <1>27, OldRegisters
  <2>2. GoodRegister(rest)'
    <3>1. rest.task = t /\ rest.index = 1 /\ rest.use = v
      BY <1>8 DEF RegisterFrom
    <3>2. ASSUME NEW j \in 1..Indices PROVE status'[Append(t, j)] = "unregistered"
      <4>1. Append(t, j) \in SubTasks /\ Append(t, j) = <<t[1], j>>
        BY <1>2, <1>3, <3>2, TopSubTask
      <4>2. PICK s : s = Append(t, j)
        OBVIOUS
      <4>3. s \in SubTasks /\ s[1] = t[1] /\ s \in Tasks
        BY <4>1, <4>2 DEF Tasks
      <4>4. <<s[1]>> = t
        BY <1>3, <4>3, TasksApart
      <4>5. s \notin Known
        BY <1>0, <1>3, <4>3, <4>4 DEF FreshTasks
      <4> QED BY <1>0, <1>27, <4>2, <4>3, <4>5 DEF FreshTasks
    <3>3. 1 \in 1..(Indices + 1) /\ t \in Known'
      BY <1>2, <1>11, BoundsAssumption
    <3> QED BY <1>2, <1>3, <1>12, <1>16, <1>17, <3>1, <3>2, <3>3 DEF GoodRegister
  <2>3. \A th \in Threads : Registers(agenda'[th]) \subseteq Registers(agenda[th]) \cup {rest}
    <3>1. Registers(Rest(c)) \subseteq Registers(agenda[c])
      BY <1>0, <1>5, RestFacts
    <3> QED BY <1>0, <1>5, <1>21, <1>22, <3>1, AgendaAfter
  <2> QED BY <2>1, <2>2, <2>3 DEF RegistersOK
<1>40. UsesKept
  <2>1. ASSUME NEW d \in Users, agenda[d] # <<>> \/ status[d] = "pending"
        PROVE  UseOwes(d) \subseteq UseOwes(d)'
    <3>1. d # c
      BY <1>5, <2>1
    <3> QED BY <1>28, <3>1
  <2> QED BY <2>1 DEF UsesKept
<1>41. ASSUME NEW x \in F
       PROVE  IdOfKnown(x)' /\ AliasOfDone(x)' /\ (x[1] \in WaitUnits => status'[x[2]] = "pending")
  <2>1. x[1][1][1] \in Known'
    BY <1>11, <1>25
  <2>3. CASE x \in taken
    <3>1. x[1][2] \in {"anti_in", "out", "anti_out"} /\ x[2][1][1] \in Known'
      BY <1>16, <2>3
    <3>2. x[1] \notin WaitUnits
      BY <3>1 DEF WaitUnits
    <3> QED BY <2>1, <3>1, <3>2 DEF IdOfKnown, AliasOfDone
  <2>4. CASE x \in Starting(New)
    <3>1. x[1] \in Flows /\ x[2][1][1] = t
      BY <1>16, <1>24, <2>4
    <3>2. x[1][2] \in Roles
      BY <3>1 DEF Flows
    <3>3. x[1] \notin WaitUnits
      BY <3>2 DEF WaitUnits, Roles
    <3>4. x[2][1][1] \in Known'
      BY <1>11, <3>1
    <3> QED BY <2>1, <3>2, <3>3, <3>4 DEF IdOfKnown, AliasOfDone, Roles
  <2> QED BY <1>23, <2>3, <2>4
<1>42. ASSUME NEW j \in DOMAIN X, NEW unit \in FlowUnits, NEW f \in Flows,
              X[j].do = "increment", X[j].unit = unit, X[j].counter = f
       PROVE  Anchored(c, j, <<unit, f>>)' /\ Backed(c, j, f)'
  <2>1. j \in DOMAIN ops /\ ops[j] = X[j] /\ Later(X, j) = Later(ops, j) \cup OwedByUse(v)
    <3>1. j \in DOMAIN (ops \o one) /\ (ops \o one)[j].do = "increment"
      BY <1>9, <1>42
    <3> QED BY <1>9, <1>19, <1>20, <3>1, ConcatLater, SMTT(60), ZenonT(60)
  <2>2. Later(agenda'[c], j) = Later(X, j)
    <3>1. Later(agenda'[c], j) = Later(X, j) \cup OwedByOps(Rest(c))
      BY <1>0, <1>5, <1>21, <1>22, <1>42, LaterHere
    <3> QED BY <1>29, <3>1
  <2>4. \A z \in OwedByUse(v) \cup OwedByUse(left) : Anchored(c, j, z)'
    <3>1. \A z \in OwedByUse(v) : Anchored(c, j, z)'
      BY <2>1, <2>2 DEF Anchored
    <3>2. \A z \in OwedByUse(left) : Anchored(c, j, z)'
      BY <1>3, <1>28 DEF Anchored
    <3> QED BY <3>1, <3>2
  <2>5. \A z \in Later(ops, j) : Anchored(c, j, z)'
    BY <2>1, <2>2 DEF Anchored
  <2>6. Anchored(c, j, <<unit, f>>)'
    <3>1. <<unit, f>> \in taken
      BY <1>13, <1>42, <2>1 DEF TakenByOps
    <3> QED BY <1>14, <2>4, <3>1
  <2>7. PICK y : /\ y[1] \in FlowUnits /\ y[2] = f
                 /\ \/ y \in OwedByUse(u) /\ y \in Later(ops, j)
                    \/ y \in OwedByUse(u) /\ y \in OwedByUse(left)
                    \/ y \in OwedByUse(v) /\ y \in Starting(New)
    BY <1>15, <1>42, <2>1
  <2>8. Anchored(c, j, y)'
    BY <2>4, <2>5, <2>7
  <2>9. y \in Tokens
    BY <1>5, <1>12, <2>7, UsesOwe
  <2>10. y \notin ToCome'
    <3>1. CASE y \in OwedByUse(u)
      <4>1. y \in UseOwes(c)
        BY <1>5, <3>1
      <4>2. y \notin ToCome
        BY <1>0, <1>3, <1>5, <4>1, UseArrived
      <4>3. y \in Owed
        BY <1>3, <4>1, OwedAnywhere
      <4> QED BY <1>23, <1>26, <1>32, <4>2, <4>3
    <3>2. CASE y \in Starting(New)
      BY <1>14, <1>23, <1>26, <1>32, <1>33, <3>2
    <3> QED BY <2>7, <3>1, <3>2
  <2> QED BY <2>6, <2>7, <2>8, <2>9, <2>10 DEF Backed
<1>43. (\A d \in Users : status[d] = "done" => status'[d] = "done" /\ use'[d].id = use[d].id)
       /\ (\A d \in Users : status[d] = "pending" => status'[d] = "pending")
  BY <1>3, <1>5, <1>27
<1>44. (agenda[c] = <<>> \/ Head(agenda[c]).do # "increment") /\ Known \subseteq Known'
       /\ TakenByOps(X) \subseteq F
  BY <1>5, <1>11, <1>21, <1>23
<1>45. /\ \A x \in F : IdOfKnown(x)'
       /\ \A x \in F : AliasOfDone(x)'
       /\ \A x \in F : x[1] \in WaitUnits => status'[x[2]] = "pending"
  BY <1>41
<1>46. actions' = actions /\ Fresh(F) /\ OwedApart' /\ Owed' = Owed \cup F
  BY <1>10, <1>26, <1>31
<1>47. X \in Seq(Ops) /\ AgendaStep(c, X) /\ Once(X) /\ TakenOnce(X)
  BY <1>21, <1>22
<1>48. OwedByOps(X) \cap OwedByOps(Rest(c)) = {}
  BY <1>29
<1> QED BY <1>5, <1>11, <1>35, <1>36, <1>38, <1>39, <1>40,
           <1>42, <1>43, <1>44, <1>45, <1>46, <1>47, <1>48, GrowInv, SMTT(60), ZenonT(60)

-----------------------------------------------------------------------------
(* The invariant holds                                                      *)

\* At first the handle has been initialized, and its use owes what is counted.
LEMMA InitInv == Init => Inv
<1> SUFFICES ASSUME Init PROVE Inv
  OBVIOUS
<1> DEFINE id  == <<Main, "captured">>
           v   == Registered(id, InitialRels, FALSE)
           ops == RegisterUse(id, InitialRels, FALSE)
           New == NewFlows(id, InitialRels)
<1>1. /\ v \in Uses /\ v.id = id /\ v.out = <<id, "out">> /\ v.anti_in = None
      /\ v.anti_out = <<id, "anti_out">>
  BY InitialUse
<1>2. ~v.anti_dependency /\ ~v.establishes_alias
  BY InitialUse
<1>3. New = {<<id, "in">>, <<id, "out">>, <<id, "anti_out">>}
  BY InitialUse
<1>4. Sound(ops) /\ OwedByOps(ops) = {<<<<id, "in">>, <<id, "in">>>>} /\ TakenByOps(ops) = {}
  BY InitialUse
<1>5. /\ count = [f \in Flows |-> IF f \in New THEN 1 ELSE 0]
      /\ actions = [f \in Flows |-> <<>>]
      /\ use = [c \in Users |-> v]
      /\ agenda = [th \in Threads |-> IF th = Main THEN ops ELSE <<>>]
      /\ captures = [c \in Users |-> 0]
      /\ kind = [t \in Tasks |-> "read"]
      /\ status = [c \in Users |-> IF c = Main THEN "running" ELSE "unregistered"]
      /\ need = [t \in Tasks |-> 0]
      /\ callables = {}
  BY DEF Init, Users
<1>6. id \in UseIds /\ id[1] = Main /\ v.out # None /\ v.anti_out # None
  <2>1. id \in UseIds /\ id # <<Main, "continuing">>
    BY DEF UseIds
  <2>2. <<id, "out">> # None /\ <<id, "anti_out">> # None
    BY DEF None
  <2> QED BY <1>1, <2>1, <2>2
<1> HIDE DEF v, ops, New, id
<1>7. Main \in Users /\ Main \in Threads /\ \A t \in Tasks : t # Main /\ t \in Users
  BY TasksApart, UsersRun DEF Tasks
<1>8. /\ agenda[Main] = ops /\ \A th \in Threads : th # Main => agenda[th] = <<>>
      /\ status[Main] = "running" /\ \A t \in Tasks : status[t] = "unregistered"
      /\ \A c \in Users : use[c] = v /\ (c # Main => status[c] = "unregistered")
      /\ \A f \in Flows : actions[f] = <<>> /\ count[f] = IF f \in New THEN 1 ELSE 0
      /\ \A t \in Tasks : need[t] = 0
  BY <1>5, <1>7
<1>9. TypesOK
  <2>1. ops \in Seq(Ops) /\ <<>> \in Seq(Ops) /\ <<>> \in Seq(Payloads)
    BY <1>4 DEF Sound
  <2>2. agenda \in [Threads -> Seq(Ops)]
    BY <1>5, <2>1
  <2>3. actions \in [Flows -> Seq(Payloads)] /\ count \in [Flows -> Nat]
    BY <1>5, <2>1
  <2>4. /\ use \in [Users -> Uses] /\ captures \in [Users -> Nat]
        /\ kind \in [Tasks -> {"read", "write", "index"}] /\ need \in [Tasks -> Nat]
    BY <1>1, <1>5
  <2>5. status \in [Users -> {"unregistered", "pending", "ready", "running", "done"}]
    BY <1>5
  <2> QED BY <1>5, <2>2, <2>3, <2>4, <2>5 DEF TypesOK
<1>10. Known = {Main}
  <2>1. \A t \in TopTasks : t \notin Known
    <3>1. SUFFICES ASSUME NEW t \in TopTasks PROVE t \notin Known
      OBVIOUS
    <3>2. t[1] \in 1..Width /\ t \notin SubTasks /\ t # Main
      BY TasksApart
    <3>3. captures[Main] = 0
      BY <1>5, <1>7
    <3>4. ~(t[1] <= captures[Main])
      BY <3>2, <3>3, BoundsAssumption
    <3> QED BY <3>2, <3>4 DEF Known
  <2>2. \A t \in SubTasks : t \notin Known
    <3>1. SUFFICES ASSUME NEW t \in SubTasks PROVE t \notin Known
      OBVIOUS
    <3>2. t \notin TopTasks /\ t # Main /\ status[t] = "unregistered"
      BY <1>8, TasksApart DEF Tasks
    <3>3. <<t[1]>> \in Users /\ t[2] \in Int /\ t[2] >= 1
      BY BoundsAssumption DEF SubTasks, Users, Tasks, TopTasks
    <3>4. captures[<<t[1]>>] = 0
      BY <1>5, <3>3
    <3>5. ~(t[2] <= captures[<<t[1]>>])
      BY <3>3, <3>4
    <3> QED BY <3>2, <3>5 DEF Known
  <2>3. Main \in Known /\ Known \subseteq {Main} \cup TopTasks \cup SubTasks
    BY DEF Known
  <2> QED BY <2>1, <2>2, <2>3
<1>11. FreshTasks
  <2>1. \A t \in SubTasks : t \notin Known
    BY <1>10, TasksApart
  <2> QED BY <1>8, <2>1 DEF FreshTasks
<1>12. UsesOK
  <2>1. None[1][1] = Main
    BY DEF None
  <2>2. GoodUse(v)
    BY <1>1, <1>6, <1>10, <2>1 DEF GoodUse
  <2>3. OwnId(Main, v.id)
    BY <1>1 DEF OwnId, id
  <2>4. Writes(Main)
    BY DEF Writes
  <2> QED BY <1>2, <1>6, <1>8, <2>2, <2>3, <2>4 DEF UsesOK
<1>13. \A th \in Threads : /\ TakenByOps(agenda[th]) = {} /\ Registers(agenda[th]) = {}
                           /\ Once(agenda[th]) /\ TakenOnce(agenda[th])
                           /\ th # Main => OwedByOps(agenda[th]) = {}
  <2>1. Registers(<<>>) = {}
    BY DEF Registers
  <2> QED BY <1>4, <1>8, <2>1, NoOps DEF Sound
<1>14. RegistersOK
  BY <1>13 DEF RegistersOK
<1>15. ToCome = {}
  BY <1>13 DEF ToCome
<1>16. OwedByUse(v) = {<<<<id, "anti_out">>, <<id, "anti_out">>>>, <<<<id, "out">>, <<id, "out">>>>}
  <2>1. OwedByUse(v) = {<<<<v.id, "anti_out">>, v.anti_out>>}
           \cup (IF v.out = None THEN {} ELSE {<<<<v.id, "out">>, v.out>>})
           \cup (IF v.anti_in = None THEN {} ELSE {<<<<v.id, "anti_in">>, v.anti_in>>})
    BY <1>1, <1>2, <1>6, OwedByReader
  <2> QED BY <1>1, <1>6, <2>1
<1>17. UseOwes(Main) = OwedByUse(v) /\ \A c \in Users : c # Main => UseOwes(c) = {}
  BY <1>7, <1>8 DEF UseOwes
<1>18. \A f \in Flows : OwedByOps(actions[f]) = {} /\ Once(actions[f])
  BY <1>8, NoOps
<1>19. CallablesOwe = {}
  BY <1>5 DEF CallablesOwe
<1>20. OwedByOps(agenda[Main]) \cap UseOwes(Main) = {}
  BY <1>4, <1>8, <1>16, <1>17
<1>21. \A p \in Places : p # <<"agenda", Main>> /\ p # <<"use", Main>> => Holds[p] = {}
  BY <1>13, <1>17, <1>18, <1>19, PlaceKinds, HoldsNow
<1>22. OwedApart
  <2>1. Holds[<<"agenda", Main>>] \cap Holds[<<"use", Main>>] = {}
    BY <1>7, <1>20, HoldsNow
  <2> QED BY <1>21, <2>1 DEF OwedApart
<1>23. Owed = OwedByOps(agenda[Main]) \cup UseOwes(Main)
  <2>1. /\ <<"agenda", Main>> \in Places /\ <<"use", Main>> \in Places
        /\ Holds[<<"agenda", Main>>] = OwedByOps(agenda[Main])
        /\ Holds[<<"use", Main>>] = UseOwes(Main)
        /\ Owed = UNION {Holds[p] : p \in Places}
    BY <1>7, PlaceKinds, HoldsNow
  <2> QED BY <1>21, <2>1
<1>24. \A x : x \in Owed <=> x \in Starting(New)
  <2>1. \A x : x \in Starting(New) <=> \E f \in New : x = <<f, f>>
    BY DEF Starting
  <2>2. PICK a, b, c : a = <<id, "in">> /\ b = <<id, "out">> /\ c = <<id, "anti_out">>
    OBVIOUS
  <2>3. New = {a, b, c}
    BY <1>3, <2>2
  <2>4. OwedByUse(v) = {<<c, c>>, <<b, b>>} /\ OwedByOps(ops) = {<<a, a>>}
    BY <1>4, <1>16, <2>2
  <2>5. OwedByOps(agenda[Main]) = {<<a, a>>} /\ UseOwes(Main) = {<<c, c>>, <<b, b>>}
    BY <1>8, <1>17, <2>4
  <2>6. Owed = {<<a, a>>} \cup {<<c, c>>, <<b, b>>}
    BY <1>23, <2>5
  <2>7. \A x : x \in Starting(New) <=> x = <<a, a>> \/ x = <<b, b>> \/ x = <<c, c>>
    BY <2>1, <2>3
  <2> QED BY <2>6, <2>7
<1>25. \A x \in Owed : \E f \in New : x = <<f, f>> /\ x[1] = f /\ x[2] = f /\ f[1] = id
                          /\ f[2] \in {"in", "out", "anti_out"}
  <2>1. \A x \in Starting(New) : \E f \in New : x = <<f, f>> /\ x[1] = f /\ x[2] = f
    BY DEF Starting
  <2>2. \A f \in New : f[1] = id /\ f[2] \in {"in", "out", "anti_out"}
    BY <1>3
  <2> QED BY <1>24, <2>1, <2>2
<1>26. \A x \in Owed : x[1] \in FlowUnits /\ x[1] \notin WaitUnits
  <2>1. SUFFICES ASSUME NEW x \in Owed PROVE x[1] \in FlowUnits /\ x[1] \notin WaitUnits
    OBVIOUS
  <2>2. PICK f \in New : x[1] = f /\ f[1] = id /\ f[2] \in {"in", "out", "anti_out"}
    BY <1>25
  <2>3. f \in FlowUnits
    BY <1>3, <1>6 DEF FlowUnits
  <2>4. f \notin WaitUnits
    BY <2>2 DEF WaitUnits
  <2> QED BY <2>2, <2>3, <2>4
<1>27. KnownIds
  <2>1. \A x \in Owed : x[1][1][1] = Main /\ x[2][1][1] = Main
    <3>1. SUFFICES ASSUME NEW x \in Owed PROVE x[1][1][1] = Main /\ x[2][1][1] = Main
      OBVIOUS
    <3>2. PICK f \in New : x[1] = f /\ x[2] = f /\ f[1] = id
      BY <1>25
    <3> QED BY <1>6, <3>2
  <2> QED BY <1>10, <1>26, <2>1 DEF KnownIds
<1>28. AliasIds /\ WaitsPending
  <2>1. \A x \in Owed : x[1][2] \in {"in", "out", "anti_out"}
    BY <1>25
  <2> QED BY <1>26, <2>1 DEF AliasIds, WaitsPending
<1>29. Anchors
  <2>1. ASSUME NEW th \in Threads, NEW k \in DOMAIN agenda[th], NEW unit \in FlowUnits, NEW f \in Flows,
               Taking(th, k, unit, f)
        PROVE  FALSE
    <3>1. <<unit, f>> \in TakenByOps(agenda[th])
      BY <2>1 DEF Taking, TakenByOps
    <3> QED BY <1>13, <3>1
  <2> QED BY <2>1 DEF Anchors
<1>30. TakenApart /\ OnceEach
  BY <1>13, <1>18 DEF TakenApart, OnceEach
<1>31. Counted
  <2>1. Outstanding = Owed
    BY <1>15 DEF Outstanding
  <2>2. ASSUME NEW f \in Flows PROVE count[f] = Cardinality(FlowShare(Outstanding, f))
    <3>1. CASE f \in New
      <4>1. PICK x : x = <<f, f>>
        OBVIOUS
      <4>2. x \in Starting(New) /\ x[2] = f
        BY <3>1, <4>1 DEF Starting
      <4>3. FlowShare(Outstanding, f) = {x}
        <5>1. \A y \in Owed : y[2] = f => y = x
          BY <1>25, <4>1
        <5> QED BY <1>24, <1>26, <2>1, <4>2, <5>1 DEF FlowShare
      <4> QED BY <1>8, <3>1, <4>3, FS_Singleton
    <3>2. CASE f \notin New
      <4>1. FlowShare(Outstanding, f) = {}
        BY <1>25, <2>1, <3>2 DEF FlowShare
      <4> QED BY <1>8, <3>2, <4>1, FS_EmptySet
    <3> QED BY <3>1, <3>2
  <2>3. ASSUME NEW t \in Tasks PROVE need[t] = Cardinality(WaitShare(Outstanding, t))
    <3>1. WaitShare(Outstanding, t) = {}
      BY <1>26, <2>1 DEF WaitShare
    <3> QED BY <1>8, <3>1, FS_EmptySet
  <2> QED BY <2>2, <2>3 DEF Counted
<1> QED BY <1>9, <1>11, <1>12, <1>14, <1>22, <1>27, <1>28, <1>29, <1>30, <1>31 DEF Inv

\* Nothing changes when nothing does.
LEMMA StutterInv == ASSUME Inv, UNCHANGED vars PROVE Inv'
<1>0. /\ TypesOK /\ WaitsPending /\ Anchors /\ TakenApart /\ OwedApart /\ OnceEach /\ Counted
      /\ FreshTasks /\ UsesOK /\ RegistersOK /\ KnownIds /\ AliasIds
  BY DEF Inv
<1>1. /\ count' = count /\ actions' = actions /\ use' = use /\ agenda' = agenda
      /\ captures' = captures /\ kind' = kind /\ status' = status /\ need' = need
      /\ callables' = callables
  BY DEF vars
<1>2. NothingNew /\ TypesOK'
  BY <1>0, <1>1 DEF NothingNew, TypesOK
<1>3. (\A c \in Users : UseOwes(c)' = UseOwes(c)) /\ UsesKept
  BY <1>1, UseOwesSame
<1>4. \A p \in Places : Holds'[p] = Holds[p]
  BY <1>1, <1>3, PlaceKinds, PlacesSame
<1>5. OwedApart' /\ Owed' = Owed
  <2>1. OwedApart'
    BY <1>0, <1>4 DEF OwedApart
  <2>2. Owed' = UNION {Holds'[p] : p \in Places} /\ Owed = UNION {Holds[p] : p \in Places}
    BY HoldsNow, HoldsNext
  <2> QED BY <1>4, <2>1, <2>2
<1>6. ToCome' = ToCome
  <2>1. ToCome' \subseteq ToCome
    BY <1>1, ToComeNow, ToComeNext
  <2>2. ToCome \subseteq ToCome'
    BY <1>1, ToComeNow, ToComeNext
  <2> QED BY <2>1, <2>2
<1>7. FreshTasks' /\ UsesOK' /\ RegistersOK' /\ KnownIds' /\ AliasIds'
  BY <1>0, <1>1, <1>2, <1>5, QuietStep
<1>8. WaitsPending'
  BY <1>0, <1>1, <1>5 DEF WaitsPending
<1>9. Anchors'
  <2>1. ASSUME NEW th \in Threads, NEW k \in DOMAIN agenda'[th], NEW unit \in FlowUnits, NEW f \in Flows,
               Taking(th, k, unit, f)'
        PROVE  Anchored(th, k, <<unit, f>>)' /\ Backed(th, k, f)'
    <3>1. k \in DOMAIN agenda[th] /\ Taking(th, k, unit, f)
      BY <1>1, <2>1 DEF Taking
    <3>2. Anchored(th, k, <<unit, f>>) /\ Backed(th, k, f)
      BY <1>0, <3>1 DEF Anchors
    <3>3. Later(agenda'[th], k) = Later(agenda[th], k)
      BY <1>1
    <3>4. Anchored(th, k, <<unit, f>>)'
      BY <1>0, <1>3, <3>1, <3>2, <3>3, AnchoredKept
    <3>5. PICK F : F = {}
      OBVIOUS
    <3>6. Fresh(F) /\ ToCome' \subseteq ToCome \cup F
      BY <1>6, <3>5 DEF Fresh
    <3>7. Backed(th, k, f)'
      BY <1>0, <1>3, <3>1, <3>2, <3>3, <3>6, BackedKept
    <3> QED BY <3>4, <3>7
  <2> QED BY <2>1 DEF Anchors
<1>10. TakenApart' /\ OnceEach'
  BY <1>0, <1>1 DEF TakenApart, OnceEach
<1>11. Counted'
  <2>1. Outstanding' = Outstanding
    BY <1>5, <1>6 DEF Outstanding
  <2> QED BY <1>0, <1>1, <2>1, CountedSame
<1> QED BY <1>2, <1>5, <1>7, <1>8, <1>9, <1>10, <1>11 DEF Inv

\* Every step keeps the invariant.
LEMMA NextInv == ASSUME Inv, [Next]_vars PROVE Inv'
<1>1. ASSUME NEW th \in Threads, Step(th) PROVE Inv'
  <2>1. CASE DoIncrement(th)
    BY <2>1, IncrementInv
  <2>2. CASE DoDecrement(th)
    BY <2>2, DecrementInv
  <2>3. CASE DoAttach(th)
    BY <2>3, AttachInv
  <2>4. CASE DoEnqueue(th)
    BY <2>4, EnqueueInv
  <2>5. CASE DoSatisfy(th)
    BY <2>5, SatisfyInv
  <2>6. CASE DoRegister(th)
    <3>1. Head(agenda[th]).index \in Nat
      <4>1. agenda[th] # <<>> /\ Head(agenda[th]).do = "register"
        BY <2>6 DEF DoRegister, IsNext
      <4> QED BY <4>1, HeadFacts, OpKinds
    <3>2. CASE Head(agenda[th]).index > Indices
      BY <2>6, <3>2, RegisterLastInv
    <3>3. CASE Head(agenda[th]).index <= Indices
      BY <2>6, <3>3, RegisterIndexInv
    <3> QED BY <3>1, <3>2, <3>3, BoundsAssumption
  <2> QED BY <1>1, <2>1, <2>2, <2>3, <2>4, <2>5, <2>6 DEF Step
<1>2. ASSUME NEW c \in {Main} \cup TopTasks, NEW k \in {"read", "write"}, CaptureTask(c, k) PROVE Inv'
  BY <1>2, CaptureTaskInv
<1>3. CASE CaptureCollection
  BY <1>3, CaptureCollectionInv
<1>4. ASSUME NEW t \in Tasks, Start(t) PROVE Inv'
  BY <1>4, StartInv
<1>5. ASSUME NEW c \in {Main} \cup Tasks, Finish(c) PROVE Inv'
  <2>1. c \in Users
    BY DEF Users
  <2> QED BY <1>5, <2>1, FinishInv
<1>6. ASSUME NEW w \in Helpers, RunCallable(w) PROVE Inv'
  BY <1>6, RunCallableInv
<1>7. CASE UNCHANGED vars
  BY <1>7, StutterInv
<1> QED BY <1>1, <1>2, <1>3, <1>4, <1>5, <1>6, <1>7 DEF Next

\* The invariant holds always, for any width and depth of the program, any number of
\* indices and of workers.
THEOREM FlowsInvariant == Spec => []Inv
<1>1. Init => Inv
  BY InitInv
<1>2. Inv /\ [Next]_vars => Inv'
  BY NextInv
<1> QED BY <1>1, <1>2, PTL DEF Spec

\* What an increment finds is backed, and what a decrement gives back is outstanding.
LEMMA InvAsserts == ASSUME Inv PROVE AssertsHold
<1>0. TypesOK /\ Anchors /\ Counted
  BY DEF Inv
<1>1. SUFFICES ASSUME NEW th \in Threads, agenda[th] # <<>>,
                      Head(agenda[th]).do \in {"increment", "decrement"}
               PROVE  count[Head(agenda[th]).counter] > 0
  BY DEF AssertsHold
<1>2. PICK op : op = Head(agenda[th])
  OBVIOUS
<1>3. op \in Ops /\ op.counter \in Flows /\ op.unit \in FlowUnits
  <2>1. op \in Ops
    BY <1>1, <1>2, HeadFacts
  <2> QED BY <1>1, <1>2, <2>1, OpKinds
<1>4. PICK f, unit : f = op.counter /\ unit = op.unit
  OBVIOUS
<1>5. \E x : x \in FlowShare(Outstanding, f)
  <2>1. CASE op.do = "increment"
    <3>1. 1 \in DOMAIN agenda[th] /\ agenda[th][1] = op
      BY <1>0, <1>1, <1>2, TailOps DEF TypesOK
    <3>2. Taking(th, 1, unit, f)
      BY <1>4, <2>1, <3>1 DEF Taking
    <3>3. Backed(th, 1, f)
      BY <1>0, <1>3, <1>4, <3>1, <3>2 DEF Anchors
    <3>4. PICK x \in Tokens : x \notin ToCome /\ x[1] \in FlowUnits /\ x[2] = f /\ Anchored(th, 1, x)
      BY <3>3 DEF Backed
    <3>5. x \in Owed
      BY <1>0, <3>1, <3>4, AnchoredOwed
    <3> QED BY <3>4, <3>5 DEF FlowShare, Outstanding
  <2>2. CASE op.do = "decrement"
    <3>1. PICK x : x = <<unit, f>>
      OBVIOUS
    <3>2. x \in OwedByOp(op) /\ x[1] \in FlowUnits /\ x[2] = f
      BY <1>3, <1>4, <2>2, <3>1 DEF OwedByOp
    <3>3. x \in Owed \ ToCome
      BY <1>1, <1>2, <3>2, HeadFacts
    <3> QED BY <3>2, <3>3 DEF FlowShare, Outstanding
  <2> QED BY <1>1, <1>2, <2>1, <2>2
<1>6. IsFiniteSet(FlowShare(Outstanding, f))
  BY <1>0, OutstandingTyped, SharesFinite
<1>7. Cardinality(FlowShare(Outstanding, f)) \in Nat /\ Cardinality(FlowShare(Outstanding, f)) # 0
  BY <1>5, <1>6, FS_CardinalityType, FS_EmptySet
<1>8. count[f] = Cardinality(FlowShare(Outstanding, f))
  BY <1>0, <1>3, <1>4 DEF Counted
<1> QED BY <1>2, <1>4, <1>7, <1>8

\* Every count is the number of units outstanding.
LEMMA InvCounts == ASSUME Inv PROVE CountsAreOwed
<1>1. OwedApart /\ OnceEach /\ Counted
  BY DEF Inv
<1>2. \A p \in Places : Holds[p] = OwedAt(p)
  BY DEF Holds
<1>3. OwedOnce
  <2>1. \A p, q \in Places : p # q => OwedAt(p) \cap OwedAt(q) = {}
    BY <1>1, <1>2 DEF OwedApart
  <2> QED BY <1>1, <2>1 DEF OwedOnce, OnceEach
<1> QED BY <1>1, <1>3 DEF CountsAreOwed, Counted, FlowShare, WaitShare, Outstanding

\* The asserts of the ready triggers never fail: no use takes a unit of a flow that is
\* ready, and none gives back one that it does not have.
THEOREM FlowsAssertsHold == Spec => []AssertsHold
BY FlowsInvariant, InvAsserts, PTL

\* The count of every flow is exactly what uses, agendas, actions and callables will
\* give back, and that of every task exactly what it waits for.
THEOREM FlowsCountsAreOwed == Spec => []CountsAreOwed
BY FlowsInvariant, InvCounts, PTL
=============================================================================
