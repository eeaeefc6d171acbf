----------------------- MODULE PendingOperationProofs -----------------------
(***************************************************************************)
(* A pending operation for any number of threads and dependencies: its     *)
(* task is enqueued after all of them and once, pending_tasks is balanced, *)
(* and its event is alive for whoever counts it down or opens it.          *)
(***************************************************************************)
EXTENDS PendingOperation, Integers, FiniteSetTheorems, TLAPS

Labels == {"idle", "depend", "attach", "sub", "make_ready", "store", "exchange", "consume",
           "drop", "enqueue", "load", "run", "emplace", "reload", "done", "crash"}

Types ==
  /\ opened \subseteq Deps
  /\ todo \subseteq Deps
  /\ waiting \subseteq Deps
  /\ count \in Int
  /\ triggered \in BOOLEAN
  /\ queued \in BOOLEAN
  /\ refs \subseteq Deps \cup {Self}
  /\ pc \in [Threads -> Labels]
  /\ resume \in {"depend", "enqueue", "done"}
  /\ dep \in [Threads -> Deps \cup {NoDep}]
  /\ batch \in [Threads -> BOOLEAN]
  /\ ready \in Seq(Threads)
  /\ pending_tasks \in Int

\* What comes before and after the setup dependency is given back: only the Creator
\* sets up and attaches, and it is through with the dependencies when it goes on.
SettingUp == {"depend", "attach", "sub", "store", "exchange", "consume", "drop"}
Attaching == {"make_ready", "store", "exchange", "consume", "drop", "enqueue", "load",
              "run", "emplace", "reload", "done", "crash"}
Draining == {"exchange", "consume", "drop", "done", "crash"}

Control ==
  /\ \A t \in Threads \ {Creator} :
       pc[t] \in {"idle", "sub", "store", "exchange", "consume", "drop"}
  /\ pc[Creator] \in CASE resume = "depend" -> SettingUp
                       [] resume = "enqueue" -> Attaching
                       [] resume = "done" -> Draining
  /\ resume # "depend" => todo = {}

\* A dependency is at one place: not looked at, in the Creator's hands, with its
\* lambda waiting, in the hands of the thread that runs the lambda, or over.
Places ==
  /\ \A t \in Threads : pc[t] \in {"attach", "sub"} => dep[t] \in Deps
  /\ \A t \in Threads \ {Creator} : pc[t] # "idle" => dep[t] \in Deps
  /\ \A t \in Threads : dep[t] \notin todo \cup waiting
  /\ \A t, u \in Threads : dep[t] = dep[u] /\ dep[t] # NoDep => t = u
  /\ todo \cap waiting = {}

\* A unit of ready_event_'s count is that of a dependency whose lambda has not
\* given it back, or the setup dependency.
Owed(u) ==
  \/ u \in waiting
  \/ \E t \in Threads : pc[t] \in {"attach", "sub"} /\ dep[t] = u
  \/ u = Self /\ (resume = "depend" \/ pc[Creator] = "make_ready")

Units == {u \in Deps \cup {Self} : Owed(u)}

CountIsUnits == count = Cardinality(Units)

\* A dependency that is not triggered is still to be looked at, or owes its unit.
Unopened ==
  \A d \in Deps : \/ d \in opened \/ d \in todo \/ d \in waiting
                  \/ pc[Creator] = "attach" /\ dep[Creator] = d

\* Only the thread that takes the last unit opens the event, and nothing is taken
\* from its queue, or done at once, before that.
Opening ==
  /\ triggered => count = 0
  /\ \A t \in Threads : pc[t] = "store" => count = 0
  /\ \A t \in Threads : pc[t] \in {"exchange", "consume"} => triggered
  /\ pc[Creator] = "run" => triggered
  /\ ready # <<>> => triggered

\* The enqueue action has not been made, is in the queue, in one batch, about to be
\* run at once by the Creator, or has run; and not two of these.
Unmade == resume # "done" /\ pc[Creator] \notin {"reload", "done", "crash"}

Carried ==
  /\ Unmade => ~queued /\ ready = <<>> /\ \A t \in Threads : ~batch[t]
  /\ queued => ready = <<>> /\ \A t \in Threads : ~batch[t]
  /\ \A t \in Threads : batch[t] => pc[t] = "consume" /\ ready = <<>>
  /\ \A t, u \in Threads : batch[t] /\ batch[u] => t = u
  /\ Len(ready) <= 1

\* The object has its reference until it deletes itself, a lambda its own until it
\* has run; and only a destroyed event ends the process.
Kept ==
  /\ Self \in refs <=> ready = <<>>
  /\ waiting \subseteq refs
  /\ \A t \in Threads : dep[t] # NoDep /\ pc[t] # "attach" => dep[t] \in refs
  /\ pc[Creator] = "crash" => ready # <<>>

IInv ==
  /\ Types /\ Control /\ Places /\ CountIsUnits /\ Unopened /\ Opening /\ Carried /\ Kept
  /\ PendingTasksCounts

\* Whoever counts the event down, or opens it, does so before it is destroyed: the
\* only access that can come too late is the one of NoUseAfterFree.
AliveWhileCounted ==
  \A t \in Threads :
    pc[t] \in {"attach", "sub", "make_ready", "store", "exchange"}
      /\ ~(t = Creator /\ resume = "done")
      => ~Freed

-----------------------------------------------------------------------------
(* Types, control and places                                                *)

LEMMA InitIInv == Init => IInv
<1> SUFFICES ASSUME Init PROVE IInv
  OBVIOUS
<1> USE ThreadsAssumption, NamesAssumption DEF Init
<1>1. Types
  <2>1. pc \in [Threads -> Labels]
    BY DEF Labels
  <2>2. dep \in [Threads -> Deps \cup {NoDep}]
    OBVIOUS
  <2>3. batch \in [Threads -> BOOLEAN]
    BY Zenon
  <2>4. ready \in Seq(Threads) /\ count \in Int /\ pending_tasks \in Int
    OBVIOUS
  <2>5. /\ opened \subseteq Deps /\ todo \subseteq Deps /\ waiting \subseteq Deps
        /\ refs \subseteq Deps \cup {Self}
    OBVIOUS
  <2>6. triggered \in BOOLEAN /\ queued \in BOOLEAN /\ resume \in {"depend", "enqueue", "done"}
    OBVIOUS
  <2> HIDE DEF Init
  <2> QED BY <2>1, <2>2, <2>3, <2>4, <2>5, <2>6 DEF Types
<1>2. Control
  BY DEF Control, SettingUp
<1>3. Places
  BY DEF Places
<1>4. CountIsUnits
  <2>1. Units = {Self}
    BY DEF Units, Owed
  <2> QED BY <2>1, FS_Singleton DEF CountIsUnits
<1>5. Unopened
  BY DEF Unopened
<1>6. Opening
  BY DEF Opening
<1>7. Carried
  BY DEF Carried
<1>8. Kept
  BY DEF Kept
<1>9. PendingTasksCounts
  BY DEF PendingTasksCounts
<1> QED BY <1>1, <1>2, <1>3, <1>4, <1>5, <1>6, <1>7, <1>8, <1>9 DEF IInv

\* The steps that run the code after the last unit, which move no dependency.
Late(t) == StoreTriggered(t) \/ Exchange(t) \/ Consume(t)

LateCreator == Enqueue \/ LoadTriggered \/ RunNow \/ Emplace \/ ReloadTriggered \/ UseFreed

LEMMA StepKinds ==
  ASSUME [Next]_vars
  PROVE  \/ \E d \in Deps : Increment(d)
         \/ AttachToDependency \/ MakeReady \/ LateCreator
         \/ \E t \in Threads : Decrement(t) \/ Late(t) \/ Drop(t)
         \/ \E t \in Threads \ {Creator}, d \in Deps : TriggerDependency(t, d)
         \/ UNCHANGED vars
BY DEF Next, CreatorStep, DecrementStep, Late, LateCreator

LEMMA TypesStep == Types /\ Places /\ [Next]_vars => Types'
<1> SUFFICES ASSUME Types, Places, [Next]_vars PROVE Types'
  OBVIOUS
<1> USE ThreadsAssumption, NamesAssumption DEF Types
<1>1. ASSUME NEW d \in Deps, Increment(d) PROVE Types'
  BY <1>1 DEF Increment, Goto, Labels
<1>2. CASE AttachToDependency
  <2>1. pc' \in [Threads -> Labels] /\ dep' \in [Threads -> Deps \cup {NoDep}]
    BY <1>2 DEF AttachToDependency, Goto, Labels
  <2>2. dep[Creator] \in Deps
    BY <1>2 DEF AttachToDependency, Places
  <2> QED BY <1>2, <2>1, <2>2 DEF AttachToDependency
<1>3. CASE MakeReady
  BY <1>3 DEF MakeReady, Goto, Labels
<1>4. CASE LateCreator
  <2>1. CASE Enqueue
    BY <2>1 DEF Enqueue, Goto, Labels
  <2>4. CASE LoadTriggered
    BY <2>4 DEF LoadTriggered, Goto, Labels
  <2>5. CASE Emplace
    BY <2>5 DEF Emplace, Goto, Labels
  <2>2. CASE RunNow
    BY <2>2 DEF RunNow, RunEnqueue, Goto, Labels
  <2>3. CASE ReloadTriggered \/ UseFreed
    BY <2>3 DEF ReloadTriggered, UseFreed, Goto, Labels
  <2> QED BY <1>4, <2>1, <2>2, <2>3, <2>4, <2>5 DEF LateCreator
<1>5. ASSUME NEW t \in Threads, Decrement(t) PROVE Types'
  BY <1>5 DEF Decrement, Goto, Labels
<1>6. ASSUME NEW t \in Threads, Late(t) PROVE Types'
  <2>1. CASE StoreTriggered(t) \/ Exchange(t)
    BY <2>1 DEF StoreTriggered, Exchange, Goto, Labels
  <2>2. CASE Consume(t)
    <3>1. pc' \in [Threads -> Labels] /\ batch' \in [Threads -> BOOLEAN]
      BY <2>2 DEF Consume, Goto, Labels
    <3>2. /\ ready' = Append(ready, t) \/ ready' = ready
          /\ pending_tasks' \in {pending_tasks - 1, pending_tasks} /\ refs' \subseteq refs
      BY <2>2 DEF Consume, RunEnqueue
    <3>4. ready' \in Seq(Threads) /\ pending_tasks' \in Int /\ refs' \subseteq Deps \cup {Self}
      BY <3>2
    <3>3. UNCHANGED <<opened, todo, waiting, count, triggered, queued, resume, dep>>
      BY <2>2 DEF Consume
    <3> QED BY <3>1, <3>3, <3>4
  <2> QED BY <1>6, <2>1, <2>2 DEF Late
<1>7. ASSUME NEW t \in Threads, Drop(t) PROVE Types'
  BY <1>7 DEF Drop, Goto, Labels
<1>8. ASSUME NEW t \in Threads, NEW d \in Deps, TriggerDependency(t, d) PROVE Types'
  BY <1>8 DEF TriggerDependency, Goto, Labels
<1>9. CASE UNCHANGED vars
  BY <1>9 DEF vars
<1> QED BY <1>1, <1>2, <1>3, <1>4, <1>5, <1>6, <1>7, <1>8, <1>9, StepKinds

LEMMA ControlStep == Types /\ Control /\ Carried /\ Kept /\ [Next]_vars => Control'
<1> SUFFICES ASSUME Types, Control, Carried, Kept, [Next]_vars PROVE Control'
  OBVIOUS
<1> USE ThreadsAssumption DEF Types, Control, SettingUp, Attaching, Draining
<1>1. ASSUME NEW d \in Deps, Increment(d) PROVE Control'
  BY <1>1 DEF Increment, Goto
<1>2. CASE AttachToDependency
  BY <1>2 DEF AttachToDependency, Goto
<1>3. CASE MakeReady
  BY <1>3 DEF MakeReady, Goto
<1>4. CASE LateCreator
  <2>1. CASE Enqueue
    BY <2>1 DEF Enqueue, Goto
  <2>2. CASE LoadTriggered
    BY <2>2 DEF LoadTriggered, Goto
  <2>3. CASE RunNow
    BY <2>3 DEF RunNow, Goto
  <2>4. CASE Emplace
    BY <2>4 DEF Emplace, Goto
  <2>5. CASE ReloadTriggered
    BY <2>5 DEF ReloadTriggered, Goto
  <2>6. CASE UseFreed
    <3>1. resume # "depend"
      BY <2>6 DEF UseFreed, Freed, Carried, Kept, Unmade
    <3> QED BY <2>6, <3>1 DEF UseFreed, Goto
  <2> QED BY <1>4, <2>1, <2>2, <2>3, <2>4, <2>5, <2>6 DEF LateCreator
<1>5. ASSUME NEW t \in Threads, Decrement(t) PROVE Control'
  BY <1>5 DEF Decrement, Goto
<1>6. ASSUME NEW t \in Threads, Late(t) PROVE Control'
  BY <1>6 DEF Late, StoreTriggered, Exchange, Consume, Goto
<1>7. ASSUME NEW t \in Threads, Drop(t) PROVE Control'
  BY <1>7 DEF Drop, Goto
<1>8. ASSUME NEW t \in Threads \ {Creator}, NEW d \in Deps, TriggerDependency(t, d) PROVE Control'
  BY <1>8 DEF TriggerDependency, Goto
<1>9. CASE UNCHANGED vars
  BY <1>9 DEF vars
<1> QED BY <1>1, <1>2, <1>3, <1>4, <1>5, <1>6, <1>7, <1>8, <1>9, StepKinds

LEMMA PlacesStep == Types /\ Control /\ Places /\ [Next]_vars => Places'
<1> SUFFICES ASSUME Types, Control, Places, [Next]_vars PROVE Places'
  OBVIOUS
<1> USE ThreadsAssumption, NamesAssumption DEF Types, Places
<1>1. ASSUME NEW d \in Deps, Increment(d) PROVE Places'
  BY <1>1 DEF Increment, Goto
<1>2. CASE AttachToDependency
  <2>1. pc[Creator] = "attach" /\ dep[Creator] \in Deps /\ todo' = todo
    BY <1>2 DEF AttachToDependency
  <2>2. CASE dep[Creator] \in opened
    <3>1. pc' = [pc EXCEPT ![Creator] = "sub"] /\ UNCHANGED <<dep, waiting>>
      BY <1>2, <2>2 DEF AttachToDependency, Goto
    <3> QED BY <2>1, <3>1
  <2>3. CASE dep[Creator] \notin opened
    <3>1. /\ pc' = [pc EXCEPT ![Creator] = "depend"] /\ dep' = [dep EXCEPT ![Creator] = NoDep]
          /\ waiting' = waiting \cup {dep[Creator]}
      BY <1>2, <2>3 DEF AttachToDependency, Goto
    <3>2. /\ pc'[Creator] = "depend" /\ dep'[Creator] = NoDep
          /\ \A t \in Threads \ {Creator} : pc'[t] = pc[t] /\ dep'[t] = dep[t] /\ dep[t] # dep[Creator]
      BY <2>1, <3>1
    <3>3. NoDep \notin todo \cup waiting'
      BY <2>1, <3>1
    <3> QED BY <2>1, <3>1, <3>2, <3>3
  <2> QED BY <2>2, <2>3
<1>3. CASE MakeReady
  BY <1>3 DEF MakeReady, Goto
<1>4. CASE LateCreator
  <2>1. pc'[Creator] \notin {"attach", "sub"} /\ \A t \in Threads \ {Creator} : pc'[t] = pc[t]
    BY <1>4 DEF LateCreator, Enqueue, LoadTriggered, RunNow, Emplace, ReloadTriggered, UseFreed, Goto
  <2>2. UNCHANGED <<dep, todo, waiting>>
    BY <1>4 DEF LateCreator, Enqueue, LoadTriggered, RunNow, Emplace, ReloadTriggered, UseFreed
  <2> QED BY <2>1, <2>2
<1>5. ASSUME NEW t \in Threads, Decrement(t) PROVE Places'
  BY <1>5 DEF Decrement, Goto
<1>6. ASSUME NEW t \in Threads, Late(t) PROVE Places'
  BY <1>6 DEF Late, StoreTriggered, Exchange, Consume, Goto
<1>7. ASSUME NEW t \in Threads, Drop(t) PROVE Places'
  BY <1>7 DEF Drop, Goto
<1>8. ASSUME NEW t \in Threads \ {Creator}, NEW d \in Deps, TriggerDependency(t, d) PROVE Places'
  BY <1>8 DEF TriggerDependency, Goto
<1>9. CASE UNCHANGED vars
  BY <1>9 DEF vars
<1> QED BY <1>1, <1>2, <1>3, <1>4, <1>5, <1>6, <1>7, <1>8, <1>9, StepKinds

-----------------------------------------------------------------------------
(* The count                                                                *)

LEMMA UnitsFinite ==
  /\ IsFiniteSet(Units)
  /\ Cardinality(Units) \in Nat
  /\ Cardinality(Units) = 0 <=> Units = {}
<1>1. IsFiniteSet(Deps \cup {Self})
  BY DepsAssumption, FS_AddElement
<1>2. Units \subseteq Deps \cup {Self}
  BY DEF Units
<1> QED BY <1>1, <1>2, FS_Subset, FS_CardinalityType, FS_EmptySet

\* What each step does to the units: a dependency brings one, a decrement takes one.
LEMMA UnitsIncrement ==
  ASSUME Types, Control, Places, NEW d \in Deps, Increment(d)
  PROVE  Units' = Units \cup {d} /\ d \notin Units
<1> USE ThreadsAssumption, NamesAssumption
<1>1. pc' = [pc EXCEPT ![Creator] = "attach"] /\ dep' = [dep EXCEPT ![Creator] = d]
  BY DEF Increment, Goto
<1>2. pc[Creator] = "depend" /\ d \in todo /\ waiting' = waiting /\ resume' = resume
  BY DEF Increment
<1>3. resume = "depend"
  BY <1>2 DEF Control, Attaching, Draining, Types
<1>4. \A u \in Deps \cup {Self} : Owed(u)' <=> Owed(u) \/ u = d
  BY <1>1, <1>2, <1>3 DEF Owed, Types
<1>5. ~Owed(d)
  BY <1>2 DEF Owed, Places
<1> QED BY <1>4, <1>5 DEF Units

LEMMA UnitsDecrement ==
  ASSUME Types, Control, Places, NEW t \in Threads, Decrement(t)
  PROVE  \E u \in Units : Units' = Units \ {u}
<1> USE ThreadsAssumption, NamesAssumption
<1>1. /\ pc[t] \in {"sub", "make_ready"} /\ pc'[t] \in {"store", "drop"}
      /\ \A s \in Threads \ {t} : pc'[s] = pc[s]
      /\ UNCHANGED <<dep, waiting, resume>>
  BY DEF Decrement, Goto, Types
<1>2. CASE pc[t] = "sub"
  <2>1. dep[t] \in Deps /\ dep[t] \in Units
    BY <1>2 DEF Places, Units, Owed
  <2>2. \A u \in Deps \cup {Self} : Owed(u)' <=> Owed(u) /\ u # dep[t]
    BY <1>1, <1>2, <2>1 DEF Owed, Places
  <2> QED BY <2>1, <2>2 DEF Units
<1>3. CASE pc[t] = "make_ready"
  <2>1. t = Creator /\ resume # "depend"
    BY <1>3 DEF Control, SettingUp
  <2>2. Self \in Units
    BY <1>3, <2>1 DEF Units, Owed
  <2>3. \A u \in Deps \cup {Self} : Owed(u)' <=> Owed(u) /\ u # Self
    BY <1>1, <1>3, <2>1 DEF Owed, Types
  <2> QED BY <2>2, <2>3 DEF Units
<1> QED BY <1>1, <1>2, <1>3

LEMMA UnitsSame ==
  ASSUME Types, Control, Places,
         \/ AttachToDependency \/ MakeReady \/ LateCreator
         \/ \E t \in Threads : Late(t) \/ Drop(t)
         \/ \E t \in Threads \ {Creator}, d \in Deps : TriggerDependency(t, d)
         \/ UNCHANGED vars
  PROVE  Units' = Units /\ count' = count
<1> USE ThreadsAssumption, NamesAssumption
<1> SUFFICES (\A u \in Deps \cup {Self} : Owed(u)' <=> Owed(u)) /\ count' = count
  BY DEF Units
<1>1. CASE AttachToDependency
  <2>1. pc[Creator] = "attach" /\ UNCHANGED <<resume, count>>
    BY <1>1 DEF AttachToDependency
  <2>2. CASE dep[Creator] \in opened
    <3>1. pc' = [pc EXCEPT ![Creator] = "sub"] /\ UNCHANGED <<dep, waiting>>
      BY <1>1, <2>2 DEF AttachToDependency, Goto
    <3> QED BY <2>1, <3>1 DEF Owed, Types
  <2>3. CASE dep[Creator] \notin opened
    <3>1. /\ pc' = [pc EXCEPT ![Creator] = "depend"] /\ dep' = [dep EXCEPT ![Creator] = NoDep]
          /\ waiting' = waiting \cup {dep[Creator]}
      BY <1>1, <2>3 DEF AttachToDependency, Goto
    <3>2. /\ pc'[Creator] = "depend"
          /\ \A t \in Threads \ {Creator} : pc'[t] = pc[t] /\ dep'[t] = dep[t]
      BY <3>1 DEF Types
    <3> QED BY <2>1, <3>1, <3>2 DEF Owed
  <2> QED BY <2>2, <2>3
<1>2. CASE MakeReady
  <2>1. resume = "depend"
    BY <1>2 DEF MakeReady, Control, Attaching, Draining, Types
  <2> QED BY <1>2, <2>1 DEF MakeReady, Goto, Owed, Types
<1>3. CASE LateCreator
  <2>1. /\ pc[Creator] \notin {"attach", "sub", "make_ready"}
        /\ pc'[Creator] \notin {"attach", "sub", "make_ready"}
        /\ \A t \in Threads \ {Creator} : pc'[t] = pc[t]
    BY <1>3 DEF LateCreator, Enqueue, LoadTriggered, RunNow, Emplace, ReloadTriggered, UseFreed,
         Goto, Types
  <2>2. UNCHANGED <<dep, waiting, count>> /\ (resume' = resume \/ ReloadTriggered)
    BY <1>3 DEF LateCreator, Enqueue, LoadTriggered, RunNow, Emplace, ReloadTriggered, UseFreed
  <2>3. ReloadTriggered => resume # "depend" /\ resume' # "depend"
    BY DEF ReloadTriggered, Control, SettingUp
  <2> QED BY <2>1, <2>2, <2>3 DEF Owed
<1>4. ASSUME NEW t \in Threads, Late(t) \/ Drop(t)
      PROVE  (\A u \in Deps \cup {Self} : Owed(u)' <=> Owed(u)) /\ count' = count
  <2>1. /\ pc[t] \in {"store", "exchange", "consume", "drop"}
        /\ pc'[t] \notin {"attach", "sub", "make_ready"}
        /\ \A s \in Threads \ {t} : pc'[s] = pc[s] /\ dep'[s] = dep[s]
        /\ UNCHANGED <<waiting, resume, count>>
    BY <1>4 DEF Late, StoreTriggered, Exchange, Consume, Drop, Goto, Types
  <2> QED BY <2>1 DEF Owed
<1>5. ASSUME NEW t \in Threads \ {Creator}, NEW d \in Deps, TriggerDependency(t, d)
      PROVE  (\A u \in Deps \cup {Self} : Owed(u)' <=> Owed(u)) /\ count' = count
  BY <1>5 DEF TriggerDependency, Goto, Owed, Types
<1>6. CASE UNCHANGED vars
  BY <1>6 DEF vars, Owed
<1> QED BY <1>1, <1>2, <1>3, <1>4, <1>5, <1>6

LEMMA CountStep == Types /\ Control /\ Places /\ CountIsUnits /\ [Next]_vars => CountIsUnits'
<1> SUFFICES ASSUME Types, Control, Places, CountIsUnits, [Next]_vars PROVE CountIsUnits'
  OBVIOUS
<1>1. ASSUME NEW d \in Deps, Increment(d) PROVE CountIsUnits'
  <2>1. count' = count + 1
    BY <1>1 DEF Increment
  <2> QED BY <1>1, <2>1, UnitsIncrement, UnitsFinite, FS_AddElement DEF CountIsUnits
<1>2. ASSUME NEW t \in Threads, Decrement(t) PROVE CountIsUnits'
  <2>1. count' = count - 1
    BY <1>2 DEF Decrement
  <2>2. PICK u \in Units : Units' = Units \ {u}
    BY <1>2, UnitsDecrement
  <2> QED BY <2>1, <2>2, UnitsFinite, FS_RemoveElement DEF CountIsUnits
<1>3. Units' = Units /\ count' = count => CountIsUnits'
  BY DEF CountIsUnits
<1> QED BY <1>1, <1>2, <1>3, UnitsSame, StepKinds

LEMMA UnopenedStep == Types /\ Places /\ Unopened /\ [Next]_vars => Unopened'
<1> SUFFICES ASSUME Types, Places, Unopened, [Next]_vars PROVE Unopened'
  OBVIOUS
<1> USE ThreadsAssumption, NamesAssumption DEF Types, Unopened
<1>1. ASSUME NEW d \in Deps, Increment(d) PROVE Unopened'
  BY <1>1 DEF Increment, Goto
<1>2. CASE AttachToDependency
  BY <1>2 DEF AttachToDependency, Goto
<1>3. CASE MakeReady
  BY <1>3 DEF MakeReady, Goto
<1>4. CASE LateCreator
  BY <1>4 DEF LateCreator, Enqueue, LoadTriggered, RunNow, Emplace, ReloadTriggered, UseFreed
<1>5. ASSUME NEW t \in Threads, Decrement(t) \/ Late(t) \/ Drop(t) PROVE Unopened'
  <2>1. UNCHANGED <<opened, todo, waiting>>
    BY <1>5 DEF Decrement, Late, StoreTriggered, Exchange, Consume, Drop
  <2>2. pc[Creator] = "attach" => pc'[Creator] = "attach" /\ dep'[Creator] = dep[Creator]
    BY <1>5 DEF Decrement, Late, StoreTriggered, Exchange, Consume, Drop, Goto
  <2> QED BY <2>1, <2>2
<1>6. ASSUME NEW t \in Threads \ {Creator}, NEW d \in Deps, TriggerDependency(t, d)
      PROVE  Unopened'
  BY <1>6 DEF TriggerDependency, Goto
<1>7. CASE UNCHANGED vars
  BY <1>7 DEF vars
<1> QED BY <1>1, <1>2, <1>3, <1>4, <1>5, <1>6, <1>7, StepKinds

-----------------------------------------------------------------------------
(* Opening the event                                                        *)

LEMMA CountZero ==
  ASSUME Types, Control, Places, CountIsUnits
  PROVE  /\ count \in Nat
         /\ count = 0 <=> Units = {}
         /\ resume = "depend" => count > 0
         /\ \A t \in Threads : pc[t] \in {"attach", "sub", "make_ready"} => count > 0
<1>1. resume = "depend" => Self \in Units
  BY DEF Units, Owed
<1>2. ASSUME NEW t \in Threads, pc[t] \in {"attach", "sub"} PROVE dep[t] \in Units
  BY <1>2 DEF Units, Owed, Places
<1>3. ASSUME NEW t \in Threads, pc[t] = "make_ready" PROVE Self \in Units
  BY <1>3 DEF Units, Owed, Control
<1> QED BY <1>1, <1>2, <1>3, UnitsFinite DEF CountIsUnits

LEMMA OpeningStep ==
  Types /\ Control /\ Places /\ CountIsUnits /\ Opening /\ Carried /\ [Next]_vars => Opening'
<1> SUFFICES ASSUME Types, Control, Places, CountIsUnits, Opening, Carried, [Next]_vars
             PROVE  Opening'
  OBVIOUS
<1> USE ThreadsAssumption DEF Types
<1>1. ASSUME NEW d \in Deps, Increment(d) PROVE Opening'
  <2>1. resume = "depend"
    BY <1>1 DEF Increment, Control, Attaching, Draining
  <2>2. ~triggered /\ ready = <<>> /\ \A t \in Threads : pc[t] # "store"
    BY <2>1, CountZero DEF Opening
  <2> QED BY <1>1, <2>2 DEF Increment, Goto, Opening
<1>2. CASE AttachToDependency
  BY <1>2 DEF AttachToDependency, Goto, Opening
<1>3. CASE MakeReady
  BY <1>3 DEF MakeReady, Goto, Opening
<1>4. CASE LateCreator
  <2>1. CASE Enqueue \/ Emplace
    BY <2>1 DEF Enqueue, Emplace, Goto, Opening
  <2>2. CASE LoadTriggered
    BY <2>2 DEF LoadTriggered, Goto, Opening
  <2>3. CASE RunNow
    BY <2>3 DEF RunNow, RunEnqueue, Goto, Opening
  <2>4. CASE ReloadTriggered
    BY <2>4 DEF ReloadTriggered, Goto, Opening
  <2>5. CASE UseFreed
    BY <2>5 DEF UseFreed, Goto, Opening
  <2> QED BY <1>4, <2>1, <2>2, <2>3, <2>4, <2>5 DEF LateCreator
<1>5. ASSUME NEW t \in Threads, Decrement(t) PROVE Opening'
  <2>1. ~triggered /\ ready = <<>> /\ \A s \in Threads : pc[s] # "store"
    BY <1>5, CountZero DEF Decrement, Opening
  <2> QED BY <1>5, <2>1 DEF Decrement, Goto, Opening
<1>6. ASSUME NEW t \in Threads, Late(t) PROVE Opening'
  <2>1. CASE StoreTriggered(t)
    BY <2>1 DEF StoreTriggered, Goto, Opening
  <2>2. CASE Exchange(t)
    BY <2>2 DEF Exchange, Goto, Opening
  <2>3. CASE Consume(t)
    <3>1. triggered /\ triggered' /\ count' = count
      BY <2>3 DEF Consume, Opening
    <3>2. \A s \in Threads : pc'[s] = "store" => pc[s] = "store"
      BY <2>3 DEF Consume, Goto
    <3> QED BY <3>1, <3>2 DEF Opening
  <2> QED BY <1>6, <2>1, <2>2, <2>3 DEF Late
<1>7. ASSUME NEW t \in Threads, Drop(t) PROVE Opening'
  BY <1>7 DEF Drop, Goto, Opening
<1>8. ASSUME NEW t \in Threads \ {Creator}, NEW d \in Deps, TriggerDependency(t, d)
      PROVE  Opening'
  BY <1>8 DEF TriggerDependency, Goto, Opening
<1>9. CASE UNCHANGED vars
  BY <1>9 DEF vars, Opening
<1> QED BY <1>1, <1>2, <1>3, <1>4, <1>5, <1>6, <1>7, <1>8, <1>9, StepKinds

-----------------------------------------------------------------------------
(* The enqueue action                                                       *)

\* The steps that neither make the enqueue action nor take or run it.
Quiet == UNCHANGED <<queued, batch, ready>>

LEMMA QuietCarried ==
  ASSUME Types, Carried, Quiet,
         Unmade' => Unmade,
         \A t \in Threads : pc[t] = "consume" => pc'[t] = "consume"
  PROVE  Carried'
BY DEF Types, Carried, Quiet

LEMMA CarriedStep ==
  Types /\ Control /\ Opening /\ Carried /\ Kept /\ [Next]_vars => Carried'
<1> SUFFICES ASSUME Types, Control, Opening, Carried, Kept, [Next]_vars PROVE Carried'
  OBVIOUS
<1> USE ThreadsAssumption DEF Types
<1>1. CASE \/ (\E d \in Deps : Increment(d)) \/ AttachToDependency \/ MakeReady
           \/ Enqueue \/ LoadTriggered \/ ReloadTriggered \/ UseFreed
           \/ (\E t \in Threads \ {Creator}, d \in Deps : TriggerDependency(t, d))
  <2>1. Quiet
    BY <1>1 DEF Increment, AttachToDependency, MakeReady, Enqueue, LoadTriggered,
         ReloadTriggered, UseFreed, TriggerDependency, Quiet
  <2>2. Unmade' => Unmade
    <3>1. CASE (\E d \in Deps : Increment(d)) \/ AttachToDependency \/ MakeReady
      BY <3>1 DEF Increment, AttachToDependency, MakeReady, Unmade, Control, Attaching, Draining
    <3>2. CASE Enqueue \/ LoadTriggered
      BY <3>2 DEF Enqueue, LoadTriggered, Unmade
    <3>3. CASE ReloadTriggered
      BY <3>3 DEF ReloadTriggered, Unmade
    <3>4. CASE UseFreed
      BY <3>4 DEF UseFreed, Goto, Unmade
    <3>5. CASE \E t \in Threads \ {Creator}, d \in Deps : TriggerDependency(t, d)
      <4>1. resume' = resume /\ pc'[Creator] = pc[Creator]
        BY <3>5 DEF TriggerDependency, Goto
      <4> QED BY <4>1 DEF Unmade
    <3> QED BY <1>1, <3>1, <3>2, <3>3, <3>4, <3>5
  <2>3. \A t \in Threads : pc[t] = "consume" => pc'[t] = "consume"
    BY <1>1 DEF Increment, AttachToDependency, MakeReady, Enqueue, LoadTriggered,
         ReloadTriggered, UseFreed, TriggerDependency, Goto
  <2> QED BY <2>1, <2>2, <2>3, QuietCarried
<1>2. ASSUME NEW t \in Threads, Decrement(t) \/ StoreTriggered(t) \/ Drop(t) PROVE Carried'
  <2>1. Quiet /\ resume' = resume
    BY <1>2 DEF Decrement, StoreTriggered, Drop, Quiet
  <2>2. \A s \in Threads : pc[s] = "consume" => pc'[s] = "consume"
    BY <1>2 DEF Decrement, StoreTriggered, Drop, Goto
  <2>3. pc[Creator] \in {"reload", "done", "crash"} => pc'[Creator] = pc[Creator]
    BY <1>2 DEF Decrement, StoreTriggered, Drop, Goto
  <2> QED BY <2>1, <2>2, <2>3, QuietCarried DEF Unmade
<1>3. CASE RunNow
  <2>1. Unmade
    BY <1>3 DEF RunNow, Unmade, Control, Draining
  <2>2. ~queued /\ ready = <<>> /\ \A t \in Threads : ~batch[t]
    BY <2>1 DEF Carried
  <2>3. /\ ready' = <<Creator>> /\ Len(ready') <= 1 /\ ~Unmade'
        /\ UNCHANGED <<queued, batch>>
    BY <1>3, <2>2 DEF RunNow, RunEnqueue, Goto, Unmade
  <2> QED BY <2>2, <2>3 DEF Carried
<1>4. CASE Emplace
  <2>1. Unmade
    BY <1>4 DEF Emplace, Unmade, Control, Draining
  <2>2. ready = <<>> /\ \A t \in Threads : ~batch[t]
    BY <2>1 DEF Carried
  <2>3. ~Unmade' /\ UNCHANGED <<ready, batch>>
    BY <1>4 DEF Emplace, Goto, Unmade
  <2> QED BY <2>2, <2>3 DEF Carried
<1>5. ASSUME NEW t \in Threads, Exchange(t) PROVE Carried'
  <2>1. /\ batch' = [batch EXCEPT ![t] = queued] /\ ~queued' /\ ready' = ready
        /\ pc[t] = "exchange" /\ pc'[t] = "consume" /\ \A s \in Threads \ {t} : pc'[s] = pc[s]
        /\ resume' = resume
    BY <1>5 DEF Exchange, Goto
  <2>2. Unmade' => Unmade
    BY <2>1 DEF Unmade
  <2>3. CASE queued
    <3>1. \A s \in Threads : batch'[s] => s = t
      BY <2>1, <2>3, Zenon DEF Carried
    <3> QED BY <2>1, <2>2, <2>3, <3>1 DEF Carried
  <2>4. CASE ~queued
    <3>1. ~batch[t]
      BY <2>1 DEF Carried
    <3>2. \A s \in Threads : batch'[s] => batch[s] /\ s # t
      BY <2>1, <2>4, <3>1, Zenon
    <3>3. \A s \in Threads : batch'[s] => pc'[s] = "consume" /\ ready' = <<>>
      BY <2>1, <3>2 DEF Carried
    <3> QED BY <2>1, <2>2, <3>2, <3>3 DEF Carried
  <2> QED BY <2>3, <2>4
<1>6. ASSUME NEW t \in Threads, Consume(t) PROVE Carried'
  <2>1. /\ batch' = [batch EXCEPT ![t] = FALSE] /\ UNCHANGED <<queued, resume>>
        /\ pc[t] = "consume" /\ pc'[t] = "drop" /\ \A s \in Threads \ {t} : pc'[s] = pc[s]
        /\ ready' = IF batch[t] THEN Append(ready, t) ELSE ready
    BY <1>6 DEF Consume, RunEnqueue, Goto
  <2>2. Unmade' => Unmade
    BY <2>1 DEF Unmade
  <2>3. \A s \in Threads : batch'[s] => batch[s] /\ s # t
    BY <2>1, Zenon
  <2>4. CASE batch[t]
    <3>1. ready' = <<t>> /\ Len(ready') = 1
      <4>1. ready = <<>>
        BY <2>4 DEF Carried
      <4>2. ready' = Append(<<>>, t)
        BY <2>1, <2>4, <4>1
      <4> QED BY <4>2
    <3>2. \A s \in Threads : ~batch'[s]
      BY <2>3, <2>4 DEF Carried
    <3>3. ~queued /\ ~Unmade
      BY <2>4 DEF Carried
    <3> QED BY <2>1, <2>2, <3>1, <3>2, <3>3 DEF Carried
  <2>5. CASE ~batch[t]
    <3>1. ready' = ready
      BY <2>1, <2>5
    <3>2. \A s \in Threads : batch'[s] => pc'[s] = "consume" /\ ready' = <<>>
      BY <2>1, <2>3, <3>1 DEF Carried
    <3> QED BY <2>1, <2>2, <2>3, <3>1, <3>2 DEF Carried
  <2> QED BY <2>4, <2>5
<1>7. CASE UNCHANGED vars
  BY <1>7, QuietCarried DEF vars, Quiet, Unmade
<1> QED BY <1>1, <1>2, <1>3, <1>4, <1>5, <1>6, <1>7, StepKinds DEF LateCreator, Late

-----------------------------------------------------------------------------
(* References and pending_tasks                                             *)

LEMMA KeptStep ==
  Types /\ Control /\ Places /\ Carried /\ Kept /\ [Next]_vars => Kept'
<1> SUFFICES ASSUME Types, Control, Places, Carried, Kept, [Next]_vars PROVE Kept'
  OBVIOUS
<1> USE ThreadsAssumption, NamesAssumption DEF Types
<1>1. ASSUME NEW d \in Deps, Increment(d) PROVE Kept'
  BY <1>1 DEF Increment, Goto, Kept
<1>2. CASE AttachToDependency
  <2>1. dep[Creator] \in Deps /\ refs' = refs \cup {dep[Creator]} /\ ready' = ready
    BY <1>2 DEF AttachToDependency, Places
  <2>2. waiting' \subseteq waiting \cup {dep[Creator]} /\ pc'[Creator] # "crash"
    BY <1>2 DEF AttachToDependency, Goto
  <2>3. \A t \in Threads : dep'[t] \in {dep[t], NoDep} /\ (t # Creator => pc'[t] = pc[t])
    BY <1>2 DEF AttachToDependency, Goto
  <2> QED BY <2>1, <2>2, <2>3 DEF Kept
<1>3. CASE MakeReady
  BY <1>3 DEF MakeReady, Goto, Kept
<1>4. CASE LateCreator
  <2>1. UNCHANGED <<waiting, dep>> /\ \A t \in Threads : pc[t] = "attach" <=> pc'[t] = "attach"
    BY <1>4 DEF LateCreator, Enqueue, LoadTriggered, RunNow, Emplace, ReloadTriggered, UseFreed, Goto
  <2>2. CASE RunNow
    <3>1. ready' # <<>> /\ refs' = refs \ {Self}
      BY <2>2 DEF RunNow, RunEnqueue
    <3> QED BY <2>1, <3>1 DEF Kept
  <2>3. CASE ~RunNow
    <3>1. UNCHANGED <<refs, ready>>
      BY <1>4, <2>3 DEF LateCreator, Enqueue, LoadTriggered, Emplace, ReloadTriggered, UseFreed
    <3>2. pc'[Creator] = "crash" => UseFreed
      BY <1>4, <2>3 DEF LateCreator, Enqueue, LoadTriggered, Emplace, ReloadTriggered, Goto
    <3>3. UseFreed => ready # <<>>
      BY DEF UseFreed, Freed, Kept
    <3> QED BY <2>1, <3>1, <3>2, <3>3 DEF Kept
  <2> QED BY <2>2, <2>3
<1>5. ASSUME NEW t \in Threads, Decrement(t) PROVE Kept'
  BY <1>5 DEF Decrement, Goto, Kept
<1>6. ASSUME NEW t \in Threads, Late(t) PROVE Kept'
  <2>1. /\ UNCHANGED <<waiting, dep>> /\ \A s \in Threads : pc[s] = "attach" <=> pc'[s] = "attach"
        /\ pc'[Creator] = "crash" => pc[Creator] = "crash"
    BY <1>6 DEF Late, StoreTriggered, Exchange, Consume, Goto
  <2>2. CASE UNCHANGED <<refs, ready>>
    BY <2>1, <2>2 DEF Kept
  <2>3. CASE RunEnqueue(t)
    <3>1. ready' # <<>> /\ refs' = refs \ {Self}
      BY <2>3 DEF RunEnqueue
    <3> QED BY <2>1, <3>1 DEF Kept
  <2> QED BY <1>6, <2>2, <2>3 DEF Late, StoreTriggered, Exchange, Consume
<1>7. ASSUME NEW t \in Threads, Drop(t) PROVE Kept'
  <2>1. /\ refs' = refs \ {dep[t]} /\ dep[t] # Self /\ UNCHANGED <<waiting, ready>>
        /\ dep' = [dep EXCEPT ![t] = NoDep] /\ dep[t] \notin waiting
        /\ pc'[Creator] = "crash" => pc[Creator] = "crash"
        /\ \A s \in Threads \ {t} : pc'[s] = pc[s]
    BY <1>7 DEF Drop, Goto, Places
  <2>2. \A s \in Threads \ {t} : dep[s] # NoDep => dep[s] # dep[t]
    BY DEF Places
  <2> QED BY <2>1, <2>2 DEF Kept
<1>8. ASSUME NEW t \in Threads \ {Creator}, NEW d \in Deps, TriggerDependency(t, d)
      PROVE  Kept'
  BY <1>8 DEF TriggerDependency, Goto, Kept
<1>9. CASE UNCHANGED vars
  BY <1>9 DEF vars, Kept
<1> QED BY <1>1, <1>2, <1>3, <1>4, <1>5, <1>6, <1>7, <1>8, <1>9, StepKinds

\* When pending_tasks counts the task, if it is not on a queue yet.
Announced == resume = "done" \/ pc[Creator] \in {"load", "run", "emplace", "reload", "done"}

LEMMA PendingTasksStep ==
  /\ Types /\ Control /\ Carried /\ Kept /\ PendingTasksCounts
  /\ [Next]_vars
  => PendingTasksCounts'
<1> SUFFICES ASSUME Types, Control, Carried, Kept, PendingTasksCounts, [Next]_vars
             PROVE  PendingTasksCounts'
  OBVIOUS
<1> USE ThreadsAssumption DEF Types
<1>1. pending_tasks = IF Announced /\ ready = <<>> THEN 1 ELSE 0
  BY DEF PendingTasksCounts, Announced
<1> SUFFICES pending_tasks' = IF Announced' /\ ready' = <<>> THEN 1 ELSE 0
  BY DEF PendingTasksCounts, Announced
<1>2. UNCHANGED <<pending_tasks, ready>> /\ (Announced' <=> Announced)
      => pending_tasks' = IF Announced' /\ ready' = <<>> THEN 1 ELSE 0
  BY <1>1
<1>3. CASE (\E d \in Deps : Increment(d)) \/ AttachToDependency \/ MakeReady
  <2>1. UNCHANGED <<pending_tasks, ready>> /\ ~Announced /\ ~Announced'
    BY <1>3 DEF Increment, AttachToDependency, MakeReady, Goto, Announced, Control, Draining
  <2> QED BY <1>2, <2>1
<1>4. CASE Enqueue
  <2>1. ~Announced /\ Announced'
    BY <1>4 DEF Enqueue, Goto, Announced, Control, Draining
  <2>2. ready = <<>> /\ ready' = ready /\ pending_tasks' = pending_tasks + 1
    BY <1>4 DEF Enqueue, Carried, Unmade, Control, Draining
  <2> QED BY <1>1, <2>1, <2>2
<1>5. CASE RunNow
  <2>1. Announced /\ ready = <<>> /\ ready' # <<>> /\ pending_tasks' = pending_tasks - 1
    BY <1>5 DEF RunNow, RunEnqueue, Announced, Carried, Unmade, Control, Draining
  <2> QED BY <1>1, <2>1
<1>6. CASE LoadTriggered \/ Emplace \/ ReloadTriggered
  <2>1. UNCHANGED <<pending_tasks, ready>> /\ Announced /\ Announced'
    BY <1>6 DEF LoadTriggered, Emplace, ReloadTriggered, Goto, Announced
  <2> QED BY <1>2, <2>1
<1>7. CASE UseFreed
  <2>1. ready # <<>> /\ ready' = ready /\ pending_tasks' = pending_tasks
    BY <1>7 DEF UseFreed, Freed, Kept
  <2> QED BY <1>1, <2>1
<1>8. ASSUME NEW t \in Threads, Decrement(t) \/ StoreTriggered(t) \/ Exchange(t)
      PROVE  pending_tasks' = IF Announced' /\ ready' = <<>> THEN 1 ELSE 0
  <2>1. UNCHANGED <<pending_tasks, ready, resume>>
    BY <1>8 DEF Decrement, StoreTriggered, Exchange
  <2>2. /\ \A s \in Threads \ {t} : pc'[s] = pc[s]
        /\ pc[t] \in {"sub", "make_ready", "store", "exchange"}
        /\ pc'[t] \in {"store", "drop", "exchange", "consume"}
    BY <1>8 DEF Decrement, StoreTriggered, Exchange, Goto
  <2>3. Announced' <=> Announced
    BY <2>1, <2>2 DEF Announced
  <2> QED BY <1>2, <2>1, <2>3
<1>9. ASSUME NEW t \in Threads, Consume(t)
      PROVE  pending_tasks' = IF Announced' /\ ready' = <<>> THEN 1 ELSE 0
  <2>1. /\ resume' = resume /\ \A s \in Threads \ {t} : pc'[s] = pc[s]
        /\ pc[t] = "consume" /\ pc'[t] = "drop"
    BY <1>9 DEF Consume, Goto
  <2>2. Announced' <=> Announced
    BY <2>1 DEF Announced
  <2>3. CASE batch[t]
    <3>1. ready = <<>> /\ ~Unmade
      BY <2>3 DEF Carried
    <3>2. Announced
      BY <3>1 DEF Unmade, Announced, Kept
    <3>3. ready' # <<>> /\ pending_tasks' = pending_tasks - 1
      BY <1>9, <2>3 DEF Consume, RunEnqueue
    <3> QED BY <1>1, <3>1, <3>2, <3>3
  <2>4. CASE ~batch[t]
    <3>1. UNCHANGED <<pending_tasks, ready>>
      BY <1>9, <2>4 DEF Consume
    <3> QED BY <1>2, <2>2, <3>1
  <2> QED BY <2>3, <2>4
<1>10. ASSUME NEW t \in Threads, Drop(t)
       PROVE  pending_tasks' = IF Announced' /\ ready' = <<>> THEN 1 ELSE 0
  <2>1. /\ UNCHANGED <<pending_tasks, ready, resume>> /\ \A s \in Threads \ {t} : pc'[s] = pc[s]
        /\ pc[t] = "drop" /\ pc'[t] = IF t = Creator THEN resume ELSE "idle"
    BY <1>10 DEF Drop, Goto
  <2>2. Announced' <=> Announced
    BY <2>1 DEF Announced
  <2> QED BY <1>2, <2>1, <2>2
<1>11. ASSUME NEW t \in Threads \ {Creator}, NEW d \in Deps, TriggerDependency(t, d)
       PROVE  pending_tasks' = IF Announced' /\ ready' = <<>> THEN 1 ELSE 0
  <2>1. UNCHANGED <<pending_tasks, ready, resume>> /\ pc'[Creator] = pc[Creator]
    BY <1>11 DEF TriggerDependency, Goto
  <2> QED BY <1>2, <2>1 DEF Announced
<1>12. CASE UNCHANGED vars
  BY <1>2, <1>12 DEF vars, Announced
<1> QED BY <1>3, <1>4, <1>5, <1>6, <1>7, <1>8, <1>9, <1>10, <1>11, <1>12, StepKinds
        DEF LateCreator, Late

-----------------------------------------------------------------------------
(* Theorems                                                                 *)

LEMMA IInvHolds == Spec => []IInv
<1>1. IInv /\ [Next]_vars => IInv'
  BY TypesStep, ControlStep, PlacesStep, CountStep, UnopenedStep, OpeningStep, CarriedStep,
     KeptStep, PendingTasksStep DEF IInv
<1> QED BY <1>1, InitIInv, PTL DEF Spec

\* make_pending_task, add_dependency_on and decrement_count: the count of
\* ready_event_ is the number of dependencies that have not given their unit back,
\* and the setup dependency, whatever is triggered meanwhile.
THEOREM CountIsOwed == Spec => [](Types /\ CountIsUnits)
<1>1. IInv => Types /\ CountIsUnits
  BY DEF IInv
<1> QED BY <1>1, IInvHolds, PTL

\* enqueue_or_run: however many dependencies there are, early, late or at once, the
\* task is on a queue only when all of them are triggered.
THEOREM NeverEnqueuedEarly == Spec => []EnqueuedAfterDeps
<1>1. IInv => EnqueuedAfterDeps
  <2> SUFFICES ASSUME IInv, ready # <<>> PROVE opened = Deps
    BY DEF EnqueuedAfterDeps
  <2>1. count = 0
    BY DEF IInv, Opening
  <2>2. Units = {} /\ resume # "depend" /\ pc[Creator] # "attach"
    BY <2>1, CountZero, ThreadsAssumption DEF IInv
  <2>3. todo = {} /\ waiting = {}
    BY <2>2 DEF IInv, Types, Control, Units, Owed
  <2> QED BY <2>2, <2>3 DEF IInv, Types, Unopened
<1> QED BY <1>1, IInvHolds, PTL

\* The Creator's inline path, its late drain and the thread that opens the event
\* never both run the enqueue action, after which the object is deleted.
THEOREM NeverEnqueuedTwice == Spec => []EnqueuedOnce
<1>1. IInv => EnqueuedOnce
  BY DEF IInv, Carried, EnqueuedOnce
<1> QED BY <1>1, IInvHolds, PTL

\* Every increment of Runtime::pending_tasks is undone once, by the enqueue action.
THEOREM PendingTasksBalanced == Spec => []PendingTasksCounts
<1>1. IInv => PendingTasksCounts
  BY DEF IInv
<1> QED BY <1>1, IInvHolds, PTL

\* The references that the lambdas of add_dependency_on capture keep ready_event_
\* while it is counted down and opened: what can come too late is the Creator's
\* look at triggered_ after it has attached the enqueue action, and nothing else.
THEOREM EventOutlivesItsUnits == Spec => []AliveWhileCounted
<1>1. IInv => AliveWhileCounted
  <2> SUFFICES ASSUME IInv, NEW t \in Threads,
                      pc[t] \in {"attach", "sub", "make_ready", "store", "exchange"},
                      ~(t = Creator /\ resume = "done")
               PROVE  refs # {}
    BY DEF AliveWhileCounted, Freed
  <2>1. CASE t = Creator
    <3>1. Unmade
      BY <2>1 DEF Unmade
    <3> QED BY <3>1 DEF IInv, Carried, Kept
  <2>2. CASE t # Creator
    <3>1. dep[t] \in Deps /\ pc[t] # "attach"
      BY <2>2 DEF IInv, Places, Control
    <3> QED BY <3>1, NamesAssumption DEF IInv, Kept
  <2> QED BY <2>1, <2>2
<1> QED BY <1>1, IInvHolds, PTL
=============================================================================
