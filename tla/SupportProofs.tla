--------------------------- MODULE SupportProofs ---------------------------
(***************************************************************************)
(* The debug worker reads what exists, for any uses, tasks, dependencies   *)
(* and number of signals.  try_lock owns all of its range or nothing of it *)
(* when it returns, for any threads, lockables and ranges, and whatever    *)
(* the others do.                                                          *)
(*                                                                         *)
(* The containers are lists whose tail_ is their last node, and implement  *)
(* queues that are first in, first out, for any threads, queues, nodes and *)
(* scenarios.  Core says that steps on an agenda that need a lock come in  *)
(* sections of it, Chained that head_, next and tail_ lead through lists   *)
(* but for what the holder of the lock is in the middle of, and Own whose  *)
(* the queues are.                                                         *)
(***************************************************************************)
EXTENDS MCSupport, WellFoundedInduction, TLAPS

-----------------------------------------------------------------------------
(* The debug worker                                                         *)

\* Where uses and tasks are in their lives.
UseStates == {"unregistered", "flowless", "registered", "released", "destroyed"}
TaskStates == {"pending", "running", "ended", "deleted"}

\* Types, as far as the proofs need them.
DebugTypes ==
  /\ use_state \in [Uses -> UseStates]
  /\ task_state \in [Tasks -> TaskStates]
  /\ state_mutex \in BOOLEAN

\* Between two critical sections the sets agree with the lives of their elements.
Registered ==
  /\ registered_uses = {u \in Uses : use_state[u] \in {"flowless", "registered"}}
  /\ running_tasks = {t \in Tasks : task_state[t] = "running"}

\* The debug worker reads only what the sets hold, and holds the mutex.
Snapshot ==
  /\ debug = "print" => state_mutex
  /\ reading # {} => state_mutex
  /\ reading \subseteq registered_uses \cup running_tasks

\* The inductive invariant of the debug worker.
DebugInv == DebugTypes /\ Registered /\ Snapshot

LEMMA DebugInit == ASSUME Init PROVE DebugInv
<1>1. /\ use_state = [u \in Uses |-> "unregistered"] /\ task_state = [t \in Tasks |-> "pending"]
      /\ registered_uses = {} /\ running_tasks = {} /\ state_mutex = FALSE
      /\ debug = "unborn" /\ reading = {}
  BY DEF Init
<1>2. DebugTypes
  BY <1>1 DEF DebugTypes, UseStates, TaskStates
<1>3. Registered
  BY <1>1 DEF Registered
<1>4. Snapshot
  BY <1>1 DEF Snapshot
<1> QED BY <1>2, <1>3, <1>4 DEF DebugInv

LEMMA UseKeeps ==
  ASSUME DebugInv, NEW u \in Uses, RegisterUse(u) \/ SetFlows(u) \/ ReleaseUse(u) \/ DestroyUse(u)
  PROVE  DebugInv'
<1>1. CASE RegisterUse(u)
  <2>1. DebugTypes'
    BY <1>1 DEF RegisterUse, DebugInv, DebugTypes, UseStates
  <2>2. Registered'
    BY <1>1 DEF RegisterUse, DebugInv, DebugTypes, Registered
  <2>3. Snapshot'
    BY <1>1 DEF RegisterUse, DebugInv, Snapshot, queueVars, printVars
  <2> QED BY <2>1, <2>2, <2>3 DEF DebugInv
<1>2. CASE SetFlows(u)
  <2>1. DebugTypes'
    BY <1>2 DEF SetFlows, DebugInv, DebugTypes, UseStates
  <2>2. Registered'
    BY <1>2 DEF SetFlows, DebugInv, DebugTypes, Registered
  <2>3. Snapshot'
    BY <1>2 DEF SetFlows, DebugInv, Snapshot, queueVars, printVars
  <2> QED BY <2>1, <2>2, <2>3 DEF DebugInv
<1>3. CASE ReleaseUse(u)
  <2>1. DebugTypes'
    BY <1>3 DEF ReleaseUse, DebugInv, DebugTypes, UseStates
  <2>2. Registered'
    BY <1>3 DEF ReleaseUse, DebugInv, DebugTypes, Registered
  <2>3. Snapshot'
    BY <1>3 DEF ReleaseUse, DebugInv, Snapshot, queueVars, printVars
  <2> QED BY <2>1, <2>2, <2>3 DEF DebugInv
<1>4. CASE DestroyUse(u)
  <2>1. DebugTypes'
    BY <1>4 DEF DestroyUse, DebugInv, DebugTypes, UseStates
  <2>2. Registered'
    BY <1>4 DEF DestroyUse, DebugInv, DebugTypes, Registered
  <2>3. Snapshot'
    BY <1>4 DEF DestroyUse, DebugInv, Snapshot, queueVars, printVars
  <2> QED BY <2>1, <2>2, <2>3 DEF DebugInv
<1> QED BY <1>1, <1>2, <1>3, <1>4

LEMMA TaskKeeps ==
  ASSUME DebugInv, NEW t \in Tasks, StartTask(t) \/ EndTask(t) \/ DeleteTask(t)
  PROVE  DebugInv'
<1>1. CASE StartTask(t)
  <2>1. DebugTypes'
    BY <1>1 DEF StartTask, DebugInv, DebugTypes, TaskStates
  <2>2. Registered'
    BY <1>1 DEF StartTask, DebugInv, DebugTypes, Registered
  <2>3. Snapshot'
    BY <1>1 DEF StartTask, DebugInv, Snapshot, queueVars, printVars
  <2> QED BY <2>1, <2>2, <2>3 DEF DebugInv
<1>2. CASE EndTask(t)
  <2>1. DebugTypes'
    BY <1>2 DEF EndTask, DebugInv, DebugTypes, TaskStates
  <2>2. Registered'
    BY <1>2 DEF EndTask, DebugInv, DebugTypes, Registered
  <2>3. Snapshot'
    BY <1>2 DEF EndTask, DebugInv, Snapshot, queueVars, printVars
  <2> QED BY <2>1, <2>2, <2>3 DEF DebugInv
<1>3. CASE DeleteTask(t)
  <2>1. DebugTypes'
    BY <1>3 DEF DeleteTask, DebugInv, DebugTypes, TaskStates
  <2>2. Registered'
    BY <1>3 DEF DeleteTask, DebugInv, DebugTypes, Registered
  <2>3. Snapshot'
    BY <1>3 DEF DeleteTask, DebugInv, Snapshot, queueVars, printVars
  <2> QED BY <2>1, <2>2, <2>3 DEF DebugInv
<1> QED BY <1>1, <1>2, <1>3

\* Signals, their handlers and the main thread leave the sets and what is read alone.
LEMMA DebugOthersKeep == ASSUME DebugInv, Signals \/ MainStep \/ UNCHANGED vars PROVE DebugInv'
<1>1. CASE Signals
  <2>1. PICK place \in Places : Signal(place) \/ HandlerLock(place) \/ HandlerEmplace(place)
    BY <1>1 DEF Signals, HandlerStep
  <2>2. UNCHANGED <<programVars, state_mutex, reading, debug>>
    BY <2>1 DEF Signal, HandlerLock, HandlerEmplace, printVars
  <2> QED BY <2>2 DEF DebugInv, DebugTypes, Registered, Snapshot, programVars
<1>2. CASE MainStep \/ UNCHANGED vars
  <2>1. UNCHANGED <<programVars, state_mutex, reading>>
    BY <1>2 DEF MainStep, SpawnWorkLoop, Initialize, Abort, SetUp, ShutDown, EnqueuePill, Join,
                vars, printVars
  <2>2. debug' = "print" => debug = "print"
    BY <1>2 DEF MainStep, SpawnWorkLoop, Initialize, Abort, SetUp, ShutDown, EnqueuePill, Join, vars
  <2> QED BY <2>1, <2>2 DEF DebugInv, DebugTypes, Registered, Snapshot, programVars
<1> QED BY <1>1, <1>2

\* The debug worker reads under the mutex, and gives it up with nothing to read.
LEMMA DebugKeeps == ASSUME DebugInv, DebugStep PROVE DebugInv'
<1>1. UNCHANGED programVars
  BY DEF DebugStep, Poll, LockRequests, Drain, LockState, PrintUse, PrintTask, EndRead, Printed
<1>2. state_mutex' \in BOOLEAN
  BY DEF DebugStep, Poll, LockRequests, Drain, LockState, PrintUse, PrintTask, EndRead, Printed,
         DebugInv, DebugTypes
<1>3. DebugTypes' /\ Registered'
  BY <1>1, <1>2 DEF DebugInv, DebugTypes, Registered, programVars
<1>4. CASE Poll \/ LockRequests \/ Drain
  <2>1. debug' # "print" /\ UNCHANGED <<state_mutex, reading>>
    BY <1>4 DEF Poll, LockRequests, Drain, printVars
  <2> QED BY <1>1, <1>3, <2>1 DEF DebugInv, Snapshot, programVars
<1>5. CASE LockState \/ Printed \/ EndRead
  BY <1>1, <1>3, <1>5 DEF LockState, Printed, EndRead, DebugInv, Snapshot, programVars, DebugAt
<1>6. ASSUME NEW u \in Uses, PrintUse(u) PROVE DebugInv'
  BY <1>1, <1>3, <1>6 DEF PrintUse, DebugInv, Snapshot, programVars, DebugAt
<1>7. ASSUME NEW t \in Tasks, PrintTask(t) PROVE DebugInv'
  BY <1>1, <1>3, <1>7 DEF PrintTask, DebugInv, Snapshot, programVars, DebugAt
<1> QED BY <1>4, <1>5, <1>6, <1>7 DEF DebugStep

\* What the debug worker prints exists while it does: the lock, under which uses
\* and tasks leave the sets, comes before the release that lets them be destroyed.
THEOREM NothingDestroyedIsPrinted == ASSUME Uses \cap Tasks = {} PROVE Spec => []PrintsLive
<1>1. DebugInv /\ [Next]_vars => DebugInv'
  BY UseKeeps, TaskKeeps, DebugOthersKeep, DebugKeeps DEF Next, Program
<1>2. DebugInv => PrintsLive
  BY DEF DebugInv, Snapshot, Registered, PrintsLive
<1> QED BY DebugInit, <1>1, <1>2, PTL DEF Spec

-----------------------------------------------------------------------------
(* try_lock                                                                 *)

\* What a frame's callers have locked before it.
Below(th, k) == {range[th][j] : j \in 1..(k - 1)}

Owned(th) == {l \in Lockables : owner[l] = th}

LockTypes ==
  /\ owner \in [Lockables -> Threads \cup {Nobody}]
  /\ range \in [Threads -> Seq(Lockables)]
  /\ \A th \in Threads : L!IsInjective(range[th])
  /\ depth \in [Threads -> Nat]
  /\ \A th \in Threads : depth[th] <= Len(range[th]) + 1
  /\ returns \in [Threads -> BOOLEAN]
  /\ result \in [Threads -> Nat \cup {L!TryLockSuccess}]

\* What each thread owns at each depth of its recursion, on the way down and on
\* the way back up.
Frames ==
  \A th \in Threads :
    /\ ~returns[th] => depth[th] > 0 /\ Owned(th) = Below(th, depth[th])
    /\ returns[th] /\ result[th] = L!TryLockSuccess => Owned(th) = L!ToSet(range[th])
    /\ returns[th] /\ result[th] # L!TryLockSuccess => Owned(th) = Below(th, depth[th])

LockInv == LockTypes /\ Frames

\* Nobody is no thread, ranges are finite sequences of lockables.
LockAssumptions == Nobody \notin Threads /\ Ranges \subseteq Seq(Lockables)

LEMMA InitFrames == ASSUME LockAssumptions, L!Init PROVE LockInv
<1>1. LockTypes
  BY DEF LockAssumptions, L!Init, LockTypes, L!TryLockSuccess
<1>2. Frames
  <2> SUFFICES ASSUME NEW th \in Threads
               PROVE  ~returns[th] /\ depth[th] > 0 /\ Owned(th) = Below(th, depth[th])
    BY DEF Frames
  <2>1. ~returns[th] /\ depth[th] = 1 /\ Owned(th) = {}
    BY DEF LockAssumptions, L!Init, Owned
  <2>2. Below(th, 1) = {}
    BY DEF Below
  <2> QED BY <2>1, <2>2
<1> QED BY <1>1, <1>2 DEF LockInv

\* Where a step leaves a thread's own call alone, it also leaves what it owns.
LEMMA OtherFrames ==
  ASSUME LockInv, NEW th \in Threads, Owned(th)' = Owned(th),
         range' = range, depth'[th] = depth[th], returns'[th] = returns[th], result'[th] = result[th]
  PROVE  /\ ~returns'[th] => depth'[th] > 0 /\ Owned(th)' = Below(th, depth[th])'
         /\ returns'[th] /\ result'[th] = L!TryLockSuccess => Owned(th)' = L!ToSet(range'[th])
         /\ returns'[th] /\ result'[th] # L!TryLockSuccess => Owned(th)' = Below(th, depth[th])'
  BY DEF LockInv, Frames, Below

LEMMA TryKeeps == ASSUME LockAssumptions, LockInv, NEW th \in Threads, L!Try(th) PROVE LockInv'
<1> DEFINE k == depth[th]
<1>0. k \in Nat \ {0} /\ ~returns[th] /\ Owned(th) = Below(th, k)
  BY DEF LockInv, LockTypes, Frames, L!Try
<1>1. CASE k > Len(range[th])
  <2>1. L!Return(th, L!TryLockSuccess)
    BY <1>1 DEF L!Try
  <2>2. LockTypes'
    BY <2>1 DEF L!Return, LockInv, LockTypes
  <2>3. k = Len(range[th]) + 1
    BY <1>0, <1>1 DEF LockInv, LockTypes
  <2>4. Below(th, k) = L!ToSet(range[th])
    <3>1. range[th] \in Seq(Lockables)
      BY DEF LockInv, LockTypes
    <3> QED BY <2>3, <3>1 DEF Below, L!ToSet
  <2>5. ASSUME NEW u \in Threads
        PROVE  /\ ~returns'[u] => depth'[u] > 0 /\ Owned(u)' = Below(u, depth[u])'
               /\ returns'[u] /\ result'[u] = L!TryLockSuccess => Owned(u)' = L!ToSet(range'[u])
               /\ returns'[u] /\ result'[u] # L!TryLockSuccess => Owned(u)' = Below(u, depth[u])'
    <3>1. Owned(u)' = Owned(u)
      BY <2>1 DEF L!Return, Owned
    <3>2. CASE u # th
      BY <2>1, <3>1, <3>2, OtherFrames DEF L!Return, LockInv, LockTypes
    <3>3. CASE u = th
      <4>1. returns'[th] /\ result'[th] = L!TryLockSuccess /\ range' = range
        BY <2>1 DEF L!Return, LockInv, LockTypes
      <4> QED BY <1>0, <2>4, <3>1, <3>3, <4>1
    <3> QED BY <3>2, <3>3
  <2> QED BY <2>2, <2>5 DEF LockInv, Frames
<1>2. CASE ~(k > Len(range[th])) /\ owner[range[th][k]] # Nobody
  <2>1. L!Return(th, 0)
    BY <1>2 DEF L!Try
  <2>2. LockTypes'
    BY <2>1 DEF L!Return, LockInv, LockTypes
  <2>5. ASSUME NEW u \in Threads
        PROVE  /\ ~returns'[u] => depth'[u] > 0 /\ Owned(u)' = Below(u, depth[u])'
               /\ returns'[u] /\ result'[u] = L!TryLockSuccess => Owned(u)' = L!ToSet(range'[u])
               /\ returns'[u] /\ result'[u] # L!TryLockSuccess => Owned(u)' = Below(u, depth[u])'
    <3>1. Owned(u)' = Owned(u)
      BY <2>1 DEF L!Return, Owned
    <3>2. CASE u # th
      BY <2>1, <3>1, <3>2, OtherFrames DEF L!Return, LockInv, LockTypes
    <3>3. CASE u = th
      <4>1. returns'[th] /\ result'[th] = 0 /\ range' = range /\ depth' = depth
        BY <2>1 DEF L!Return, LockInv, LockTypes
      <4>2. Below(th, depth[th])' = Below(th, k)
        BY <4>1 DEF Below
      <4> QED BY <1>0, <3>1, <3>3, <4>1, <4>2 DEF L!TryLockSuccess
    <3> QED BY <3>2, <3>3
  <2> QED BY <2>2, <2>5 DEF LockInv, Frames
<1>3. CASE ~(k > Len(range[th])) /\ owner[range[th][k]] = Nobody
  <2> DEFINE l == range[th][k]
  <2>0. range[th] \in Seq(Lockables) /\ k \in 1..Len(range[th]) /\ l \in Lockables
    BY <1>0, <1>3 DEF LockInv, LockTypes
  <2>1. /\ owner' = [owner EXCEPT ![l] = th] /\ depth' = [depth EXCEPT ![th] = k + 1]
        /\ UNCHANGED <<range, returns, result>>
    BY <1>3 DEF L!Try
  <2>2. LockTypes'
    BY <2>0, <2>1 DEF LockInv, LockTypes
  <2>3. owner'[l] = th /\ \A m \in Lockables : m # l => owner'[m] = owner[m]
    BY <2>0, <2>1 DEF LockInv, LockTypes
  <2>5. ASSUME NEW u \in Threads
        PROVE  /\ ~returns'[u] => depth'[u] > 0 /\ Owned(u)' = Below(u, depth[u])'
               /\ returns'[u] /\ result'[u] = L!TryLockSuccess => Owned(u)' = L!ToSet(range'[u])
               /\ returns'[u] /\ result'[u] # L!TryLockSuccess => Owned(u)' = Below(u, depth[u])'
    <3>2. CASE u # th
      <4>1. Owned(u)' = Owned(u)
        BY <1>3, <2>3, <3>2 DEF Owned, LockAssumptions
      <4> QED BY <2>1, <3>2, <4>1, OtherFrames DEF LockInv, LockTypes
    <3>3. CASE u = th
      <4>1. ~returns'[th] /\ depth'[th] = k + 1 /\ range' = range
        BY <1>0, <2>1 DEF LockInv, LockTypes
      <4>2. Owned(th)' = Owned(th) \cup {l}
        BY <2>0, <2>3 DEF Owned
      <4>3. Below(th, depth[th])' = Below(th, k) \cup {l}
        BY <1>0, <4>1 DEF Below
      <4> QED BY <1>0, <3>3, <4>1, <4>2, <4>3
    <3> QED BY <3>2, <3>3
  <2> QED BY <2>2, <2>5 DEF LockInv, Frames
<1> QED BY <1>1, <1>2, <1>3

\* A frame that fails gives back its caller's lock, which is nobody else's.
LEMMA UnwindKeeps == ASSUME LockAssumptions, LockInv, NEW th \in Threads, L!Unwind(th) PROVE LockInv'
<1> DEFINE k == depth[th]
           failed == result[th] # L!TryLockSuccess
           l == range[th][k - 1]
<1>0. k \in Nat \ {0} /\ returns[th] = TRUE
  BY DEF LockInv, LockTypes, L!Unwind
<1>1. depth' = [depth EXCEPT ![th] = k - 1] /\ UNCHANGED <<range, returns>>
  BY DEF L!Unwind
<1>2. result'[th] = L!TryLockSuccess <=> ~failed
  <2>1. result[th] \in Nat \cup {L!TryLockSuccess}
    BY DEF LockInv, LockTypes
  <2>2. result'[th] = IF failed /\ k > 2 THEN result[th] + 1 ELSE result[th]
    BY DEF L!Unwind, LockInv, LockTypes
  <2> QED BY <2>1, <2>2 DEF L!TryLockSuccess
<1>3. \A u \in Threads : u # th => result'[u] = result[u]
  BY DEF L!Unwind, LockInv, LockTypes
<1>4. LockTypes'
  <2>1. result' \in [Threads -> Nat \cup {L!TryLockSuccess}]
    BY DEF L!Unwind, LockInv, LockTypes, L!TryLockSuccess
  <2>2. owner' \in [Lockables -> Threads \cup {Nobody}]
    BY DEF L!Unwind, LockInv, LockTypes
  <2>3. depth' \in [Threads -> Nat] /\ \A u \in Threads : depth'[u] <= Len(range'[u]) + 1
    <3>1. \A u \in Threads : depth[u] <= Len(range[u]) + 1 /\ Len(range[u]) \in Nat
      BY DEF LockInv, LockTypes
    <3> QED BY <1>0, <1>1, <3>1 DEF LockInv, LockTypes
  <2> QED BY <1>1, <2>1, <2>2, <2>3 DEF LockInv, LockTypes
<1>5. CASE failed /\ k > 1
  <2>0. range[th] \in Seq(Lockables) /\ (k - 1) \in 1..Len(range[th]) /\ l \in Lockables
    BY <1>0, <1>5 DEF LockInv, LockTypes
  <2>1. owner'[l] = Nobody /\ \A m \in Lockables : m # l => owner'[m] = owner[m]
    BY <1>5, <2>0 DEF L!Unwind, LockInv, LockTypes
  <2>2. Owned(th) = Below(th, k)
    BY <1>0, <1>5 DEF LockInv, Frames
  <2>3. owner[l] = th
    BY <1>0, <2>0, <2>2 DEF Owned, Below
  <2>4. Below(th, k) \ {l} = Below(th, k - 1)
    <3>1. \A i, j \in 1..Len(range[th]) : range[th][i] = range[th][j] => i = j
      BY <2>0 DEF LockInv, LockTypes, L!IsInjective
    <3>2. k <= Len(range[th]) + 1 /\ Len(range[th]) \in Nat
      BY <2>0 DEF LockInv, LockTypes
    <3>3. k \in Nat /\ l = range[th][k - 1] /\ k > 1
      BY <1>0, <1>5
    <3>4. ASSUME NEW j \in 1..(k - 1), range[th][j] # l PROVE j \in 1..((k - 1) - 1)
      BY <3>3, <3>4
    <3>5. ASSUME NEW j \in 1..((k - 1) - 1) PROVE j \in 1..(k - 1) /\ range[th][j] # l
      <4>1. j \in 1..(k - 1) /\ j # k - 1 /\ j \in 1..Len(range[th]) /\ k - 1 \in 1..Len(range[th])
        BY <2>0, <3>2, <3>3
      <4> QED BY <3>1, <3>3, <4>1
    <3> QED BY <3>4, <3>5 DEF Below
  <2>5. ASSUME NEW u \in Threads
        PROVE  /\ ~returns'[u] => depth'[u] > 0 /\ Owned(u)' = Below(u, depth[u])'
               /\ returns'[u] /\ result'[u] = L!TryLockSuccess => Owned(u)' = L!ToSet(range'[u])
               /\ returns'[u] /\ result'[u] # L!TryLockSuccess => Owned(u)' = Below(u, depth[u])'
    <3>2. CASE u # th
      <4>1. Owned(u)' = Owned(u)
        BY <2>0, <2>1, <2>3, <3>2 DEF Owned, LockAssumptions
      <4> QED BY <1>1, <1>3, <3>2, <4>1, OtherFrames DEF LockInv, LockTypes
    <3>3. CASE u = th
      <4>1. Owned(th)' = Owned(th) \ {l}
        BY <2>0, <2>1, <2>3 DEF Owned, LockAssumptions
      <4>2. Below(th, depth[th])' = Below(th, k - 1)
        BY <1>1 DEF Below, LockInv, LockTypes
      <4> QED BY <1>0, <1>1, <1>2, <1>5, <2>2, <2>4, <3>3, <4>1, <4>2
    <3> QED BY <3>2, <3>3
  <2> QED BY <1>4, <2>5 DEF LockInv, Frames
<1>6. CASE ~(failed /\ k > 1)
  <2>1. owner' = owner
    BY <1>6 DEF L!Unwind
  <2>5. ASSUME NEW u \in Threads
        PROVE  /\ ~returns'[u] => depth'[u] > 0 /\ Owned(u)' = Below(u, depth[u])'
               /\ returns'[u] /\ result'[u] = L!TryLockSuccess => Owned(u)' = L!ToSet(range'[u])
               /\ returns'[u] /\ result'[u] # L!TryLockSuccess => Owned(u)' = Below(u, depth[u])'
    <3>1. Owned(u)' = Owned(u)
      BY <2>1 DEF Owned
    <3>2. CASE u # th
      BY <1>1, <1>3, <3>1, <3>2, OtherFrames DEF LockInv, LockTypes
    <3>3. CASE u = th
      <4>1. CASE ~failed
        BY <1>0, <1>1, <1>2, <3>1, <3>3, <4>1 DEF LockInv, Frames
      <4>2. CASE failed
        <5>1. k = 1 /\ depth'[th] = 0
          BY <1>0, <1>1, <1>6, <4>2 DEF LockInv, LockTypes
        <5>2. Below(th, k) = {} /\ Below(th, depth[th])' = {}
          BY <5>1 DEF Below
        <5>3. Owned(th) = Below(th, k)
          BY <1>0, <4>2 DEF LockInv, Frames
        <5> QED BY <1>0, <1>1, <1>2, <3>1, <3>3, <4>2, <5>2, <5>3
      <4> QED BY <4>1, <4>2
    <3> QED BY <3>2, <3>3
  <2> QED BY <1>4, <2>5 DEF LockInv, Frames
<1> QED BY <1>5, <1>6

LEMMA UnlockAllKeeps == ASSUME LockAssumptions, LockInv, NEW th \in Threads, L!UnlockAll(th) PROVE LockInv'
<1>1. LockTypes'
  BY DEF L!UnlockAll, LockInv, LockTypes
<1>5. ASSUME NEW u \in Threads
      PROVE  /\ ~returns'[u] => depth'[u] > 0 /\ Owned(u)' = Below(u, depth[u])'
             /\ returns'[u] /\ result'[u] = L!TryLockSuccess => Owned(u)' = L!ToSet(range'[u])
             /\ returns'[u] /\ result'[u] # L!TryLockSuccess => Owned(u)' = Below(u, depth[u])'
  <2>2. CASE u # th
    <3>1. Owned(u)' = Owned(u)
      BY <2>2 DEF Owned, L!UnlockAll, LockAssumptions
    <3> QED BY <2>2, <3>1, OtherFrames DEF L!UnlockAll, LockInv, LockTypes
  <2>3. CASE u = th
    <3>1. Owned(th)' = {}
      BY DEF Owned, L!UnlockAll, LockAssumptions
    <3>2. result'[th] = 0 /\ depth'[th] = 0 /\ returns'[th] = returns[th]
      BY DEF L!UnlockAll, LockInv, LockTypes
    <3>3. Below(th, depth[th])' = {}
      BY <3>2 DEF Below
    <3>4. returns[th]
      BY DEF L!UnlockAll, LockInv, Frames
    <3> QED BY <2>3, <3>1, <3>2, <3>3, <3>4 DEF L!TryLockSuccess
  <2> QED BY <2>2, <2>3
<1> QED BY <1>1, <1>5 DEF LockInv, Frames

LEMMA TryAgainKeeps == ASSUME LockAssumptions, LockInv, NEW th \in Threads, L!TryAgain(th) PROVE LockInv'
<1>1. LockTypes'
  BY DEF L!TryAgain, LockInv, LockTypes
<1>5. ASSUME NEW u \in Threads
      PROVE  /\ ~returns'[u] => depth'[u] > 0 /\ Owned(u)' = Below(u, depth[u])'
             /\ returns'[u] /\ result'[u] = L!TryLockSuccess => Owned(u)' = L!ToSet(range'[u])
             /\ returns'[u] /\ result'[u] # L!TryLockSuccess => Owned(u)' = Below(u, depth[u])'
  <2>1. Owned(u)' = Owned(u)
    BY DEF Owned, L!TryAgain
  <2>2. CASE u # th
    BY <2>1, <2>2, OtherFrames DEF L!TryAgain, LockInv, LockTypes
  <2>3. CASE u = th
    <3>1. Owned(th) = {}
      BY DEF Owned, L!TryAgain
    <3>2. depth'[th] = 1 /\ returns'[th] = FALSE
      BY DEF L!TryAgain, LockInv, LockTypes
    <3>3. Below(th, depth[th])' = {}
      BY <3>2 DEF Below
    <3> QED BY <2>1, <2>3, <3>1, <3>2, <3>3
  <2> QED BY <2>2, <2>3
<1> QED BY <1>1, <1>5 DEF LockInv, Frames

\* When try_lock has returned, its thread owns the whole range or nothing of it:
\* the locks that the frames keep and give back are exactly those they took, for
\* any number of threads that lock and unlock parts of the range meanwhile.
THEOREM TryLockAllOrNothing == ASSUME LockAssumptions PROVE L!Spec => []AllOrNothing
<1>1. L!Init => LockInv
  BY InitFrames
<1>2. LockInv /\ [L!Next]_(L!vars) => LockInv'
  <2> SUFFICES ASSUME LockInv, [L!Next]_(L!vars) PROVE LockInv'
    OBVIOUS
  <2>1. ASSUME NEW th \in Threads, L!Try(th) \/ L!Unwind(th) \/ L!UnlockAll(th) \/ L!TryAgain(th) PROVE LockInv'
    BY <2>1, TryKeeps, UnwindKeeps, UnlockAllKeeps, TryAgainKeeps
  <2>2. CASE UNCHANGED L!vars
    BY <2>2 DEF L!vars, LockInv, LockTypes, Frames, Owned, Below
  <2> QED BY <2>1, <2>2 DEF L!Next
<1>3. LockInv => AllOrNothing
  <2> SUFFICES ASSUME LockInv, NEW th \in Threads, depth[th] = 0
               PROVE  Owned(th) = IF result[th] = L!TryLockSuccess THEN L!ToSet(range[th]) ELSE {}
    BY DEF AllOrNothing, L!AllOrNothing, Owned
  <2>1. Below(th, 0) = {}
    BY DEF Below
  <2> QED BY <2>1 DEF LockInv, Frames
<1> QED BY <1>1, <1>2, <1>3, PTL DEF L!Spec

-----------------------------------------------------------------------------
(* What threads do to the containers                                        *)

\* The specification of Containers without the fairness that only liveness needs.
Calling == C!Init /\ [][C!Next]_(C!vars)

\* Whoever tries locks, or parses arguments, leaves the containers alone.
LEMMA ContainersCall == ContainersSpec => Calling
<1>1. ContainersInit => C!Init
  BY DEF ContainersInit
<1>2. [ContainersNext]_<<programRunVars, containerVars, lockVars>> => [C!Next]_(C!vars)
  <2>1. CASE ContainersNext
    BY <2>1 DEF ContainersNext, Locking, containerVars, C!vars, C!queueVars, C!pointerVars
  <2>2. CASE UNCHANGED <<programRunVars, containerVars, lockVars>>
    BY <2>2 DEF containerVars, C!vars, C!queueVars, C!pointerVars
  <2> QED BY <2>1, <2>2
<1> QED BY <1>1, <1>2, PTL DEF ContainersSpec, Calling

-----------------------------------------------------------------------------
(* Steps of threads                                                         *)

\* Every step that a thread can have on its agenda.
Steps ==
  {C!Lock(q) : q \in C!Queues} \cup {C!Unlock(q) : q \in C!Queues}
  \cup {C!Link(q, v) : q \in C!Queues, v \in C!Values}
  \cup {C!MoveTail(q, n) : q \in C!Queues, n \in C!Nodes}
  \cup {C!Take(q, all) : q \in C!Queues, all \in BOOLEAN}
  \cup {C!SwapHead(q, v) : q \in C!Queues, v \in C!Values}
  \cup {C!Run(v) : v \in C!Values}
  \cup {C!Peak(q) : q \in C!Queues}
  \cup {C!Decide(q, v) : q \in C!Queues, v \in C!Values}
  \cup {C!LockShared(e) : e \in C!Events}
  \cup {C!EmplaceCurrent(e, v) : e \in C!Events, v \in C!Values}
  \cup {C!LockUnique(e) : e \in C!Events} \cup {C!Exchange(e) : e \in C!Events}
  \cup {C!Release(e) : e \in C!Events}
  \cup {C!Destroy(q) : q \in C!Queues}

\* Steps that need the lock of their queue, and the last ones of a section that do:
\* take and peak make the steps that follow in theirs, and the unlock.
NeedsLock == {"link", "move_tail", "take", "swap_head", "peak", "decide", "unlock"}
\* What ends the section of q, or hands it over to steps that end it.
Ends(o, q) == o.do \in {"take", "peak", "unlock"} /\ o.queue = q
\* No step from i to j ends the section of q.
NoEnd(s, i, j, q) == \A m \in i..j : ~Ends(s[m], q)

\* Behind a lock that the thread holds already, where nothing will be done any more.
Stuck(s, H, k) ==
  \E j \in 1..k : s[j].do = "lock" /\ s[j].queue \in H /\ NoEnd(s, 1, j - 1, s[j].queue)

\* The k-th step comes in a section of its queue's lock.
Within(s, H, k) ==
  \/ s[k].queue \in H /\ NoEnd(s, 1, k - 1, s[k].queue)
  \/ \E j \in 1..(k - 1) : s[j] = C!Lock(s[k].queue) /\ NoEnd(s, j + 1, k - 1, s[k].queue)
  \/ Stuck(s, H, k - 1)

\* Each step that needs a lock comes in a section.
InSections(s, H) == \A k \in DOMAIN s : s[k].do \in NeedsLock => Within(s, H, k)

-----------------------------------------------------------------------------
(* The inductive invariant                                                  *)

\* The links and locks of the queues.
FieldTypes ==
  /\ head \in [C!Queues -> C!Nodes \cup {C!Null}]
  /\ tail \in [C!Queues -> C!Nodes \cup {C!Null}]
  /\ next \in [C!Nodes -> C!Nodes \cup {C!Null}]
  /\ value \in [C!Nodes -> C!Values \cup {C!Moved}]
  /\ nodes \in 0..NNodes
  /\ mutex \in [C!Queues -> Threads \cup {Nobody}]

\* Types of the queues, and of what threads still have to do.
QueueTypes == FieldTypes /\ agenda \in [Threads -> Seq(Steps)]

\* Types of the pointers of events.
PointerTypes ==
  /\ pointer \in [C!Events -> C!Queues]
  /\ queues \in 1..NQueues
  /\ readers \in [C!Events -> SUBSET Threads]
  /\ writer \in [C!Events -> Threads \cup {Nobody}]
  /\ destroyed \in SUBSET C!Queues

\* The queues whose lock a thread has.
Held(th) == {q \in C!Queues : mutex[q] = th}

\* What needs a lock comes while the thread has it.
Sections == \A th \in Threads : InSections(agenda[th], Held(th))

\* In the middle of a call.
MidSteps == {"move_tail", "swap_head", "decide"}
\* A thread is in the middle of one call at most.
MidFirst ==
  \A th \in Threads : \A k \in DOMAIN agenda[th] : agenda[th][k].do \in MidSteps => k = 1

\* The holder of the queue's lock is in the middle of a call.
At(q, op) == mutex[q] \in Threads /\ C!IsNext(mutex[q], op) /\ C!Op(mutex[q]).queue = q

\* S are the nodes in the queues: of one queue each, in the order in which they were made.
NodesIn(S) ==
  /\ S \in [C!Queues -> Seq(C!Nodes)]
  /\ \A q \in C!Queues : \A i \in 1..Len(S[q]) : i <= S[q][i] /\ S[q][i] <= nodes
  /\ \A q \in C!Queues, r \in C!Queues : \A i \in 1..Len(S[q]), j \in 1..Len(S[r]) :
       S[q][i] = S[r][j] => q = r /\ i = j

\* head_ and next lead through them, and a new node leads nowhere.
Linked(S) ==
  /\ \A q \in C!Queues : head[q] = IF S[q] = <<>> THEN C!Null ELSE S[q][1]
  /\ \A q \in C!Queues : \A i \in 1..Len(S[q]) :
       next[S[q][i]] = IF i = Len(S[q]) THEN C!Null ELSE S[q][i + 1]
  /\ \A n \in C!Nodes : n > nodes => next[n] = C!Null

\* tail_ is the last of them, but for a call that is on its way to that.
Tails(S) ==
  \A q \in C!Queues :
    /\ At(q, "move_tail") => S[q] # <<>> /\ C!Op(mutex[q]).node = S[q][Len(S[q])]
    /\ At(q, "swap_head") \/ At(q, "decide") => S[q] # <<>>
    /\ ~At(q, "move_tail") =>
         tail[q] = IF S[q] = <<>> \/ (At(q, "swap_head") /\ Len(S[q]) = 1)
                     THEN C!Null ELSE S[q][Len(S[q])]

\* The value of the first one is gone when it is in hand, and no other.
Valued(S) ==
  \A q \in C!Queues : \A i \in 1..Len(S[q]) :
    value[S[q][i]] = C!Moved <=> i = 1 /\ (At(q, "swap_head") \/ At(q, "decide"))

\* The queues are the lists S.
Chained(S) == NodesIn(S) /\ Linked(S) /\ Tails(S) /\ Valued(S)

\* The pointers own different queues of their own, and have one owner at a time.
Pointers ==
  /\ \A e \in C!Events : 1 < pointer[e] /\ pointer[e] <= queues
  /\ \A e, f \in C!Events : pointer[e] = pointer[f] => e = f
  /\ \A e \in C!Events : writer[e] # Nobody => readers[e] = {}

\* The queues that events have for the actions that are attached now.
Current == {pointer[e] : e \in C!Events}

\* What is emplaced goes into the ready queue or behind a pointer that is held.
Links ==
  \A th \in Threads : \A k \in DOMAIN agenda[th] :
    LET o == agenda[th][k] IN
    /\ o.do = "link" =>
         \/ o.queue = C!Ready
         \/ /\ \E e \in C!Events : pointer[e] = o.queue /\ th \in readers[e]
            /\ k = 1 \/ (k = 2 /\ agenda[th][1] = C!Lock(o.queue))
    /\ o.do = "emplace_current" =>
         IF k = 1 THEN th \in readers[o.event] ELSE agenda[th][k - 1] = C!LockShared(o.event)
    /\ o.do = "exchange" =>
         IF k = 1 THEN writer[o.event] = th ELSE agenda[th][k - 1] = C!LockUnique(o.event)

\* Nothing is taken from where others attach.
Takes ==
  \A th \in Threads : \A k \in DOMAIN agenda[th] :
    LET o == agenda[th][k] IN
    o.do \in {"take", "swap_head", "peak", "decide"} => o.queue <= queues /\ o.queue \notin Current

\* What is destroyed was exchanged, and is empty by then.
Destroys ==
  \A th \in Threads : \A k \in DOMAIN agenda[th] :
    LET o == agenda[th][k] IN
    o.do = "destroy" =>
      /\ o.queue <= queues /\ o.queue \notin {C!Ready} \cup Current \cup destroyed
      /\ \/ k > 1 /\ agenda[th][k - 1] = C!Take(o.queue, TRUE)
         \/ head[o.queue] = C!Null /\ (k = 1 \/ (k = 2 /\ agenda[th][1] = C!Unlock(o.queue)))

\* No two steps destroy the same queue, nor does one that comes again.
DestroyedOnce ==
  \A th, ot \in Threads : \A k \in DOMAIN agenda[th], m \in DOMAIN agenda[ot] :
    agenda[th][k].do = "destroy" /\ agenda[th][k] = agenda[ot][m] => th = ot /\ k = m



\* A set that holds 0 and the successor of each number it holds holds them all.
LEMMA SetInduction ==
  ASSUME NEW T, 0 \in T, \A n \in Nat : n \in T => n + 1 \in T
  PROVE  \A n \in Nat : n \in T
<1> DEFINE R == OpToRel(<, Nat)
           U == Nat \ T
<1>1. IsWellFoundedOn(R, Nat)
  BY NatLessThanWellFounded
<1>2. \A x, y \in Nat : x < y => <<x, y>> \in R
  BY DEF OpToRel
<1> HIDE DEF R
<1>3. SUFFICES ASSUME U # {} PROVE FALSE
  OBVIOUS
<1>4. U \subseteq Nat
  OBVIOUS
<1>5. PICK x \in U : \A y \in U : ~(<<y, x>> \in R)
  <2> HIDE DEF U
  <2> QED BY <1>1, <1>3, <1>4, WFMin
<1>6. x # 0 /\ x \in Nat
  OBVIOUS
<1>7. x - 1 \in Nat /\ x - 1 < x /\ (x - 1) + 1 = x
  BY <1>6
<1>8. x - 1 \notin U
  BY <1>2, <1>5, <1>6, <1>7
<1> QED BY <1>5, <1>7, <1>8

\* The constants that the proofs are about.
LEMMA BoundTypes == NNodes \in Nat /\ NQueues \in Nat /\ NEvents \in Nat /\ NEvents < NQueues /\ Nobody \notin Threads
  BY ContainersAssumption DEF C!Assumptions

\* What ChainFrom says of its k-th value, given the one before.
ChainStep(k, before) ==
  [n \in C!Nodes \cup {C!Null} |-> IF n = C!Null \/ k = 0 THEN <<>> ELSE <<n>> \o before[next[n]]]

\* There is a function like that.
LEMMA ChainExists == \E f : f = [k \in 0..NNodes |-> ChainStep(k, f[k - 1])]
<1> DEFINE T == {m \in Nat : \E f : f = [k \in 0..m |-> ChainStep(k, f[k - 1])]}
<1>1. 0 \in T
  <2> DEFINE g == [k \in 0..0 |-> ChainStep(0, 0)]
  <2>1. ChainStep(0, 0) = ChainStep(0, g[0 - 1])
    BY Zenon DEF ChainStep
  <2>2. \A k \in 0..0 : ChainStep(0, 0) = ChainStep(k, g[k - 1])
    <3> HIDE DEF g
    <3> QED BY <2>1
  <2>3. g = [k \in 0..0 |-> ChainStep(k, g[k - 1])]
    <3> DEFINE h == [k \in 0..0 |-> ChainStep(k, g[k - 1])]
    <3>1. \A k \in 0..0 : g[k] = h[k]
      BY <2>2
    <3> QED BY <3>1
  <2> QED BY <2>3
<1>2. \A m \in Nat : m \in T => m + 1 \in T
  <2> SUFFICES ASSUME NEW m \in Nat, m \in T PROVE m + 1 \in T
    OBVIOUS
  <2>1. PICK f : f = [k \in 0..m |-> ChainStep(k, f[k - 1])]
    OBVIOUS
  <2> DEFINE g == [k \in 0..(m + 1) |-> IF k = m + 1 THEN ChainStep(k, f[m]) ELSE f[k]]
             h == [k \in 0..(m + 1) |-> ChainStep(k, g[k - 1])]
  <2>2. \A k \in 0..(m + 1) : g[k] = h[k]
    <3> SUFFICES ASSUME NEW k \in 0..(m + 1) PROVE g[k] = ChainStep(k, g[k - 1])
      OBVIOUS
    <3>1. CASE k = m + 1
      <4>1. g[k - 1] = f[m]
        BY <3>1
      <4> QED BY <3>1, <4>1
    <3>2. CASE k # m + 1 /\ k # 0
      <4>1. k \in 0..m /\ k - 1 \in 0..(m + 1) /\ k - 1 # m + 1
        BY <3>2
      <4>2. g[k - 1] = f[k - 1]
        BY <4>1
      <4>3. g[k] = f[k]
        BY <3>2
      <4>4. f[k] = ChainStep(k, f[k - 1])
        <5> HIDE DEF g, h
        <5> QED BY <2>1, <4>1
      <4> QED BY <4>2, <4>3, <4>4
    <3>3. CASE k = 0 /\ k # m + 1
      <4>1. g[k] = f[k]
        BY <3>3
      <4>2. f[k] = ChainStep(k, f[k - 1])
        <5> HIDE DEF g, h
        <5> QED BY <2>1, <3>3
      <4>3. ChainStep(k, f[k - 1]) = ChainStep(k, g[k - 1])
        <5> HIDE DEF g, h
        <5> QED BY <3>3, Zenon DEF ChainStep
      <4> QED BY <4>1, <4>2, <4>3
    <3> QED BY <3>1, <3>2, <3>3
  <2>3. g = h
    BY <2>2
  <2>4. \E e : e = [k \in 0..(m + 1) |-> ChainStep(k, e[k - 1])]
    <3> WITNESS g
    <3> QED BY <2>3
  <2> QED BY <2>4, SMTT(90), ZenonT(60)
<1>3. \A m \in Nat : m \in T
  <2> HIDE DEF T
  <2> QED BY <1>1, <1>2, SetInduction
<1> QED BY <1>3, BoundTypes

\* ChainFrom is defined by what it is worth one step earlier.
LEMMA ChainUnfolds ==
  \A k \in 0..NNodes : C!ChainFrom[k] = ChainStep(k, C!ChainFrom[k - 1])
<1>1. C!ChainFrom = [k \in 0..NNodes |-> ChainStep(k, C!ChainFrom[k - 1])]
  BY ChainExists, Zenon DEF C!ChainFrom, ChainStep
<1> QED BY <1>1

\* A list of nodes that head and next lead through is the chain from its first one.
FirstOf(s) == IF s = <<>> THEN C!Null ELSE s[1]
\* next leads from each node of s to the one behind it.
LeadsThrough(s) == \A i \in 1..Len(s) : next[s[i]] = IF i = Len(s) THEN C!Null ELSE s[i + 1]

\* What is behind the first element of a list.
LEMMA TailShifts ==
  ASSUME NEW X, NEW s \in Seq(X), s # <<>>
  PROVE  /\ Tail(s) \in Seq(X) /\ Len(Tail(s)) = Len(s) - 1 /\ Len(s) \in Nat \ {0}
         /\ \A i \in 1..(Len(s) - 1) : Tail(s)[i] = s[i + 1]
         /\ s[1] \in X
         /\ s = <<s[1]>> \o Tail(s)
         /\ Len(s) = 1 => Tail(s) = <<>>
         /\ Len(s) # 1 => Tail(s) # <<>> /\ Tail(s)[1] = s[2]
<1>1. Tail(s) \in Seq(X) /\ Len(Tail(s)) = Len(s) - 1 /\ Len(s) \in Nat \ {0}
  OBVIOUS
<1>2. \A i \in 1..(Len(s) - 1) : Tail(s)[i] = s[i + 1]
  OBVIOUS
<1>3. s[1] \in X
  OBVIOUS
<1>4. s = <<s[1]>> \o Tail(s)
  OBVIOUS
<1>5. Len(s) = 1 => Tail(s) = <<>>
  <2>1. \A t \in Seq(X) : Len(t) = 0 => t = <<>>
    OBVIOUS
  <2>2. Len(s) = 1 => Len(Tail(s)) = 0
    BY <1>1
  <2>3. Tail(s) \in Seq(X)
    BY <1>1
  <2> QED BY <2>1, <2>2, <2>3, Zenon
<1>6. Len(s) # 1 => Tail(s) # <<>>
  <2>1. Len(s) # 1 => Len(Tail(s)) # 0
    BY <1>1
  <2> QED BY <2>1
<1>7. Len(s) # 1 => Tail(s)[1] = s[1 + 1]
  <2>1. Len(s) # 1 => 1 \in 1..(Len(s) - 1)
    BY <1>1
  <2> QED BY <2>1, <1>2
<1> QED BY <1>1, <1>2, <1>3, <1>4, <1>5, <1>6, <1>7

\* Such a list is the chain from its first node.
LEMMA ChainIs ==
  ASSUME NEW s \in Seq(C!Nodes), LeadsThrough(s), Len(s) <= NNodes
  PROVE  C!Chain(FirstOf(s)) = s
<1> DEFINE T == {k \in Nat : k <= NNodes =>
                   \A t \in Seq(C!Nodes) : LeadsThrough(t) /\ Len(t) <= k => C!ChainFrom[k][FirstOf(t)] = t}
<1>0. \A t \in Seq(C!Nodes) : FirstOf(t) \in C!Nodes \cup {C!Null}
  BY DEF FirstOf
<1>n. C!Null \notin C!Nodes
  BY DEF C!Null, C!Nodes
<1>1. 0 \in T
  <2> SUFFICES ASSUME NEW t \in Seq(C!Nodes), Len(t) <= 0 PROVE C!ChainFrom[0][FirstOf(t)] = t
    OBVIOUS
  <2>1. t = <<>> /\ FirstOf(t) = C!Null
    BY DEF FirstOf
  <2>2. C!ChainFrom[0] = ChainStep(0, C!ChainFrom[0 - 1])
    BY ChainUnfolds, BoundTypes
  <2>3. C!ChainFrom[0][C!Null] = <<>>
    BY <2>2 DEF ChainStep
  <2> QED BY <2>1, <2>3
<1>2. \A k \in Nat : k \in T => k + 1 \in T
  <2> SUFFICES ASSUME NEW k \in Nat, k \in T, k + 1 <= NNodes,
                      NEW t \in Seq(C!Nodes), LeadsThrough(t), Len(t) <= k + 1
               PROVE  C!ChainFrom[k + 1][FirstOf(t)] = t
    OBVIOUS
  <2>0. \A r \in Seq(C!Nodes) : LeadsThrough(r) /\ Len(r) <= k => C!ChainFrom[k][FirstOf(r)] = r
    BY BoundTypes
  <2> HIDE DEF T
  <2>1. C!ChainFrom[k + 1] = ChainStep(k + 1, C!ChainFrom[k])
    <3>1. k + 1 \in 0..NNodes /\ (k + 1) - 1 = k
      BY BoundTypes
    <3> QED BY <3>1, ChainUnfolds
  <2>2. CASE t = <<>>
    BY <2>1, <2>2 DEF ChainStep, FirstOf
  <2>3. CASE t # <<>>
    <3>1. /\ Tail(t) \in Seq(C!Nodes) /\ Len(Tail(t)) = Len(t) - 1 /\ Len(t) \in Nat \ {0}
          /\ \A i \in 1..(Len(t) - 1) : Tail(t)[i] = t[i + 1]
          /\ t[1] \in C!Nodes
      BY <2>3, TailShifts
    <3>c. t = <<t[1]>> \o Tail(t)
      BY <2>3, TailShifts
    <3>l. Len(t) \in Nat \ {0}
      BY <3>1
    <3>2. LeadsThrough(Tail(t))
      <4> SUFFICES ASSUME NEW i \in 1..(Len(t) - 1)
                   PROVE  next[Tail(t)[i]] = IF i = Len(t) - 1 THEN C!Null ELSE Tail(t)[i + 1]
        BY <3>1 DEF LeadsThrough
      <4>0. i + 1 \in 1..Len(t)
        BY <3>l
      <4>1. next[t[i + 1]] = IF i + 1 = Len(t) THEN C!Null ELSE t[(i + 1) + 1]
        BY <4>0 DEF LeadsThrough
      <4>2. (i + 1 = Len(t)) <=> (i = Len(t) - 1)
        BY <3>l
      <4>3. Tail(t)[i] = t[i + 1]
        BY <3>1
      <4>4. CASE i = Len(t) - 1
        BY <4>1, <4>2, <4>3, <4>4
      <4>5. CASE i # Len(t) - 1
        <5>1. i + 1 \in 1..(Len(t) - 1)
          BY <4>5, <3>l
        <5>2. Tail(t)[i + 1] = t[(i + 1) + 1]
          BY <5>1, <3>1
        <5> QED BY <4>1, <4>2, <4>3, <4>5, <5>2
      <4> QED BY <4>4, <4>5, SMTT(90), ZenonT(60)
    <3>3. next[t[1]] = FirstOf(Tail(t))
      <4>1. next[t[1]] = IF Len(t) = 1 THEN C!Null ELSE t[2]
        <5>1. 1 \in 1..Len(t)
          BY <3>l
        <5>2. next[t[1]] = IF 1 = Len(t) THEN C!Null ELSE t[1 + 1]
          BY <5>1 DEF LeadsThrough
        <5> QED BY <5>2
      <4>2. CASE Len(t) = 1
        <5>1. Tail(t) = <<>>
          BY <2>3, <4>2, TailShifts
        <5> QED BY <4>1, <4>2, <5>1 DEF FirstOf
      <4>3. CASE Len(t) # 1
        <5>1. Tail(t) # <<>> /\ Tail(t)[1] = t[2]
          BY <2>3, <4>3, TailShifts
        <5> QED BY <4>1, <4>3, <5>1 DEF FirstOf
      <4> QED BY <4>2, <4>3
    <3>4. C!ChainFrom[k][FirstOf(Tail(t))] = Tail(t)
      <4>1. Len(Tail(t)) <= k
        BY <3>1
      <4> QED BY <2>0, <3>1, <3>2, <4>1
    <3>5. C!ChainFrom[k + 1][t[1]] = <<t[1]>> \o C!ChainFrom[k][next[t[1]]]
      BY <2>1, <3>1, <1>n, SMTT(90), ZenonT(60) DEF ChainStep
    <3>6. FirstOf(t) = t[1]
      BY <2>3 DEF FirstOf
    <3> QED BY <3>c, <3>3, <3>4, <3>5, <3>6
  <2> QED BY <2>2, <2>3
<1>3. \A k \in Nat : k \in T
  <2> HIDE DEF T
  <2> QED BY <1>1, <1>2, SetInduction
<1> QED BY <1>3, BoundTypes DEF C!Chain

\* What is left after the first step, behind the steps that it made.
LEMMA Spliced ==
  ASSUME NEW X, NEW s \in Seq(X), s # <<>>, NEW ops \in Seq(X),
         NEW t, t = ops \o Tail(s)
  PROVE  /\ t \in Seq(X) /\ Len(t) = Len(ops) + Len(s) - 1 /\ DOMAIN t = 1..Len(t)
         /\ Len(s) \in Nat \ {0} /\ Len(ops) \in Nat /\ DOMAIN s = 1..Len(s)
         /\ \A k \in 1..Len(ops) : t[k] = ops[k]
         /\ \A k \in (Len(ops) + 1)..Len(t) : t[k] = s[k - Len(ops) + 1]
<1>1. Tail(s) \in Seq(X) /\ Len(Tail(s)) = Len(s) - 1 /\ Len(s) \in Nat \ {0}
  BY TailShifts
<1>2. Len(ops) \in Nat
  OBVIOUS
<1>3. t \in Seq(X) /\ Len(t) = Len(ops) + Len(s) - 1
  BY <1>1, <1>2
<1>4. DOMAIN t = 1..Len(t) /\ DOMAIN s = 1..Len(s)
  BY <1>3
<1>5. \A k \in 1..Len(ops) : t[k] = ops[k]
  BY <1>1
<1>6. ASSUME NEW k \in (Len(ops) + 1)..Len(t) PROVE t[k] = s[k - Len(ops) + 1]
  <2>1. k - Len(ops) \in 1..(Len(s) - 1)
    BY <1>1, <1>2, <1>3
  <2>2. Tail(s)[k - Len(ops)] = s[k - Len(ops) + 1]
    BY <2>1, TailShifts
  <2>3. k \in (Len(ops) + 1)..(Len(ops) + Len(Tail(s)))
    BY <1>1, <1>2, <1>3
  <2>4. t[k] = Tail(s)[k - Len(ops)]
    BY <2>3, <1>1, <1>2
  <2> QED BY <2>2, <2>4
<1> QED BY <1>1, <1>2, <1>3, <1>4, <1>5, <1>6

\* Where the k-th step comes from when n steps have been put in place of the first one.
LEMMA ShiftArith ==
  ASSUME NEW n \in Nat, NEW l \in Nat, NEW k \in 1..(n + l - 1), k > n
  PROVE  LET m == k - n + 1 IN
         /\ m \in 2..l /\ m \in 1..l /\ m > 1 /\ m - 1 \in 1..l
         /\ k = m + n - 1 /\ k - 1 = m + n - 2 /\ k - 1 \in Nat
OBVIOUS

\* A step before the m-th that follows the n new ones came after the first one.
LEMMA BackArith ==
  ASSUME NEW n \in Nat, NEW l \in Nat, NEW m \in 1..l, NEW x \in 1..(m + n - 2), x > n
  PROVE  x - n + 1 \in 2..(m - 1) /\ x \in (n + 1)..(n + l - 1)
OBVIOUS

\* Steps that come in their sections still do, when the first one has been done and
\* the locks H have become G, if it has made steps that do, and has left locked what it
\* did not say to be over.
LEMMA SectionsStay ==
  ASSUME NEW s \in Seq(Steps), s # <<>>, NEW ops \in Seq(Steps), NEW t, t = ops \o Tail(s),
         NEW H, NEW G, InSections(s, H),
         s[1].do = "lock" => s[1].queue \notin H,
         \A k \in 1..Len(ops) : ops[k].do \in NeedsLock => Within(ops, G, k),
         \A q : (q \in H /\ ~Ends(s[1], q)) \/ s[1] = C!Lock(q)
                  => (q \in G /\ NoEnd(ops, 1, Len(ops), q)) \/ Stuck(ops, G, Len(ops))
  PROVE  InSections(t, G)
<1> DEFINE n == Len(ops)
           ls == Len(s)
           lt == Len(t)
<1>0. /\ t \in Seq(Steps) /\ Len(t) = Len(ops) + Len(s) - 1 /\ DOMAIN t = 1..Len(t)
      /\ Len(s) \in Nat \ {0} /\ Len(ops) \in Nat /\ DOMAIN s = 1..Len(s)
      /\ \A k \in 1..Len(ops) : t[k] = ops[k]
      /\ \A k \in (Len(ops) + 1)..Len(t) : t[k] = s[k - Len(ops) + 1]
  <2> HIDE DEF n, ls, lt
  <2> QED BY Spliced
<1>1. /\ lt = n + ls - 1 /\ DOMAIN t = 1..lt
      /\ ls \in Nat \ {0} /\ n \in Nat /\ DOMAIN s = 1..ls
  BY <1>0
<1>2. \A k \in 1..n : t[k] = ops[k]
  BY <1>0
<1>3. \A k \in (n + 1)..lt : t[k] = s[k - n + 1]
  BY <1>0
<1>c. InSections(s, H) /\ (s[1].do = "lock" => s[1].queue \notin H)
  OBVIOUS
<1> HIDE DEF n, ls, lt
<1>4. \A k \in 2..ls : k + n - 1 \in (n + 1)..lt /\ t[k + n - 1] = s[k]
  <2> SUFFICES ASSUME NEW k \in 2..ls PROVE k + n - 1 \in (n + 1)..lt /\ t[k + n - 1] = s[k]
    OBVIOUS
  <2>1. k + n - 1 \in (n + 1)..lt /\ (k + n - 1) - n + 1 = k
    BY <1>1
  <2> QED BY <1>3, <2>1
<1>5. \A k \in Nat : Stuck(ops, G, n) /\ k >= n => Stuck(t, G, k)
  <2> SUFFICES ASSUME NEW k \in Nat, k >= n, Stuck(ops, G, n) PROVE Stuck(t, G, k)
    OBVIOUS
  <2>1. PICK j \in 1..n : ops[j].do = "lock" /\ ops[j].queue \in G /\ NoEnd(ops, 1, j - 1, ops[j].queue)
    BY DEF Stuck
  <2>2. \A m \in 1..(j - 1) : m \in 1..n
    BY <1>1
  <2>3. t[j] = ops[j] /\ NoEnd(t, 1, j - 1, ops[j].queue)
    BY <1>2, <2>1, <2>2 DEF NoEnd
  <2>4. j \in 1..k
    BY <1>1
  <2> QED BY <2>1, <2>3, <2>4 DEF Stuck
<1>6. ASSUME NEW m \in 1..ls, NEW q, NoEnd(ops, 1, n, q), NoEnd(s, 2, m - 1, q), m > 1
      PROVE  NoEnd(t, 1, m + n - 2, q)
  <2> SUFFICES ASSUME NEW x \in 1..(m + n - 2) PROVE ~Ends(t[x], q)
    BY DEF NoEnd
  <2>1. CASE x <= n
    BY <1>1, <1>2, <1>6, <2>1 DEF NoEnd
  <2>2. CASE x > n
    <3>1. x - n + 1 \in 2..(m - 1) /\ x \in (n + 1)..lt
      BY <1>1, <2>2, BackArith
    <3> QED BY <3>1, <1>3, <1>6 DEF NoEnd
  <2> QED BY <1>1, <2>1, <2>2
<1>7. ASSUME NEW m \in 1..ls, NEW j \in 2..m, NEW q, NoEnd(s, j, m - 1, q)
      PROVE  NoEnd(t, j + n - 1, m + n - 2, q)
  <2> SUFFICES ASSUME NEW x \in (j + n - 1)..(m + n - 2) PROVE ~Ends(t[x], q)
    BY DEF NoEnd
  <2>1. x - n + 1 \in j..(m - 1) /\ x \in (n + 1)..lt
    BY <1>1
  <2> QED BY <2>1, <1>3, <1>7 DEF NoEnd
<1> SUFFICES ASSUME NEW k \in 1..lt, t[k].do \in NeedsLock PROVE Within(t, G, k)
  BY <1>1 DEF InSections
<1>8. CASE k <= n
  <2>1. k \in 1..n /\ t[k] = ops[k] /\ Within(ops, G, k)
    BY <1>1, <1>2, <1>8 DEF n
  <2>2. \A x \in 1..(k - 1) : x \in 1..n /\ t[x] = ops[x]
    BY <1>1, <1>2, <2>1
  <2>3. CASE ops[k].queue \in G /\ NoEnd(ops, 1, k - 1, ops[k].queue)
    BY <2>1, <2>2, <2>3 DEF Within, NoEnd
  <2>4. CASE \E j \in 1..(k - 1) : ops[j] = C!Lock(ops[k].queue) /\ NoEnd(ops, j + 1, k - 1, ops[k].queue)
    <3>1. PICK j \in 1..(k - 1) : ops[j] = C!Lock(ops[k].queue) /\ NoEnd(ops, j + 1, k - 1, ops[k].queue)
      BY <2>4
    <3>2. \A x \in (j + 1)..(k - 1) : x \in 1..(k - 1)
      BY <2>1
    <3>3. t[j] = C!Lock(t[k].queue) /\ NoEnd(t, j + 1, k - 1, t[k].queue)
      BY <2>1, <2>2, <3>1, <3>2 DEF NoEnd
    <3> QED BY <3>3 DEF Within
  <2>5. CASE Stuck(ops, G, k - 1)
    <3>1. PICK j \in 1..(k - 1) : ops[j].do = "lock" /\ ops[j].queue \in G /\ NoEnd(ops, 1, j - 1, ops[j].queue)
      BY <2>5 DEF Stuck
    <3>2. \A x \in 1..(j - 1) : x \in 1..(k - 1)
      BY <2>1
    <3>3. t[j] = ops[j] /\ NoEnd(t, 1, j - 1, ops[j].queue)
      BY <2>2, <3>1, <3>2 DEF NoEnd
    <3>4. Stuck(t, G, k - 1)
      BY <3>1, <3>3 DEF Stuck
    <3> QED BY <3>4 DEF Within
  <2> QED BY <2>1, <2>3, <2>4, <2>5 DEF Within
<1>9. CASE k > n
  <2> DEFINE m == k - n + 1
             q == t[k].queue
  <2>1. /\ m \in 2..ls /\ m \in 1..ls /\ m > 1 /\ m - 1 \in 1..ls
        /\ k = m + n - 1 /\ k - 1 = m + n - 2 /\ k - 1 \in Nat
    BY <1>1, <1>9, ShiftArith
  <2>2. t[k] = s[m]
    <3>1. k \in (n + 1)..lt
      BY <1>1, <1>9
    <3> QED BY <1>3, <3>1
  <2>3. Within(s, H, m)
    <3>1. m \in DOMAIN s
      BY <1>1, <2>1
    <3> HIDE DEF m
    <3> QED BY <2>2, <3>1 DEF InSections
  <2> HIDE DEF m
  <2>4. ASSUME (q \in H /\ ~Ends(s[1], q)) \/ s[1] = C!Lock(q), NoEnd(s, 2, m - 1, q)
        PROVE  Within(t, G, k)
    <3>1. CASE q \in G /\ NoEnd(ops, 1, n, q)
      <4>1. NoEnd(t, 1, m + n - 2, q)
        BY <1>6, <2>1, <2>4, <3>1, Zenon
      <4>2. NoEnd(t, 1, k - 1, q)
        BY <2>1, <4>1
      <4> QED BY <4>2, <3>1 DEF Within
    <3>2. CASE Stuck(ops, G, n)
      <4>1. Stuck(t, G, k - 1)
        <5>1. k - 1 >= n
          BY <1>1, <1>9
        <5> QED BY <1>5, <2>1, <3>2, <5>1
      <4> QED BY <4>1 DEF Within
    <3> QED BY <2>4, <3>1, <3>2 DEF n
  <2>5. CASE q \in H /\ NoEnd(s, 1, m - 1, q)
    <3>1. 1 \in 1..(m - 1) /\ \A x \in 2..(m - 1) : x \in 1..(m - 1)
      BY <2>1
    <3>2. ~Ends(s[1], q) /\ NoEnd(s, 2, m - 1, q)
      BY <2>5, <3>1 DEF NoEnd
    <3> QED BY <2>4, <2>5, <3>2
  <2>6. CASE \E j \in 1..(m - 1) : s[j] = C!Lock(q) /\ NoEnd(s, j + 1, m - 1, q)
    <3>1. PICK j \in 1..(m - 1) : s[j] = C!Lock(q) /\ NoEnd(s, j + 1, m - 1, q)
      BY <2>6
    <3>2. CASE j = 1
      <4>0. j + 1 = 2
        BY <3>2
      <4>1. NoEnd(s, 2, m - 1, q) /\ s[1] = C!Lock(q)
        BY <3>1, <3>2, <4>0, Zenon
      <4> QED BY <2>4, <4>1
    <3>3. CASE j # 1
      <4>1. j \in 2..ls /\ j + 1 \in 2..m /\ m \in 1..ls /\ (j + 1) + n - 1 = (j + n - 1) + 1
            /\ j + n - 1 \in 1..(k - 1)
        BY <1>1, <2>1, <3>3
      <4>2. t[j + n - 1] = C!Lock(q)
        BY <1>4, <3>1, <4>1
      <4>3. NoEnd(t, (j + n - 1) + 1, k - 1, q)
        <5>1. NoEnd(t, (j + 1) + n - 1, m + n - 2, q)
          BY <1>7, <3>1, <4>1
        <5> QED BY <2>1, <4>1, <5>1
      <4> QED BY <4>1, <4>2, <4>3 DEF Within
    <3> QED BY <3>2, <3>3
  <2>7. CASE Stuck(s, H, m - 1)
    <3>1. PICK j \in 1..(m - 1) : s[j].do = "lock" /\ s[j].queue \in H /\ NoEnd(s, 1, j - 1, s[j].queue)
      BY <2>7 DEF Stuck
    <3>2. j # 1
      BY <3>1
    <3>3. j \in 2..ls /\ j \in 1..ls /\ j > 1 /\ 1 \in 1..(j - 1) /\ (\A x \in 2..(j - 1) : x \in 1..(j - 1))
          /\ j + n - 1 \in 1..(k - 1) /\ (j + n - 1) - 1 = j + n - 2
      BY <1>1, <2>1, <3>2
    <3>4. ~Ends(s[1], s[j].queue) /\ NoEnd(s, 2, j - 1, s[j].queue)
      BY <3>1, <3>3 DEF NoEnd
    <3>5. CASE s[j].queue \in G /\ NoEnd(ops, 1, n, s[j].queue)
      <4>1. NoEnd(t, 1, j + n - 2, s[j].queue)
        BY <1>6, <3>3, <3>4, <3>5
      <4>2. t[j + n - 1] = s[j]
        BY <1>4, <3>3
      <4>3. Stuck(t, G, k - 1)
        <5>1. NoEnd(t, 1, (j + n - 1) - 1, t[j + n - 1].queue)
          BY <3>3, <4>1, <4>2
        <5>2. t[j + n - 1].do = "lock" /\ t[j + n - 1].queue \in G
          BY <3>1, <3>5, <4>2
        <5> QED BY <3>3, <5>1, <5>2 DEF Stuck
      <4> QED BY <4>3 DEF Within
    <3>6. CASE Stuck(ops, G, n)
      <4>1. Stuck(t, G, k - 1)
        <5>1. k - 1 >= n
          BY <1>1, <1>9
        <5> QED BY <1>5, <2>1, <3>6, <5>1
      <4> QED BY <4>1 DEF Within
    <3> QED BY <3>1, <3>4, <3>5, <3>6 DEF n
  <2> QED BY <2>2, <2>3, <2>5, <2>6, <2>7 DEF Within
<1> QED BY <1>1, <1>8, <1>9

\* What a step of each kind is made of.
LEMMA StepKinds ==
  ASSUME NEW o \in Steps
  PROVE  /\ o.do = "lock" => o.queue \in C!Queues /\ o = C!Lock(o.queue)
         /\ o.do = "unlock" => o.queue \in C!Queues /\ o = C!Unlock(o.queue)
         /\ o.do = "link" => o.queue \in C!Queues /\ o.value \in C!Values /\ o = C!Link(o.queue, o.value)
         /\ o.do = "move_tail" => o.queue \in C!Queues /\ o.node \in C!Nodes /\ o = C!MoveTail(o.queue, o.node)
         /\ o.do = "take" => o.queue \in C!Queues /\ o.all \in BOOLEAN /\ o = C!Take(o.queue, o.all)
         /\ o.do = "swap_head" => o.queue \in C!Queues /\ o.value \in C!Values /\ o = C!SwapHead(o.queue, o.value)
         /\ o.do = "run" => o.value \in C!Values
         /\ o.do = "peak" => o.queue \in C!Queues /\ o = C!Peak(o.queue)
         /\ o.do = "decide" => o.queue \in C!Queues /\ o.value \in C!Values /\ o = C!Decide(o.queue, o.value)
         /\ o.do = "lock_shared" => o.event \in C!Events
         /\ o.do = "emplace_current" => o.event \in C!Events /\ o.value \in C!Values
         /\ o.do = "lock_unique" => o.event \in C!Events
         /\ o.do = "exchange" => o.event \in C!Events
         /\ o.do = "release" => o.event \in C!Events
         /\ o.do = "destroy" => o.queue \in C!Queues /\ o = C!Destroy(o.queue)
BY DEF Steps, C!Lock, C!Unlock, C!Link, C!MoveTail, C!Take, C!SwapHead, C!Run, C!Peak, C!Decide, C!LockShared,
       C!EmplaceCurrent, C!LockUnique, C!Exchange, C!Release, C!Destroy

\* The constructors make steps.
LEMMA MakesSteps ==
  /\ \A q \in C!Queues : C!Lock(q) \in Steps /\ C!Unlock(q) \in Steps /\ C!Take(q, TRUE) \in Steps /\ C!Destroy(q) \in Steps
  /\ \A q \in C!Queues, v \in C!Values :
       C!Link(q, v) \in Steps /\ C!SwapHead(q, v) \in Steps /\ C!Decide(q, v) \in Steps /\ C!Run(v) \in Steps
  /\ \A q \in C!Queues, n \in C!Nodes : C!MoveTail(q, n) \in Steps
  /\ \A e \in C!Events : C!LockShared(e) \in Steps /\ C!Release(e) \in Steps
  /\ \A e \in C!Events, v \in C!Values : C!EmplaceCurrent(e, v) \in Steps
<1>1. ASSUME NEW q \in C!Queues
      PROVE  C!Lock(q) \in Steps /\ C!Unlock(q) \in Steps /\ C!Take(q, TRUE) \in Steps /\ C!Destroy(q) \in Steps
  <2>1. C!Lock(q) \in Steps
    BY DEF Steps
  <2>2. C!Unlock(q) \in Steps
    BY DEF Steps
  <2>3. C!Take(q, TRUE) \in Steps
    <3>1. \A all \in BOOLEAN : C!Take(q, all) \in Steps
      BY DEF Steps
    <3> QED BY <3>1, Zenon
  <2>4. C!Destroy(q) \in Steps
    BY DEF Steps
  <2> QED BY <2>1, <2>2, <2>3, <2>4
<1>2. ASSUME NEW q \in C!Queues, NEW v \in C!Values
      PROVE  C!Link(q, v) \in Steps /\ C!SwapHead(q, v) \in Steps /\ C!Decide(q, v) \in Steps /\ C!Run(v) \in Steps
  <2>1. C!Link(q, v) \in Steps
    BY DEF Steps
  <2>2. C!SwapHead(q, v) \in Steps
    BY DEF Steps
  <2>3. C!Decide(q, v) \in Steps
    BY DEF Steps
  <2>4. C!Run(v) \in Steps
    BY DEF Steps
  <2> QED BY <2>1, <2>2, <2>3, <2>4
<1>3. \A q \in C!Queues, n \in C!Nodes : C!MoveTail(q, n) \in Steps
  BY DEF Steps
<1>4. \A e \in C!Events : C!LockShared(e) \in Steps /\ C!Release(e) \in Steps
  BY DEF Steps
<1>5. \A e \in C!Events, v \in C!Values : C!EmplaceCurrent(e, v) \in Steps
  BY DEF Steps
<1> QED BY <1>1, <1>2, <1>3, <1>4, <1>5

\* Short lists put together.
LEMMA Lists ==
  ASSUME NEW X, NEW a \in X, NEW b \in X, NEW c \in X, NEW d \in X, NEW e \in X
  PROVE  /\ <<a>> \in Seq(X) /\ <<a, b>> \in Seq(X) /\ <<a, b, c>> \in Seq(X)
         /\ <<a, b, c, d>> \in Seq(X) /\ <<a, b, c, d, e>> \in Seq(X)
<1>1. <<a>> \in Seq(X) /\ <<a, b>> \in Seq(X) /\ <<a, b, c>> \in Seq(X)
  OBVIOUS
<1>2. <<a, b, c, d>> \in Seq(X)
  OBVIOUS
<1>3. <<a, b, c, d, e>> \in Seq(X)
  OBVIOUS
<1> QED BY <1>1, <1>2, <1>3

\* Lists of the same elements are the same.
LEMMA SameSequence ==
  ASSUME NEW X, NEW s \in Seq(X), NEW t \in Seq(X), Len(s) = Len(t), \A i \in 1..Len(s) : s[i] = t[i]
  PROVE  s = t
OBVIOUS

\* A call of consume_all that goes on with itself: five steps in a row.
LEMMA ConcatFive == \A a, b, c, d, e : <<a, b, c>> \o <<d, e>> = <<a, b, c, d, e>>
<1> SUFFICES ASSUME NEW a, NEW b, NEW c, NEW d, NEW e
             PROVE  <<a, b, c>> \o <<d, e>> = <<a, b, c, d, e>>
  OBVIOUS
<1> DEFINE X == {a, b, c, d, e}
<1>1. a \in X /\ b \in X /\ c \in X /\ d \in X /\ e \in X
  OBVIOUS
<1> HIDE DEF X
<1>2. /\ <<a>> \in Seq(X) /\ <<b, c>> \in Seq(X) /\ <<a, b, c>> \in Seq(X) /\ <<d>> \in Seq(X) /\ <<d, e>> \in Seq(X)
      /\ <<a, b, c, d>> \in Seq(X) /\ <<a, b, c, d, e>> \in Seq(X) /\ <<>> \in Seq(X)
  BY <1>1, Lists
<1>3. \A s, t \in Seq(X) : s \o t \in Seq(X) /\ Len(s \o t) = Len(s) + Len(t)
  OBVIOUS
<1>4. <<a, b, c>> \o <<d, e>> = <<a, b, c, d, e>>
  <2> DEFINE s == <<a, b, c>> \o <<d, e>>
             t == <<a, b, c, d, e>>
  <2>1. s \in Seq(X) /\ t \in Seq(X)
    BY <1>2, <1>3
  <2>2. Len(s) = 5 /\ Len(t) = 5
    OBVIOUS
  <2>3. s[1] = a /\ s[2] = b /\ s[3] = c /\ s[4] = d /\ s[5] = e
    OBVIOUS
  <2>4. t[1] = a /\ t[2] = b /\ t[3] = c /\ t[4] = d /\ t[5] = e
    OBVIOUS
  <2> HIDE DEF s, t
  <2>5. \A i \in 1..5 : s[i] = t[i]
    BY <2>3, <2>4
  <2>6. s = t
    BY <2>1, <2>2, <2>5, SameSequence
  <2> QED BY <2>6 DEF s, t
<1> QED BY <1>4

\* Other calls, put together from their parts.
LEMMA Concats ==
  ASSUME NEW a, NEW b, NEW c, NEW d
  PROVE  /\ <<a, b, c>> \o <<d>> = <<a, b, c, d>>
         /\ <<a, b, c>> \o <<>> = <<a, b, c>>
         /\ (<<a>> \o <<b, c>>) \o <<d>> = <<a, b, c, d>>
<1> DEFINE X == {a, b, c, d}
<1>1. a \in X /\ b \in X /\ c \in X /\ d \in X
  OBVIOUS
<1> HIDE DEF X
<1>2. /\ <<a>> \in Seq(X) /\ <<b, c>> \in Seq(X) /\ <<a, b, c>> \in Seq(X) /\ <<d>> \in Seq(X)
      /\ <<a, b, c, d>> \in Seq(X) /\ <<>> \in Seq(X)
  BY <1>1, Lists
<1>3. \A s, t \in Seq(X) : s \o t \in Seq(X) /\ Len(s \o t) = Len(s) + Len(t)
  OBVIOUS
<1>4. <<a, b, c>> \o <<d>> = <<a, b, c, d>>
  <2> DEFINE s == <<a, b, c>> \o <<d>>
             t == <<a, b, c, d>>
  <2>1. s \in Seq(X) /\ t \in Seq(X)
    BY <1>2, <1>3
  <2>2. Len(s) = 4 /\ Len(t) = 4
    OBVIOUS
  <2>3. s[1] = a /\ s[2] = b /\ s[3] = c /\ s[4] = d
    OBVIOUS
  <2>4. t[1] = a /\ t[2] = b /\ t[3] = c /\ t[4] = d
    OBVIOUS
  <2> HIDE DEF s, t
  <2>5. \A i \in 1..4 : s[i] = t[i]
    BY <2>3, <2>4
  <2>6. s = t
    BY <2>1, <2>2, <2>5, SameSequence
  <2> QED BY <2>6 DEF s, t
<1>5. <<a, b, c>> \o <<>> = <<a, b, c>>
  BY <1>2
<1>6. <<a>> \o <<b, c>> = <<a, b, c>>
  <2> DEFINE s == <<a>> \o <<b, c>>
             t == <<a, b, c>>
  <2>1. s \in Seq(X) /\ t \in Seq(X)
    BY <1>2, <1>3
  <2>2. Len(s) = 3 /\ Len(t) = 3
    OBVIOUS
  <2>3. s[1] = a /\ s[2] = b /\ s[3] = c
    OBVIOUS
  <2>4. t[1] = a /\ t[2] = b /\ t[3] = c
    OBVIOUS
  <2> HIDE DEF s, t
  <2>5. \A i \in 1..3 : s[i] = t[i]
    BY <2>3, <2>4
  <2>6. s = t
    BY <2>1, <2>2, <2>5, SameSequence
  <2> QED BY <2>6 DEF s, t
<1> QED BY <1>4, <1>5, <1>6

\* Steps that may be put in front when o has been done under the locks H.
Proper(ops, H, o) ==
  /\ \A k \in 1..Len(ops) : ops[k].do \in NeedsLock => Within(ops, H, k)
  /\ \A k \in 1..Len(ops) : ops[k].do \in MidSteps => k = 1
  /\ \A q \in H : ~Ends(o, q) => NoEnd(ops, 1, Len(ops), q) \/ Stuck(ops, H, Len(ops))

\* What actions put in front of an agenda is proper: nothing,
LEMMA ProperNone == ASSUME NEW H, NEW o PROVE Proper(<<>>, H, o)
BY DEF Proper, NoEnd

\* the move of tail_ behind the link of a node,
LEMMA ProperLink == ASSUME NEW H, NEW o, NEW q \in H, NEW n PROVE Proper(<<C!MoveTail(q, n)>>, H, o)
BY DEF Proper, NoEnd, Ends, C!MoveTail, Within, MidSteps

\* the unlock of an empty queue,
LEMMA ProperUnlock ==
  ASSUME NEW H, NEW o, NEW q \in H, Ends(o, q) PROVE Proper(<<C!Unlock(q)>>, H, o)
BY DEF Proper, NoEnd, Ends, C!Unlock, Within, MidSteps

\* what to do with a value that was peaked at,
LEMMA ProperPeak ==
  ASSUME NEW H, NEW o, NEW q \in H, NEW v, Ends(o, q) PROVE Proper(<<C!Decide(q, v), C!Unlock(q)>>, H, o)
<1> DEFINE ops == <<C!Decide(q, v), C!Unlock(q)>>
<1> SUFFICES Proper(ops, H, o)
  OBVIOUS
<1>1. Len(ops) = 2 /\ ops[1] = C!Decide(q, v) /\ ops[2] = C!Unlock(q)
  OBVIOUS
<1> HIDE DEF ops
<1>2. \A r : ~Ends(ops[1], r)
  BY <1>1 DEF Ends, C!Decide
<1>3. Within(ops, H, 1)
  BY <1>1 DEF Within, NoEnd, C!Decide
<1>4. Within(ops, H, 2)
  BY <1>1, <1>2 DEF Within, NoEnd, C!Unlock
<1>5. \A r : r # q => NoEnd(ops, 1, 2, r)
  BY <1>1, <1>2 DEF NoEnd, Ends, C!Unlock
<1>m. \A m \in 1..2 : ops[m].do \in MidSteps => m = 1
  <2>1. \A m \in 1..2 : m = 1 \/ m = 2
    OBVIOUS
  <2> QED BY <1>1, <2>1 DEF MidSteps, C!Unlock
<1> QED BY <1>1, <1>3, <1>4, <1>5, <1>m DEF Proper

\* the run of a value that was taken,
LEMMA ProperTake ==
  ASSUME NEW H, NEW o, NEW q \in H, NEW v, Ends(o, q)
  PROVE  Proper(<<C!SwapHead(q, v), C!Run(v), C!Unlock(q)>>, H, o)
<1> DEFINE ops == <<C!SwapHead(q, v), C!Run(v), C!Unlock(q)>>
<1> SUFFICES Proper(ops, H, o)
  OBVIOUS
<1>1. Len(ops) = 3 /\ ops[1] = C!SwapHead(q, v) /\ ops[2] = C!Run(v) /\ ops[3] = C!Unlock(q)
  OBVIOUS
<1> HIDE DEF ops
<1>2. \A r : ~Ends(ops[1], r) /\ ~Ends(ops[2], r)
  BY <1>1 DEF Ends, C!SwapHead, C!Run
<1>3. Within(ops, H, 1)
  BY <1>1 DEF Within, NoEnd, C!SwapHead
<1>4. Within(ops, H, 3)
  <2>1. \A m \in 1..(3 - 1) : m = 1 \/ m = 2
    OBVIOUS
  <2> QED BY <1>1, <1>2, <2>1 DEF Within, NoEnd, C!Unlock
<1>5. \A r : r # q => NoEnd(ops, 1, 3, r)
  BY <1>1, <1>2 DEF NoEnd, Ends, C!Unlock
<1>6. ops[2].do \notin NeedsLock
  BY <1>1 DEF C!Run, NeedsLock
<1>m. \A m \in 1..3 : ops[m].do \in MidSteps => m = 1
  <2>1. \A m \in 1..3 : m = 1 \/ m = 2 \/ m = 3
    OBVIOUS
  <2> QED BY <1>1, <2>1 DEF MidSteps, C!Run, C!Unlock
<1> QED BY <1>1, <1>3, <1>4, <1>5, <1>6, <1>m DEF Proper

\* the same in a loop that takes all,
LEMMA ProperTakeAll ==
  ASSUME NEW H, NEW o, NEW q \in H, NEW v, Ends(o, q)
  PROVE  Proper(<<C!SwapHead(q, v), C!Run(v), C!Unlock(q), C!Lock(q), C!Take(q, TRUE)>>, H, o)
<1> DEFINE ops == <<C!SwapHead(q, v), C!Run(v), C!Unlock(q), C!Lock(q), C!Take(q, TRUE)>>
<1> SUFFICES Proper(ops, H, o)
  OBVIOUS
<1>1. Len(ops) = 5 /\ ops[1] = C!SwapHead(q, v) /\ ops[2] = C!Run(v) /\ ops[3] = C!Unlock(q)
      /\ ops[4] = C!Lock(q) /\ ops[5] = C!Take(q, TRUE)
  OBVIOUS
<1> HIDE DEF ops
<1>2. \A r : ~Ends(ops[1], r) /\ ~Ends(ops[2], r) /\ ~Ends(ops[4], r)
  BY <1>1 DEF Ends, C!SwapHead, C!Run, C!Lock
<1>3. Within(ops, H, 1)
  BY <1>1 DEF Within, NoEnd, C!SwapHead
<1>4. Within(ops, H, 3)
  <2>1. \A m \in 1..(3 - 1) : m = 1 \/ m = 2
    OBVIOUS
  <2> QED BY <1>1, <1>2, <2>1 DEF Within, NoEnd, C!Unlock
<1>5. Within(ops, H, 5)
  <2>1. NoEnd(ops, 4 + 1, 5 - 1, q) /\ 4 \in 1..(5 - 1)
    BY DEF NoEnd
  <2>2. ops[5].queue = q
    BY <1>1 DEF C!Take
  <2> QED BY <1>1, <2>1, <2>2 DEF Within
<1>6. \A r : r # q => NoEnd(ops, 1, 5, r)
  <2>1. \A m \in 1..5 : m = 1 \/ m = 2 \/ m = 3 \/ m = 4 \/ m = 5
    OBVIOUS
  <2> QED BY <1>1, <1>2, <2>1 DEF NoEnd, Ends, C!Unlock, C!Take
<1>7. ops[2].do \notin NeedsLock /\ ops[4].do \notin NeedsLock
  BY <1>1 DEF C!Run, C!Lock, NeedsLock
<1>8. \A m \in 1..5 : m = 1 \/ m = 2 \/ m = 3 \/ m = 4 \/ m = 5
  OBVIOUS
<1>m. \A m \in 1..5 : ops[m].do \in MidSteps => m = 1
  <2>1. \A m \in 1..5 : m = 1 \/ m = 2 \/ m = 3 \/ m = 4 \/ m = 5
    OBVIOUS
  <2> QED BY <1>1, <2>1 DEF MidSteps, C!Run, C!Unlock, C!Lock, C!Take
<1> QED BY <1>1, <1>3, <1>4, <1>5, <1>6, <1>7, <1>8, <1>m DEF Proper

\* an emplace, with the release of the pointer behind it or not,
LEMMA ProperEmplace ==
  ASSUME NEW H, NEW o, NEW q, NEW v, NEW ops, NEW n \in {3, 4}, Len(ops) = n,
         ops[1] = C!Lock(q), ops[2] = C!Link(q, v), ops[3] = C!Unlock(q), n = 4 => \E e : ops[4] = C!Release(e)
  PROVE  Proper(ops, H, o)
<1>1. \A m \in 1..n : m = 1 \/ m = 2 \/ m = 3 \/ (m = 4 /\ n = 4)
  OBVIOUS
<1>0. ASSUME n = 4 PROVE ops[4].do = "release"
  <2>1. PICK e : ops[4] = C!Release(e)
    BY <1>0
  <2> QED BY <2>1 DEF C!Release
<1>2. \A r : ~Ends(ops[1], r) /\ ~Ends(ops[2], r) /\ (n = 4 => ~Ends(ops[4], r))
  <2>1. ops[1].do = "lock" /\ ops[2].do = "link"
    BY DEF C!Link, C!Lock
  <2> QED BY <1>0, <2>1 DEF Ends
<1>3. Within(ops, H, 2)
  <2>1. NoEnd(ops, 1 + 1, 2 - 1, q) /\ 1 \in 1..(2 - 1)
    BY DEF NoEnd
  <2>2. ops[2].queue = q
    BY DEF C!Link
  <2> QED BY <2>1, <2>2 DEF Within
<1>4. Within(ops, H, 3)
  <2>1. NoEnd(ops, 1 + 1, 3 - 1, q) /\ 1 \in 1..(3 - 1)
    <3>1. \A m \in (1 + 1)..(3 - 1) : m = 2
      OBVIOUS
    <3> QED BY <1>2, <3>1 DEF NoEnd
  <2>2. ops[3].queue = q
    BY DEF C!Unlock
  <2> QED BY <2>1, <2>2 DEF Within
<1>5. ops[1].do \notin NeedsLock /\ (n = 4 => ops[4].do \notin NeedsLock)
  BY <1>0 DEF C!Lock, NeedsLock
<1>m. \A m \in 1..n : ops[m].do \in MidSteps => m = 1
  BY <1>0, <1>1 DEF MidSteps, C!Link, C!Unlock, C!Lock
<1>6. CASE q \in H
  <2>1. Stuck(ops, H, n)
    <3>1. NoEnd(ops, 1, 1 - 1, q) /\ 1 \in 1..n
      BY DEF NoEnd
    <3>2. ops[1].do = "lock" /\ ops[1].queue = q
      BY DEF C!Lock
    <3> QED BY <1>6, <3>1, <3>2 DEF Stuck
  <2> QED BY <1>1, <1>3, <1>4, <1>5, <2>1, <1>m DEF Proper
<1>7. CASE q \notin H
  <2>1. ASSUME NEW r \in H, NEW m \in 1..n PROVE ~Ends(ops[m], r)
    <3>1. CASE m = 3
      <4>1. ops[3].queue = q
        BY DEF C!Unlock
      <4> QED BY <1>7, <3>1, <4>1 DEF Ends
    <3>2. CASE m # 3
      BY <1>1, <1>2, <3>2
    <3> QED BY <3>1, <3>2
  <2>2. \A r \in H : NoEnd(ops, 1, n, r)
    BY <2>1 DEF NoEnd
  <2> QED BY <1>1, <1>3, <1>4, <1>5, <2>2, <1>m DEF Proper
<1> QED BY <1>6, <1>7

\* an attach to an event,
LEMMA ProperAttach ==
  ASSUME NEW H, NEW o, NEW e, NEW v PROVE Proper(C!Attach(e, v), H, o)
<1> DEFINE ops == C!Attach(e, v)
<1> SUFFICES Proper(ops, H, o)
  OBVIOUS
<1>1. Len(ops) = 2 /\ ops[1] = C!LockShared(e) /\ ops[2] = C!EmplaceCurrent(e, v)
  BY DEF C!Attach
<1> HIDE DEF ops
<1>2. \A m \in 1..2 : m = 1 \/ m = 2
  OBVIOUS
<1>3. \A m \in 1..2 : ops[m].do \notin NeedsLock
  BY <1>1, <1>2 DEF C!LockShared, C!EmplaceCurrent, NeedsLock
<1>4. \A r : NoEnd(ops, 1, 2, r)
  BY <1>1, <1>2 DEF NoEnd, Ends, C!LockShared, C!EmplaceCurrent
<1>m. \A m \in 1..2 : ops[m].do \in MidSteps => m = 1
  <2>1. \A m \in 1..2 : m = 1 \/ m = 2
    OBVIOUS
  <2> QED BY <1>1, <2>1 DEF MidSteps, C!LockShared, C!EmplaceCurrent
<1> QED BY <1>1, <1>3, <1>4, <1>m DEF Proper

\* and a drain of the queue that was exchanged.
LEMMA ProperExchange ==
  ASSUME NEW H, NEW o, NEW e, NEW q PROVE Proper(<<C!Release(e), C!Lock(q), C!Take(q, TRUE), C!Destroy(q)>>, H, o)
<1> DEFINE ops == <<C!Release(e), C!Lock(q), C!Take(q, TRUE), C!Destroy(q)>>
<1> SUFFICES Proper(ops, H, o)
  OBVIOUS
<1>1. Len(ops) = 4 /\ ops[1] = C!Release(e) /\ ops[2] = C!Lock(q) /\ ops[3] = C!Take(q, TRUE) /\ ops[4] = C!Destroy(q)
  OBVIOUS
<1> HIDE DEF ops
<1>2. \A m \in 1..4 : m = 1 \/ m = 2 \/ m = 3 \/ m = 4
  OBVIOUS
<1>3. \A r : ~Ends(ops[1], r) /\ ~Ends(ops[2], r) /\ ~Ends(ops[4], r)
  BY <1>1 DEF Ends, C!Release, C!Lock, C!Destroy
<1>4. ops[1].do \notin NeedsLock /\ ops[2].do \notin NeedsLock /\ ops[4].do \notin NeedsLock
  BY <1>1 DEF C!Release, C!Lock, C!Destroy, NeedsLock
<1>5. Within(ops, H, 3)
  <2>1. NoEnd(ops, 2 + 1, 3 - 1, q) /\ 2 \in 1..(3 - 1)
    BY DEF NoEnd
  <2>2. ops[3].queue = q
    BY <1>1 DEF C!Take
  <2> QED BY <1>1, <2>1, <2>2 DEF Within
<1>m. \A m \in 1..4 : ops[m].do \in MidSteps => m = 1
  <2>1. \A m \in 1..4 : m = 1 \/ m = 2 \/ m = 3 \/ m = 4
    OBVIOUS
  <2> QED BY <1>1, <2>1 DEF MidSteps, C!Release, C!Lock, C!Take, C!Destroy
<1>6. CASE q \in H
  <2>1. Stuck(ops, H, 4)
    <3>1. NoEnd(ops, 1, 2 - 1, q) /\ 2 \in 1..4
      <4>1. \A m \in 1..(2 - 1) : m = 1
        OBVIOUS
      <4> QED BY <1>3, <4>1 DEF NoEnd
    <3>2. ops[2].do = "lock" /\ ops[2].queue = q
      BY <1>1 DEF C!Lock
    <3> QED BY <1>6, <3>1, <3>2 DEF Stuck
  <2> QED BY <1>1, <1>2, <1>4, <1>5, <2>1, <1>m DEF Proper
<1>7. CASE q \notin H
  <2>1. \A r \in H : NoEnd(ops, 1, 4, r)
    BY <1>1, <1>2, <1>3, <1>7 DEF NoEnd, Ends, C!Take
  <2> QED BY <1>1, <1>2, <1>4, <1>5, <2>1, <1>m DEF Proper
<1> QED BY <1>6, <1>7

\* Types and sections: the part of the invariant that does not speak of lists.
Core == QueueTypes /\ PointerTypes /\ Sections /\ MidFirst

\* A thread does a step, which makes others.
Does(th, op, ops) == C!IsNext(th, op) /\ ops \in Seq(Steps) /\ C!Then(th, ops)

\* What a thread does next is a step, under the lock that it needs.
LEMMA NextStep ==
  ASSUME Core, NEW th \in Threads, NEW op, C!IsNext(th, op)
  PROVE  /\ agenda[th] \in Seq(Steps) /\ agenda[th] # <<>>
         /\ C!Op(th) = agenda[th][1] /\ C!Op(th) \in Steps /\ C!Op(th).do = op
         /\ 1 \in DOMAIN agenda[th]
         /\ op \in NeedsLock => C!Op(th).queue \in Held(th)
         /\ th # Nobody
<1>1. agenda[th] \in Seq(Steps) /\ agenda[th] # <<>>
  BY DEF Core, QueueTypes, FieldTypes, C!IsNext
<1>2. C!Op(th) = agenda[th][1] /\ C!Op(th) \in Steps /\ 1 \in DOMAIN agenda[th]
  BY <1>1 DEF C!Op
<1>3. C!Op(th).do = op
  BY DEF C!IsNext, C!Op
<1>4. ASSUME op \in NeedsLock PROVE C!Op(th).queue \in Held(th)
  <2>1. Within(agenda[th], Held(th), 1)
    BY <1>2, <1>3, <1>4 DEF Core, Sections, InSections
  <2>2. ~Stuck(agenda[th], Held(th), 1 - 1)
    BY DEF Stuck
  <2> QED BY <1>2, <2>1, <2>2 DEF Within
<1> QED BY <1>1, <1>2, <1>3, <1>4, BoundTypes

\* An action changes the agenda of its own thread only.
LEMMA Agendas ==
  ASSUME Core, NEW th \in Threads, NEW op, NEW ops, Does(th, op, ops)
  PROVE  /\ agenda' \in [Threads -> Seq(Steps)]
         /\ agenda'[th] = ops \o Tail(agenda[th])
         /\ \A ot \in Threads : ot # th => agenda'[ot] = agenda[ot]
<1>1. agenda[th] \in Seq(Steps) /\ agenda[th] # <<>>
  BY NextStep DEF Does
<1>2. Tail(agenda[th]) \in Seq(Steps)
  BY <1>1
<1>3. agenda \in [Threads -> Seq(Steps)]
  BY DEF Core, QueueTypes, FieldTypes
<1>4. agenda' = [agenda EXCEPT ![th] = ops \o Tail(agenda[th])]
  BY <1>3 DEF Does, C!Then
<1>5. ops \o Tail(agenda[th]) \in Seq(Steps)
  BY <1>2 DEF Does
<1> QED BY <1>3, <1>4, <1>5

\* Where what is left on the agenda comes from.
LEMMA AgendaOf ==
  ASSUME Core, NEW th \in Threads, NEW op, NEW ops, Does(th, op, ops), NEW n, n = Len(ops)
  PROVE  LET s == agenda[th]
             t == agenda'[th] IN
         /\ n \in Nat /\ Len(s) \in Nat \ {0} /\ Len(t) = n + Len(s) - 1
         /\ DOMAIN s = 1..Len(s) /\ DOMAIN t = 1..Len(t)
         /\ \A k \in 1..n : t[k] = ops[k]
         /\ \A k \in (n + 1)..Len(t) : t[k] = s[k - n + 1]
         /\ \A k \in DOMAIN t : k > n => k - n + 1 \in DOMAIN s /\ k - n + 1 > 1
<1> DEFINE s == agenda[th]
           t == agenda'[th]
<1>1. s \in Seq(Steps) /\ s # <<>>
  BY NextStep DEF Does
<1>2. ops \in Seq(Steps) /\ t = ops \o Tail(s)
  BY Agendas DEF Does
<1> HIDE DEF s, t
<1>3. /\ n \in Nat /\ Len(s) \in Nat \ {0} /\ Len(t) = n + Len(s) - 1
      /\ DOMAIN s = 1..Len(s) /\ DOMAIN t = 1..Len(t)
      /\ \A k \in 1..n : t[k] = ops[k]
      /\ \A k \in (n + 1)..Len(t) : t[k] = s[k - n + 1]
  BY <1>1, <1>2, Spliced
<1>4. \A k \in DOMAIN t : k > n => k - n + 1 \in DOMAIN s /\ k - n + 1 > 1
  <2> SUFFICES ASSUME NEW k \in 1..(n + Len(s) - 1), k > n PROVE k - n + 1 \in 1..Len(s) /\ k - n + 1 > 1
    BY <1>3
  <2> QED BY <1>3, ShiftArith
<1> QED BY <1>3, <1>4 DEF s, t

\* A step that is not one of those made came after the one done.
LEMMA AgendaMoved ==
  ASSUME Core, NEW th \in Threads, NEW op, NEW ops, Does(th, op, ops), NEW n, n = Len(ops),
         NEW k \in DOMAIN agenda'[th], k > n
  PROVE  /\ agenda'[th][k] = agenda[th][k - n + 1]
         /\ k - n + 1 \in DOMAIN agenda[th] /\ k - n + 1 > 1
<1>1. PICK s : s = agenda[th]
  OBVIOUS
<1>2. PICK t : t = agenda'[th]
  OBVIOUS
<1>3. /\ n \in Nat /\ Len(s) \in Nat /\ Len(t) = n + Len(s) - 1
      /\ DOMAIN s = 1..Len(s) /\ DOMAIN t = 1..Len(t)
      /\ \A i \in (n + 1)..Len(t) : t[i] = s[i - n + 1]
  <2>1. s \in Seq(Steps) /\ s # <<>> /\ ops \in Seq(Steps) /\ t = ops \o Tail(s)
    BY <1>1, <1>2, NextStep, Agendas DEF Does
  <2> QED BY <2>1, Spliced
<1>4. k \in 1..(n + Len(s) - 1) /\ k \in (n + 1)..Len(t)
  BY <1>2, <1>3
<1>5. k - n + 1 \in 1..Len(s) /\ k - n + 1 > 1
  BY <1>3, <1>4, ShiftArith
<1> QED BY <1>1, <1>2, <1>3, <1>4, <1>5

\* An action leaves no thread in the middle of two calls.
LEMMA MidStays ==
  ASSUME Core, NEW th \in Threads, NEW op, NEW ops, Does(th, op, ops), Proper(ops, Held(th), C!Op(th))
  PROVE  MidFirst'
<1> DEFINE t == agenda'[th]
<1>n. PICK n : n = Len(ops)
  OBVIOUS
<1>1. SUFFICES ASSUME NEW k \in DOMAIN t, t[k].do \in MidSteps PROVE k = 1
  BY Agendas DEF Core, MidFirst
<1>2. /\ n \in Nat /\ Len(t) \in Nat /\ DOMAIN t = 1..Len(t)
      /\ \A m \in 1..n : t[m] = ops[m]
      /\ \A m \in DOMAIN t : m > n => m - n + 1 \in DOMAIN agenda[th] /\ m - n + 1 > 1
  <2>1. n \in Nat /\ Len(t) \in Nat /\ DOMAIN t = 1..Len(t)
    BY <1>n, AgendaOf
  <2>2. \A m \in 1..n : t[m] = ops[m]
    BY <1>n, AgendaOf
  <2>3. \A m \in DOMAIN t : m > n => m - n + 1 \in DOMAIN agenda[th] /\ m - n + 1 > 1
    BY <1>n, AgendaOf
  <2> QED BY <2>1, <2>2, <2>3
<1>3. \A m \in 1..n : ops[m].do \in MidSteps => m = 1
  BY <1>n DEF Proper
<1> HIDE DEF t
<1>4. CASE k <= n
  BY <1>1, <1>2, <1>3, <1>4
<1>5. CASE k > n
  <2>e. t[k] = agenda[th][k - n + 1]
    BY <1>n, <1>1, <1>5, AgendaMoved DEF t
  <2>2. agenda[th][k - n + 1].do \in MidSteps /\ k - n + 1 \in DOMAIN agenda[th] /\ k - n + 1 > 1
    BY <1>1, <1>2, <1>5, <2>e, Zenon
  <2> QED BY <2>2 DEF Core, MidFirst
<1> QED BY <1>1, <1>2, <1>4, <1>5

\* Sections survive a step that takes or gives back no lock.
LEMMA SectionsSame ==
  ASSUME Core, NEW th \in Threads, NEW op, NEW ops, Does(th, op, ops), Proper(ops, Held(th), C!Op(th)),
         UNCHANGED mutex, op # "lock"
  PROVE  Sections'
<1> DEFINE s == agenda[th]
           t == agenda'[th]
           H == Held(th)
<1>1. /\ s \in Seq(Steps) /\ s # <<>> /\ s[1] = C!Op(th) /\ s[1].do # "lock"
  BY NextStep DEF Does
<1>2. ops \in Seq(Steps) /\ t = ops \o Tail(s) /\ \A ot \in Threads : ot # th => agenda'[ot] = agenda[ot]
  BY Agendas DEF Does
<1>3. \A ot \in Threads : Held(ot)' = Held(ot)
  BY DEF Held
<1>4. InSections(s, H)
  BY DEF Core, Sections
<1>5. \A q : s[1] # C!Lock(q)
  BY <1>1 DEF C!Lock
<1>6. InSections(t, H)
  <2>1. \A k \in 1..Len(ops) : ops[k].do \in NeedsLock => Within(ops, H, k)
    BY DEF Proper
  <2>2. \A q : (q \in H /\ ~Ends(s[1], q)) \/ s[1] = C!Lock(q)
                  => (q \in H /\ NoEnd(ops, 1, Len(ops), q)) \/ Stuck(ops, H, Len(ops))
    BY <1>1, <1>5 DEF Proper
  <2> HIDE DEF s, t, H
  <2> QED BY <1>1, <1>2, <1>4, <2>1, <2>2, SectionsStay
<1>7. ASSUME NEW ot \in Threads PROVE InSections(agenda'[ot], Held(ot)')
  <2>1. CASE ot = th
    BY <1>3, <1>6, <2>1
  <2>2. CASE ot # th
    BY <1>2, <1>3, <2>2 DEF Core, Sections
  <2> QED BY <2>1, <2>2
<1> QED BY <1>7 DEF Sections, InSections

\* Sections begin with a lock,
LEMMA SectionsLock ==
  ASSUME Core, NEW th \in Threads, C!DoLock(th) PROVE Does(th, "lock", <<>>) /\ Sections'
<1> DEFINE s == agenda[th]
           t == agenda'[th]
           H == Held(th)
           q == C!Op(th).queue
<1>0. Does(th, "lock", <<>>)
  BY DEF Does, C!DoLock
<1>1. /\ s \in Seq(Steps) /\ s # <<>> /\ s[1] = C!Op(th) /\ s[1].do = "lock" /\ th # Nobody /\ s[1] \in Steps
  BY <1>0, NextStep DEF Does
<1>2. <<>> \in Seq(Steps) /\ t = <<>> \o Tail(s) /\ \A ot \in Threads : ot # th => agenda'[ot] = agenda[ot]
  BY <1>0, Agendas DEF Does
<1>3. q \in C!Queues /\ s[1] = C!Lock(q)
  BY <1>1, StepKinds
<1>m. mutex[q] = Nobody /\ mutex' = [mutex EXCEPT ![q] = th]
  BY DEF C!DoLock
<1>4. Held(th)' = H \cup {q} /\ (\A ot \in Threads : ot # th => Held(ot)' = Held(ot)) /\ q \notin H
  <2>1. mutex \in [C!Queues -> Threads \cup {Nobody}]
    BY DEF Core, QueueTypes, FieldTypes
  <2> QED BY <1>1, <1>3, <1>m, <2>1, BoundTypes DEF Held
<1>5. InSections(s, H)
  BY DEF Core, Sections
<1>6. InSections(t, H \cup {q})
  <2>1. \A r : ~Ends(s[1], r)
    BY <1>1 DEF Ends
  <2>2. \A r : s[1] = C!Lock(r) => r = q
    BY <1>3 DEF C!Lock
  <2>3. \A r : (r \in H /\ ~Ends(s[1], r)) \/ s[1] = C!Lock(r)
                  => (r \in H \cup {q} /\ NoEnd(<<>>, 1, Len(<<>>), r)) \/ Stuck(<<>>, H \cup {q}, Len(<<>>))
    BY <2>1, <2>2 DEF NoEnd
  <2>4. \A k \in 1..Len(<<>>) : <<>>[k].do \in NeedsLock => Within(<<>>, H \cup {q}, k)
    OBVIOUS
  <2>5. s[1].queue \notin H
    BY <1>1, <1>4
  <2> HIDE DEF s, t, H, q
  <2> QED BY <1>1, <1>2, <1>5, <2>3, <2>4, <2>5, SectionsStay
<1>7. ASSUME NEW ot \in Threads PROVE InSections(agenda'[ot], Held(ot)')
  <2>1. CASE ot = th
    BY <1>4, <1>6, <2>1
  <2>2. CASE ot # th
    BY <1>2, <1>4, <2>2 DEF Core, Sections
  <2> QED BY <2>1, <2>2
<1> QED BY <1>0, <1>7 DEF Sections, InSections

\* and end with an unlock.
LEMMA SectionsUnlock ==
  ASSUME Core, NEW th \in Threads, C!DoUnlock(th) PROVE Does(th, "unlock", <<>>) /\ Sections'
<1> DEFINE s == agenda[th]
           t == agenda'[th]
           H == Held(th)
           q == C!Op(th).queue
<1>0. Does(th, "unlock", <<>>)
  BY DEF Does, C!DoUnlock
<1>1. /\ s \in Seq(Steps) /\ s # <<>> /\ s[1] = C!Op(th) /\ s[1].do = "unlock" /\ th # Nobody /\ s[1] \in Steps
      /\ q \in H
  BY <1>0, NextStep DEF Does, NeedsLock
<1>2. <<>> \in Seq(Steps) /\ t = <<>> \o Tail(s) /\ \A ot \in Threads : ot # th => agenda'[ot] = agenda[ot]
  BY <1>0, Agendas DEF Does
<1>m. mutex' = [mutex EXCEPT ![q] = Nobody]
  BY DEF C!DoUnlock
<1>4. Held(th)' = H \ {q} /\ (\A ot \in Threads : ot # th => Held(ot)' = Held(ot))
  <2>1. mutex \in [C!Queues -> Threads \cup {Nobody}]
    BY DEF Core, QueueTypes, FieldTypes
  <2> QED BY <1>1, <1>m, <2>1, BoundTypes DEF Held
<1>5. InSections(s, H)
  BY DEF Core, Sections
<1>6. InSections(t, H \ {q})
  <2>1. Ends(s[1], q)
    BY <1>1 DEF Ends
  <2>2. \A r : s[1] # C!Lock(r)
    BY <1>1 DEF C!Lock
  <2>3. \A r : (r \in H /\ ~Ends(s[1], r)) \/ s[1] = C!Lock(r)
                  => (r \in H \ {q} /\ NoEnd(<<>>, 1, Len(<<>>), r)) \/ Stuck(<<>>, H \ {q}, Len(<<>>))
    BY <2>1, <2>2 DEF NoEnd
  <2>4. \A k \in 1..Len(<<>>) : <<>>[k].do \in NeedsLock => Within(<<>>, H \ {q}, k)
    OBVIOUS
  <2>5. s[1].do # "lock"
    BY <1>1
  <2> HIDE DEF s, t, H, q
  <2> QED BY <1>1, <1>2, <1>5, <2>3, <2>4, <2>5, SectionsStay
<1>7. ASSUME NEW ot \in Threads PROVE InSections(agenda'[ot], Held(ot)')
  <2>1. CASE ot = th
    BY <1>4, <1>6, <2>1
  <2>2. CASE ot # th
    BY <1>2, <1>4, <2>2 DEF Core, Sections
  <2> QED BY <2>1, <2>2
<1> QED BY <1>0, <1>7 DEF Sections, InSections

\* The first node of a queue whose lock is held, with nobody in the middle of a call.
LEMMA FirstNode ==
  ASSUME Core, NEW S, Chained(S), NEW q \in C!Queues, head[q] # C!Null
  PROVE  /\ S[q] \in Seq(C!Nodes) /\ S[q] # <<>> /\ Len(S[q]) \in Nat \ {0} /\ 1 \in 1..Len(S[q])
         /\ head[q] = S[q][1] /\ head[q] \in C!Nodes
<1>1. S[q] \in Seq(C!Nodes)
  BY DEF Chained, NodesIn
<1>2. S[q] # <<>> /\ head[q] = S[q][1]
  BY DEF Chained, Linked
<1>3. Len(S[q]) \in Nat \ {0} /\ 1 \in 1..Len(S[q]) /\ S[q][1] \in C!Nodes
  BY <1>1, <1>2
<1> QED BY <1>1, <1>2, <1>3

\* The holder of a lock is in the middle of what it does next.
LEMMA AtHead ==
  ASSUME Core, NEW th \in Threads, NEW op, C!IsNext(th, op), op \in NeedsLock
  PROVE  /\ C!Op(th).queue \in C!Queues /\ mutex[C!Op(th).queue] = th
         /\ \A mid : At(C!Op(th).queue, mid) <=> op = mid
<1>1. C!Op(th).queue \in Held(th) /\ C!Op(th).do = op /\ agenda[th] # <<>>
  BY NextStep
<1>2. C!Op(th).queue \in C!Queues /\ mutex[C!Op(th).queue] = th
  BY <1>1 DEF Held
<1>3. \A mid : C!IsNext(th, mid) <=> op = mid
  BY <1>1 DEF C!IsNext, C!Op
<1> QED BY <1>2, <1>3 DEF At

\* Under the lock, at the start of a call, the first node has its value.
LEMMA FirstValue ==
  ASSUME Core, NEW S, Chained(S), NEW th \in Threads, NEW op \in {"take", "peak"}, C!IsNext(th, op),
         head[C!Op(th).queue] # C!Null
  PROVE  value[head[C!Op(th).queue]] \in C!Values
<1> DEFINE q == C!Op(th).queue
<1>1. q \in C!Queues /\ ~At(q, "swap_head") /\ ~At(q, "decide")
  BY AtHead DEF NeedsLock
<1> HIDE DEF q
<1>2. 1 \in 1..Len(S[q]) /\ head[q] = S[q][1] /\ head[q] \in C!Nodes
  BY <1>1, FirstNode DEF q
<1>3. value[head[q]] # C!Moved
  BY <1>1, <1>2 DEF Chained, Valued
<1> QED BY <1>2, <1>3 DEF q, Core, QueueTypes, FieldTypes

\* Each action does a step and puts a proper list of steps in its place: DoLink,
LEMMA ShapeLink ==
  ASSUME Core, NEW th \in Threads, C!DoLink(th)
  PROVE  LET o == C!Op(th) IN
         /\ nodes + 1 \in C!Nodes /\ o.queue \in C!Queues /\ o.value \in C!Values
         /\ Does(th, "link", <<C!MoveTail(o.queue, nodes + 1)>>)
         /\ Proper(<<C!MoveTail(o.queue, nodes + 1)>>, Held(th), o)
<1> DEFINE o == C!Op(th)
<1>1. C!IsNext(th, "link") /\ nodes < NNodes /\ C!Then(th, <<C!MoveTail(o.queue, nodes + 1)>>)
  BY DEF C!DoLink
<1>2. o \in Steps /\ o.do = "link" /\ o.queue \in Held(th)
  BY <1>1, NextStep DEF NeedsLock
<1>3. o.queue \in C!Queues /\ o.value \in C!Values
  BY <1>2, StepKinds
<1>4. nodes + 1 \in C!Nodes
  BY <1>1, BoundTypes DEF C!Nodes, Core, QueueTypes, FieldTypes
<1>5. C!MoveTail(o.queue, nodes + 1) \in Steps
  BY <1>3, <1>4, MakesSteps
<1>6. <<C!MoveTail(o.queue, nodes + 1)>> \in Seq(Steps)
  BY <1>5, Lists
<1> QED BY <1>1, <1>2, <1>3, <1>4, <1>6, ProperLink DEF Does

\* DoTake,
LEMMA ShapeTake ==
  ASSUME Core, NEW S, Chained(S), NEW th \in Threads, C!DoTake(th)
  PROVE  LET o == C!Op(th)
             q == o.queue
             v == value[head[q]] IN
         /\ o \in Steps /\ o.do = "take" /\ q \in C!Queues /\ o = C!Take(q, o.all) /\ q \in Held(th)
         /\ head[q] # C!Null => v \in C!Values
         /\ \E ops :
              /\ Does(th, "take", ops) /\ Proper(ops, Held(th), o)
              /\ head[q] = C!Null => ops = <<C!Unlock(q)>>
              /\ head[q] # C!Null => ops = IF o.all THEN <<C!SwapHead(q, v), C!Run(v), C!Unlock(q), C!Lock(q), C!Take(q, TRUE)>>
                                             ELSE <<C!SwapHead(q, v), C!Run(v), C!Unlock(q)>>
<1> DEFINE o == C!Op(th)
           q == o.queue
           v == value[head[q]]
<1>0. C!IsNext(th, "take")
  BY DEF C!DoTake
<1>1. /\ o \in Steps /\ o.do = "take" /\ q \in Held(th)
  BY <1>0, NextStep DEF NeedsLock
<1>2. q \in C!Queues /\ o = C!Take(q, o.all) /\ o.all \in BOOLEAN /\ Ends(o, q)
  BY <1>1, StepKinds DEF Ends
<1>3. head[q] # C!Null => v \in C!Values
  BY <1>0, FirstValue
<1>4. CASE head[q] = C!Null
  <2>1. C!Then(th, <<C!Unlock(q)>>)
    BY <1>4 DEF C!DoTake
  <2>2. <<C!Unlock(q)>> \in Seq(Steps)
    BY <1>2 DEF Steps
  <2> QED BY <1>0, <1>1, <1>2, <1>4, <2>1, <2>2, ProperUnlock DEF Does
<1>5. CASE head[q] # C!Null /\ o.all
  <2> DEFINE ops == <<C!SwapHead(q, v), C!Run(v), C!Unlock(q), C!Lock(q), C!Take(q, TRUE)>>
  <2>1. C!Then(th, <<C!SwapHead(q, v), C!Run(v), C!Unlock(q)>> \o C!ConsumeAll(q))
    BY <1>5 DEF C!DoTake
  <2>2. <<C!SwapHead(q, v), C!Run(v), C!Unlock(q)>> \o C!ConsumeAll(q) = ops
    BY ConcatFive, Zenon DEF C!ConsumeAll
  <2>3. C!SwapHead(q, v) \in Steps /\ C!Run(v) \in Steps /\ C!Unlock(q) \in Steps /\ C!Lock(q) \in Steps /\ C!Take(q, TRUE) \in Steps
    BY <1>2, <1>3, <1>5, MakesSteps
  <2>4. ops \in Seq(Steps)
    BY <2>3, Lists
  <2>5. Proper(ops, Held(th), o)
    BY <1>1, <1>2, ProperTakeAll
  <2>6. Does(th, "take", ops)
    BY <1>0, <2>1, <2>2, <2>4 DEF Does
  <2> HIDE DEF ops
  <2>7. ops = IF o.all THEN <<C!SwapHead(q, v), C!Run(v), C!Unlock(q), C!Lock(q), C!Take(q, TRUE)>>
                       ELSE <<C!SwapHead(q, v), C!Run(v), C!Unlock(q)>>
    BY <1>5 DEF ops
  <2> QED BY <1>1, <1>2, <1>3, <1>5, <2>5, <2>6, <2>7
<1>6. CASE head[q] # C!Null /\ ~o.all
  <2> DEFINE ops == <<C!SwapHead(q, v), C!Run(v), C!Unlock(q)>>
  <2>1. C!Then(th, <<C!SwapHead(q, v), C!Run(v), C!Unlock(q)>> \o <<>>)
    BY <1>6 DEF C!DoTake
  <2>2. <<C!SwapHead(q, v), C!Run(v), C!Unlock(q)>> \o <<>> = ops
    OBVIOUS
  <2>3. C!SwapHead(q, v) \in Steps /\ C!Run(v) \in Steps /\ C!Unlock(q) \in Steps
    BY <1>2, <1>3, <1>6, MakesSteps
  <2>4. ops \in Seq(Steps)
    BY <2>3, Lists
  <2>5. Proper(ops, Held(th), o)
    BY <1>1, <1>2, ProperTake
  <2>6. Does(th, "take", ops)
    BY <1>0, <2>1, <2>2, <2>4 DEF Does
  <2> HIDE DEF ops
  <2>7. ops = IF o.all THEN <<C!SwapHead(q, v), C!Run(v), C!Unlock(q), C!Lock(q), C!Take(q, TRUE)>>
                       ELSE <<C!SwapHead(q, v), C!Run(v), C!Unlock(q)>>
    BY <1>6 DEF ops
  <2> QED BY <1>1, <1>2, <1>3, <1>6, <2>5, <2>6, <2>7
<1> QED BY <1>4, <1>5, <1>6

\* DoPeak,
LEMMA ShapePeak ==
  ASSUME Core, NEW S, Chained(S), NEW th \in Threads, C!DoPeak(th)
  PROVE  LET o == C!Op(th)
             q == o.queue
             v == value[head[q]] IN
         /\ o \in Steps /\ o.do = "peak" /\ q \in C!Queues /\ q \in Held(th)
         /\ head[q] # C!Null => v \in C!Values
         /\ \E ops :
              /\ Does(th, "peak", ops) /\ Proper(ops, Held(th), o)
              /\ head[q] = C!Null => ops = <<C!Unlock(q)>>
              /\ head[q] # C!Null => ops = <<C!Decide(q, v), C!Unlock(q)>>
<1> DEFINE o == C!Op(th)
           q == o.queue
           v == value[head[q]]
<1>0. C!IsNext(th, "peak")
  BY DEF C!DoPeak
<1>1. /\ o \in Steps /\ o.do = "peak" /\ q \in Held(th)
  BY <1>0, NextStep DEF NeedsLock
<1>2. q \in C!Queues /\ Ends(o, q)
  BY <1>1, StepKinds DEF Ends
<1>3. head[q] # C!Null => v \in C!Values
  BY <1>0, FirstValue
<1>4. CASE head[q] = C!Null
  <2>1. C!Then(th, <<C!Unlock(q)>>)
    BY <1>4 DEF C!DoPeak
  <2>2. <<C!Unlock(q)>> \in Seq(Steps)
    BY <1>2 DEF Steps
  <2> QED BY <1>0, <1>1, <1>2, <1>4, <2>1, <2>2, ProperUnlock DEF Does
<1>5. CASE head[q] # C!Null
  <2> DEFINE ops == <<C!Decide(q, v), C!Unlock(q)>>
  <2>1. C!Then(th, ops)
    BY <1>5 DEF C!DoPeak
  <2>3. C!Decide(q, v) \in Steps /\ C!Unlock(q) \in Steps
    BY <1>2, <1>3, <1>5, MakesSteps
  <2>4. ops \in Seq(Steps)
    BY <2>3, Lists
  <2>5. Proper(ops, Held(th), o)
    BY <1>1, <1>2, ProperPeak
  <2>6. Does(th, "peak", ops)
    BY <1>0, <2>1, <2>4 DEF Does
  <2> QED BY <1>1, <1>2, <1>3, <1>5, <2>5, <2>6
<1> QED BY <1>4, <1>5

\* What values are for.
LEMMA ValueKinds ==
  ASSUME NEW v \in C!Values
  PROVE  /\ v[1] \in {"task", "message", "action", "chain"}
         /\ v[1] = "chain" => v[2] \in C!Events
         /\ <<"task", v[2]>> \in C!Values /\ <<"action", v[2]>> \in C!Values
<1>1. v \in {"task", "message", "action", "chain"} \X (1..NNodes) /\ (v[1] = "chain" => v[2] \in C!Events)
  BY DEF C!Values
<1>2. v[1] \in {"task", "message", "action", "chain"} /\ v[2] \in 1..NNodes
  BY <1>1
<1> QED BY <1>1, <1>2 DEF C!Values

\* The ready queue is a queue.
LEMMA ReadyTypes == C!Ready \in C!Queues
BY BoundTypes DEF C!Ready, C!Queues

\* DoRun,
LEMMA ShapeRun ==
  ASSUME Core, NEW th \in Threads, C!DoRun(th)
  PROVE  LET o == C!Op(th)
             v == o.value IN
         /\ v \in C!Values
         /\ \E ops :
              /\ Does(th, "run", ops) /\ Proper(ops, Held(th), o)
              /\ ops = IF v[1] = "action" THEN <<C!Lock(C!Ready), C!Link(C!Ready, <<"task", v[2]>>), C!Unlock(C!Ready)>>
                       ELSE IF v[1] = "chain" THEN <<C!LockShared(v[2]), C!EmplaceCurrent(v[2], <<"action", v[2]>>)>>
                       ELSE <<>>
<1> DEFINE o == C!Op(th)
           v == o.value
<1>0. C!IsNext(th, "run")
  BY DEF C!DoRun
<1>1. /\ o \in Steps /\ o.do = "run"
  BY <1>0, NextStep
<1>2. v \in C!Values
  BY <1>1, StepKinds
<1>3. <<"task", v[2]>> \in C!Values /\ <<"action", v[2]>> \in C!Values /\ (v[1] = "chain" => v[2] \in C!Events)
  BY <1>2, ValueKinds
<1>4. CASE v[1] = "action"
  <2> DEFINE ops == <<C!Lock(C!Ready), C!Link(C!Ready, <<"task", v[2]>>), C!Unlock(C!Ready)>>
  <2>1. C!Then(th, ops)
    BY <1>4 DEF C!DoRun, C!Emplace
  <2>3. C!Lock(C!Ready) \in Steps /\ C!Link(C!Ready, <<"task", v[2]>>) \in Steps /\ C!Unlock(C!Ready) \in Steps
    BY <1>3, ReadyTypes, MakesSteps
  <2>4. ops \in Seq(Steps)
    BY <2>3, Lists
  <2>5. Proper(ops, Held(th), o)
    <3>1. Len(ops) = 3 /\ ops[1] = C!Lock(C!Ready) /\ ops[2] = C!Link(C!Ready, <<"task", v[2]>>) /\ ops[3] = C!Unlock(C!Ready)
      OBVIOUS
    <3> HIDE DEF ops
    <3> QED BY <3>1, ProperEmplace
  <2>6. Does(th, "run", ops)
    BY <1>0, <2>1, <2>4 DEF Does
  <2> QED BY <1>2, <1>4, <2>5, <2>6
<1>5. CASE v[1] = "chain"
  <2> DEFINE ops == <<C!LockShared(v[2]), C!EmplaceCurrent(v[2], <<"action", v[2]>>)>>
  <2>1. C!Then(th, ops)
    BY <1>5 DEF C!DoRun, C!Attach
  <2>3. C!LockShared(v[2]) \in Steps /\ C!EmplaceCurrent(v[2], <<"action", v[2]>>) \in Steps
    BY <1>3, <1>5, MakesSteps
  <2>4. ops \in Seq(Steps)
    BY <2>3, Lists
  <2>5. Proper(ops, Held(th), o)
    BY ProperAttach DEF C!Attach
  <2>6. Does(th, "run", ops)
    BY <1>0, <2>1, <2>4 DEF Does
  <2> QED BY <1>2, <1>5, <2>5, <2>6
<1>6. CASE v[1] # "action" /\ v[1] # "chain"
  <2>1. C!Then(th, <<>>)
    BY <1>6 DEF C!DoRun
  <2>2. <<>> \in Seq(Steps)
    OBVIOUS
  <2> QED BY <1>0, <1>2, <1>6, <2>1, <2>2, ProperNone DEF Does
<1> QED BY <1>4, <1>5, <1>6

\* DoEmplaceCurrent,
LEMMA ShapeEmplaceCurrent ==
  ASSUME Core, NEW th \in Threads, C!DoEmplaceCurrent(th)
  PROVE  LET o == C!Op(th)
             p == pointer[o.event]
             ops == <<C!Lock(p), C!Link(p, o.value), C!Unlock(p), C!Release(o.event)>> IN
         /\ o.event \in C!Events /\ o.value \in C!Values /\ p \in C!Queues
         /\ Does(th, "emplace_current", ops) /\ Proper(ops, Held(th), o)
<1> DEFINE o == C!Op(th)
           p == pointer[o.event]
           ops == <<C!Lock(p), C!Link(p, o.value), C!Unlock(p), C!Release(o.event)>>
<1>0. C!IsNext(th, "emplace_current")
  BY DEF C!DoEmplaceCurrent
<1>1. /\ o \in Steps /\ o.do = "emplace_current"
  BY <1>0, NextStep
<1>2. o.event \in C!Events /\ o.value \in C!Values
  BY <1>1, StepKinds
<1>3. p \in C!Queues
  BY <1>2 DEF Core, PointerTypes
<1>4. C!Then(th, C!AttachTo(o.event, p, o.value))
  BY DEF C!DoEmplaceCurrent
<1>5. C!AttachTo(o.event, p, o.value) = ops
  BY Concats, Zenon DEF C!AttachTo, C!Emplace
<1>6. C!Lock(p) \in Steps /\ C!Link(p, o.value) \in Steps /\ C!Unlock(p) \in Steps /\ C!Release(o.event) \in Steps
  BY <1>2, <1>3, MakesSteps
<1>7. ops \in Seq(Steps)
  BY <1>6, Lists
<1>8. Proper(ops, Held(th), o)
  <2>1. Len(ops) = 4 /\ ops[1] = C!Lock(p) /\ ops[2] = C!Link(p, o.value) /\ ops[3] = C!Unlock(p) /\ ops[4] = C!Release(o.event)
    OBVIOUS
  <2> HIDE DEF ops
  <2> QED BY <2>1, ProperEmplace
<1>9. Does(th, "emplace_current", ops)
  BY <1>0, <1>4, <1>5, <1>7 DEF Does
<1> QED BY <1>2, <1>3, <1>8, <1>9

\* DoExchange,
LEMMA ShapeExchange ==
  ASSUME Core, NEW th \in Threads, C!DoExchange(th)
  PROVE  LET o == C!Op(th)
             p == pointer[o.event]
             ops == <<C!Release(o.event), C!Lock(p), C!Take(p, TRUE), C!Destroy(p)>> IN
         /\ o.event \in C!Events /\ p \in C!Queues /\ queues + 1 \in C!Queues
         /\ Does(th, "exchange", ops) /\ Proper(ops, Held(th), o)
<1> DEFINE o == C!Op(th)
           p == pointer[o.event]
           ops == <<C!Release(o.event), C!Lock(p), C!Take(p, TRUE), C!Destroy(p)>>
<1>0. C!IsNext(th, "exchange") /\ queues < NQueues
  BY DEF C!DoExchange
<1>1. /\ o \in Steps /\ o.do = "exchange"
  BY <1>0, NextStep
<1>2. o.event \in C!Events
  BY <1>1, StepKinds
<1>3. p \in C!Queues /\ queues + 1 \in C!Queues
  BY <1>0, <1>2, BoundTypes DEF Core, PointerTypes, C!Queues
<1>4. C!Then(th, <<C!Release(o.event)>> \o C!ConsumeAll(p) \o <<C!Destroy(p)>>)
  BY DEF C!DoExchange
<1>5. <<C!Release(o.event)>> \o C!ConsumeAll(p) \o <<C!Destroy(p)>> = ops
  BY Concats, Zenon DEF C!ConsumeAll
<1>6. C!Lock(p) \in Steps /\ C!Take(p, TRUE) \in Steps /\ C!Destroy(p) \in Steps /\ C!Release(o.event) \in Steps
  BY <1>2, <1>3, MakesSteps
<1>7. ops \in Seq(Steps)
  BY <1>6, Lists
<1>8. Proper(ops, Held(th), o)
  BY ProperExchange
<1>9. Does(th, "exchange", ops)
  BY <1>0, <1>4, <1>5, <1>7 DEF Does
<1> QED BY <1>2, <1>3, <1>8, <1>9

\* and the actions that put nothing in its place.
LEMMA ShapePlain ==
  ASSUME Core, NEW th \in Threads
  PROVE  /\ C!DoMoveTail(th) => Does(th, "move_tail", <<>>)
         /\ C!DoSwapHead(th) => Does(th, "swap_head", <<>>)
         /\ C!DoDecide(th) => Does(th, "decide", <<>>)
         /\ C!DoLockShared(th) => Does(th, "lock_shared", <<>>)
         /\ C!DoLockUnique(th) => Does(th, "lock_unique", <<>>)
         /\ C!DoRelease(th) => Does(th, "release", <<>>)
         /\ C!DoDestroy(th) => Does(th, "destroy", <<>>)
         /\ Proper(<<>>, Held(th), C!Op(th))
<1>1. <<>> \in Seq(Steps)
  OBVIOUS
<1> QED BY <1>1, ProperNone DEF Does, C!DoMoveTail, C!DoSwapHead, C!DoDecide, C!DoLockShared, C!DoLockUnique,
           C!DoRelease, C!DoDestroy

\* What is left to show of an action: that it keeps types.
LEMMA CoreStays ==
  ASSUME Core, NEW th \in Threads, NEW op, NEW ops, Does(th, op, ops), Proper(ops, Held(th), C!Op(th)),
         UNCHANGED mutex, op # "lock", FieldTypes', PointerTypes'
  PROVE  Core'
<1>1. QueueTypes'
  BY Agendas DEF QueueTypes
<1> QED BY <1>1, MidStays, SectionsSame DEF Core

\* Every action keeps types and sections.
LEMMA CoreKept == ASSUME Core, NEW S, Chained(S), NEW th \in Threads, C!Step(th) PROVE Core'
<1>t. FieldTypes /\ PointerTypes /\ C!Null \notin C!Nodes
  BY DEF Core, QueueTypes, C!Null, C!Nodes
<1>1. CASE C!DoLock(th)
  <2>1. Does(th, "lock", <<>>) /\ Sections'
    BY <1>1, SectionsLock
  <2>2. MidFirst'
    BY <2>1, MidStays, ShapePlain
  <2>3. FieldTypes' /\ PointerTypes'
    BY <1>1, <1>t DEF C!DoLock, FieldTypes, PointerTypes, C!queueVars, C!pointerVars
  <2> QED BY <2>1, <2>2, <2>3, Agendas DEF Core, QueueTypes
<1>2. CASE C!DoUnlock(th)
  <2>1. Does(th, "unlock", <<>>) /\ Sections'
    BY <1>2, SectionsUnlock
  <2>2. MidFirst'
    BY <2>1, MidStays, ShapePlain
  <2>3. FieldTypes' /\ PointerTypes'
    BY <1>2, <1>t DEF C!DoUnlock, FieldTypes, PointerTypes, C!queueVars, C!pointerVars
  <2> QED BY <2>1, <2>2, <2>3, Agendas DEF Core, QueueTypes
<1>3. CASE C!DoLink(th)
  <2> DEFINE q == C!Op(th).queue
             n == nodes + 1
  <2>1. n \in C!Nodes /\ q \in C!Queues /\ C!Op(th).value \in C!Values
        /\ Does(th, "link", <<C!MoveTail(q, n)>>) /\ Proper(<<C!MoveTail(q, n)>>, Held(th), C!Op(th))
    BY <1>3, ShapeLink
  <2>2. PointerTypes'
    BY <1>3, <1>t DEF C!DoLink, PointerTypes, C!pointerVars
  <2>3. nodes' \in 0..NNodes
    BY <1>3, <2>1, BoundTypes DEF C!DoLink, C!Nodes
  <2>4. head' \in [C!Queues -> C!Nodes \cup {C!Null}] /\ next' \in [C!Nodes -> C!Nodes \cup {C!Null}]
    BY <1>3, <1>t, <2>1 DEF C!DoLink, FieldTypes
  <2>5. value' \in [C!Nodes -> C!Values \cup {C!Moved}]
    BY <1>3, <1>t, <2>1 DEF C!DoLink, FieldTypes
  <2>6. FieldTypes' /\ UNCHANGED mutex
    BY <1>3, <1>t, <2>3, <2>4, <2>5 DEF C!DoLink, FieldTypes
  <2> QED BY <2>1, <2>2, <2>6, CoreStays
<1>4. CASE C!DoMoveTail(th)
  <2>1. Does(th, "move_tail", <<>>) /\ Proper(<<>>, Held(th), C!Op(th))
    BY <1>4, ShapePlain
  <2>2. C!Op(th).node \in C!Nodes
    BY <2>1, NextStep, StepKinds DEF Does
  <2>3. FieldTypes' /\ PointerTypes' /\ UNCHANGED mutex
    BY <1>4, <1>t, <2>2 DEF C!DoMoveTail, FieldTypes, PointerTypes, C!pointerVars
  <2> QED BY <2>1, <2>3, CoreStays
<1>5. CASE C!DoTake(th)
  <2>1. PICK ops : Does(th, "take", ops) /\ Proper(ops, Held(th), C!Op(th))
    BY <1>5, ShapeTake
  <2>2. PointerTypes' /\ UNCHANGED mutex
    BY <1>5, <1>t DEF C!DoTake, PointerTypes, C!pointerVars
  <2>3. FieldTypes'
    BY <1>5, <1>t DEF C!DoTake, FieldTypes, C!pointerVars
  <2> QED BY <2>1, <2>2, <2>3, CoreStays
<1>6. CASE C!DoSwapHead(th)
  <2>1. Does(th, "swap_head", <<>>) /\ Proper(<<>>, Held(th), C!Op(th))
    BY <1>6, ShapePlain
  <2>2. C!Op(th).queue \in C!Queues /\ head[C!Op(th).queue] \in C!Nodes
    <3>1. C!Op(th).queue \in C!Queues /\ At(C!Op(th).queue, "swap_head")
      BY <2>1, AtHead DEF Does, NeedsLock
    <3>2. S[C!Op(th).queue] # <<>>
      BY <3>1 DEF Chained, Tails
    <3>3. head[C!Op(th).queue] = S[C!Op(th).queue][1] /\ S[C!Op(th).queue] \in Seq(C!Nodes)
      BY <3>1, <3>2 DEF Chained, Linked, NodesIn
    <3> QED BY <3>1, <3>2, <3>3
  <2>3. FieldTypes' /\ PointerTypes' /\ UNCHANGED mutex
    BY <1>6, <1>t, <2>2 DEF C!DoSwapHead, FieldTypes, PointerTypes, C!pointerVars
  <2> QED BY <2>1, <2>3, CoreStays
<1>7. CASE C!DoRun(th)
  <2>1. PICK ops : Does(th, "run", ops) /\ Proper(ops, Held(th), C!Op(th))
    BY <1>7, ShapeRun
  <2>2. PointerTypes' /\ FieldTypes' /\ UNCHANGED mutex
    BY <1>7, <1>t DEF C!DoRun, FieldTypes, PointerTypes, C!queueVars, C!pointerVars
  <2> QED BY <2>1, <2>2, CoreStays
<1>8. CASE C!DoPeak(th)
  <2>1. PICK ops : Does(th, "peak", ops) /\ Proper(ops, Held(th), C!Op(th))
    BY <1>8, ShapePeak
  <2>2. PointerTypes' /\ UNCHANGED mutex
    BY <1>8, <1>t DEF C!DoPeak, PointerTypes, C!pointerVars
  <2>3. FieldTypes'
    BY <1>8, <1>t DEF C!DoPeak, FieldTypes
  <2> QED BY <2>1, <2>2, <2>3, CoreStays
<1>9. CASE C!DoDecide(th)
  <2>1. Does(th, "decide", <<>>) /\ Proper(<<>>, Held(th), C!Op(th))
    BY <1>9, ShapePlain
  <2>2. C!Op(th).queue \in C!Queues /\ head[C!Op(th).queue] \in C!Nodes /\ C!Op(th).value \in C!Values
    <3>1. C!Op(th).queue \in C!Queues /\ At(C!Op(th).queue, "decide")
      BY <2>1, AtHead DEF Does, NeedsLock
    <3>2. S[C!Op(th).queue] # <<>>
      BY <3>1 DEF Chained, Tails
    <3>3. head[C!Op(th).queue] = S[C!Op(th).queue][1] /\ S[C!Op(th).queue] \in Seq(C!Nodes)
      BY <3>1, <3>2 DEF Chained, Linked, NodesIn
    <3>4. C!Op(th).value \in C!Values
      BY <2>1, NextStep, StepKinds DEF Does
    <3> QED BY <3>1, <3>2, <3>3, <3>4
  <2>3. head' \in [C!Queues -> C!Nodes \cup {C!Null}] /\ next' \in [C!Nodes -> C!Nodes \cup {C!Null}]
        /\ tail' \in [C!Queues -> C!Nodes \cup {C!Null}]
    BY <1>9, <1>t, <2>2 DEF C!DoDecide, FieldTypes
  <2>4. value' \in [C!Nodes -> C!Values \cup {C!Moved}]
    BY <1>9, <1>t, <2>2 DEF C!DoDecide, FieldTypes
  <2>5. FieldTypes' /\ PointerTypes' /\ UNCHANGED mutex
    BY <1>9, <1>t, <2>3, <2>4 DEF C!DoDecide, FieldTypes, PointerTypes, C!pointerVars
  <2> QED BY <2>1, <2>5, CoreStays
<1>10. CASE C!DoLockShared(th)
  <2>1. Does(th, "lock_shared", <<>>) /\ Proper(<<>>, Held(th), C!Op(th))
    BY <1>10, ShapePlain
  <2>2. PointerTypes' /\ FieldTypes' /\ UNCHANGED mutex
    BY <1>10, <1>t DEF C!DoLockShared, FieldTypes, PointerTypes, C!queueVars
  <2> QED BY <2>1, <2>2, CoreStays
<1>11. CASE C!DoEmplaceCurrent(th)
  <2>1. PICK ops : Does(th, "emplace_current", ops) /\ Proper(ops, Held(th), C!Op(th))
    BY <1>11, ShapeEmplaceCurrent
  <2>2. PointerTypes' /\ FieldTypes' /\ UNCHANGED mutex
    BY <1>11, <1>t DEF C!DoEmplaceCurrent, FieldTypes, PointerTypes, C!queueVars, C!pointerVars
  <2> QED BY <2>1, <2>2, CoreStays
<1>12. CASE C!DoLockUnique(th)
  <2>1. Does(th, "lock_unique", <<>>) /\ Proper(<<>>, Held(th), C!Op(th))
    BY <1>12, ShapePlain
  <2>2. PointerTypes' /\ FieldTypes' /\ UNCHANGED mutex
    BY <1>12, <1>t DEF C!DoLockUnique, FieldTypes, PointerTypes, C!queueVars
  <2> QED BY <2>1, <2>2, CoreStays
<1>13. CASE C!DoExchange(th)
  <2>1. queues + 1 \in C!Queues
    BY <1>13, ShapeExchange
  <2>2. PICK ops : Does(th, "exchange", ops) /\ Proper(ops, Held(th), C!Op(th))
    BY <1>13, ShapeExchange
  <2>3. pointer' \in [C!Events -> C!Queues] /\ queues' \in 1..NQueues
    BY <1>13, <1>t, <2>1 DEF C!DoExchange, PointerTypes, C!Queues
  <2>4. PointerTypes' /\ FieldTypes' /\ UNCHANGED mutex
    BY <1>13, <1>t, <2>3 DEF C!DoExchange, FieldTypes, PointerTypes, C!queueVars
  <2> QED BY <2>2, <2>4, CoreStays
<1>14. CASE C!DoRelease(th)
  <2>1. Does(th, "release", <<>>) /\ Proper(<<>>, Held(th), C!Op(th))
    BY <1>14, ShapePlain
  <2>2. PointerTypes' /\ FieldTypes' /\ UNCHANGED mutex
    BY <1>14, <1>t DEF C!DoRelease, FieldTypes, PointerTypes, C!queueVars
  <2> QED BY <2>1, <2>2, CoreStays
<1>15. CASE C!DoDestroy(th)
  <2>1. Does(th, "destroy", <<>>) /\ Proper(<<>>, Held(th), C!Op(th))
    BY <1>15, ShapePlain
  <2>2. C!Op(th).queue \in C!Queues
    BY <2>1, NextStep, StepKinds DEF Does
  <2>3. PointerTypes' /\ FieldTypes' /\ UNCHANGED mutex
    BY <1>15, <1>t, <2>2 DEF C!DoDestroy, FieldTypes, PointerTypes, C!queueVars, C!pointerVars
  <2> QED BY <2>1, <2>3, CoreStays
<1> QED BY <1>1, <1>2, <1>3, <1>4, <1>5, <1>6, <1>7, <1>8, <1>9, <1>10, <1>11, <1>12, <1>13, <1>14, <1>15 DEF C!Step

\* What the holders of locks are in the middle of after an action.
LEMMA AtAfter ==
  ASSUME Core, NEW th \in Threads, NEW op, NEW ops, Does(th, op, ops), UNCHANGED mutex,
         NEW q \in C!Queues, NEW mid \in MidSteps
  PROVE  /\ mutex[q] # th => /\ At(q, mid)' <=> At(q, mid)
                             /\ At(q, mid) => C!Op(mutex[q])' = C!Op(mutex[q])
         /\ mutex[q] = th => /\ At(q, mid)' <=> ops # <<>> /\ ops[1].do = mid /\ ops[1].queue = q
                             /\ At(q, mid)' => C!Op(mutex[q])' = ops[1]
                             /\ At(q, mid) => op = mid /\ q = C!Op(th).queue
<1>1. CASE mutex[q] # th
  <2>1. mutex[q] \in Threads => agenda'[mutex[q]] = agenda[mutex[q]]
    BY <1>1, Agendas
  <2> QED BY <1>1, <2>1 DEF At, C!IsNext, C!Op
<1>2. CASE mutex[q] = th
  <2> DEFINE s == agenda[th]
             t == agenda'[th]
             n == Len(ops)
  <2>1. /\ n \in Nat /\ Len(s) \in Nat \ {0} /\ Len(t) = n + Len(s) - 1
        /\ DOMAIN s = 1..Len(s) /\ DOMAIN t = 1..Len(t)
        /\ \A k \in 1..n : t[k] = ops[k]
        /\ \A k \in (n + 1)..Len(t) : t[k] = s[k - n + 1]
        /\ \A k \in DOMAIN t : k > n => k - n + 1 \in DOMAIN s /\ k - n + 1 > 1
    BY AgendaOf
  <2>2. t \in Seq(Steps) /\ ops \in Seq(Steps)
    BY Agendas DEF Does
  <2>3. At(q, mid)' <=> t # <<>> /\ t[1].do = mid /\ t[1].queue = q
    <3>1. t # <<>> => Head(t) = t[1]
      BY <2>2
    <3> QED BY <1>2, <3>1 DEF At, C!IsNext, C!Op
  <2>6. At(q, mid) => op = mid /\ q = C!Op(th).queue
    BY <1>2 DEF At, C!IsNext, Does
  <2>4. CASE ops = <<>>
    <3>1. SUFFICES ASSUME t # <<>>, t[1].do \in MidSteps PROVE FALSE
      BY <1>2, <2>3, <2>4, <2>6
    <3>2. n = 0 /\ 1 \in DOMAIN t
      BY <2>2, <2>4, <3>1
    <3>3. t[1] = s[2] /\ 2 \in DOMAIN s
      <4>1. 1 \in (n + 1)..Len(t) /\ 1 - n + 1 = 2 /\ 1 > n
        BY <2>1, <3>2
      <4> QED BY <2>1, <3>2, <4>1
    <3> QED BY <3>1, <3>3 DEF Core, MidFirst
  <2>5. CASE ops # <<>>
    <3>1. n >= 1 /\ 1 \in 1..n
      BY <2>2, <2>5
    <3>2. t[1] = ops[1] /\ t # <<>>
      <4>1. t[1] = ops[1]
        BY <2>1, <3>1
      <4>2. Len(t) # 0
        BY <2>1, <3>1
      <4> QED BY <2>2, <4>1, <4>2
    <3>3. C!Op(mutex[q])' = t[1]
      BY <1>2, <2>2, <3>2 DEF C!Op
    <3> QED BY <1>2, <2>3, <2>5, <2>6, <3>2, <3>3
  <2> QED BY <2>4, <2>5
<1> QED BY <1>1, <1>2

\* What is in a queue, in order: the values of its nodes, and what is in hand of the first.
InQueue(S, q) ==
  [i \in 1..Len(S[q]) |-> IF value[S[q][i]] = C!Moved THEN C!Op(mutex[q]).value ELSE value[S[q][i]]]

\* A step in which nobody is in the middle of anything before or after.
Calm == \A q \in C!Queues, mid \in MidSteps :
          /\ At(q, mid)' <=> At(q, mid)
          /\ At(q, mid) => C!Op(mutex[q])' = C!Op(mutex[q])

\* An action that begins and ends no call in its middle is calm,
LEMMA CalmStep ==
  ASSUME Core, NEW th \in Threads, NEW op, NEW ops, Does(th, op, ops), UNCHANGED mutex,
         op \notin MidSteps, ops = <<>> \/ ops[1].do \notin MidSteps
  PROVE  Calm
<1> SUFFICES ASSUME NEW q \in C!Queues, NEW mid \in MidSteps
             PROVE  /\ At(q, mid)' <=> At(q, mid)
                    /\ At(q, mid) => C!Op(mutex[q])' = C!Op(mutex[q])
  BY DEF Calm
<1>1. CASE mutex[q] = th
  BY <1>1, AtAfter
<1>2. CASE mutex[q] # th
  BY <1>2, AtAfter
<1> QED BY <1>1, <1>2

\* and so are lock and unlock.
LEMMA CalmLock ==
  ASSUME Core, NEW th \in Threads, C!DoLock(th) \/ C!DoUnlock(th) PROVE Calm
<1> DEFINE o == C!Op(th)
           r == o.queue
<1>1. PICK op \in {"lock", "unlock"} : Does(th, op, <<>>)
  BY SectionsLock, SectionsUnlock
<1>2. C!IsNext(th, op) /\ Core'
  <2>1. FieldTypes /\ PointerTypes
    BY DEF Core, QueueTypes
  <2>2. FieldTypes' /\ PointerTypes'
    BY <2>1 DEF C!DoLock, C!DoUnlock, FieldTypes, PointerTypes, C!queueVars, C!pointerVars
  <2>3. MidFirst'
    BY <1>1, MidStays, ShapePlain
  <2> QED BY <1>1, <2>2, <2>3, SectionsLock, SectionsUnlock, Agendas DEF Core, QueueTypes, Does
<1>3. o \in Steps /\ o.do = op /\ agenda[th] # <<>> /\ th # Nobody
  BY <1>2, NextStep
<1>4. r \in C!Queues
  BY <1>3, StepKinds
<1>5. mutex' = [mutex EXCEPT ![r] = Nobody] \/ (mutex[r] = Nobody /\ mutex' = [mutex EXCEPT ![r] = th])
  BY DEF C!DoLock, C!DoUnlock
<1>6. \A q \in C!Queues, mid \in MidSteps : mutex'[q] = th => ~At(q, mid)'
  <2> SUFFICES ASSUME NEW q \in C!Queues, NEW mid \in MidSteps, mutex'[q] = th, At(q, mid)' PROVE FALSE
    OBVIOUS
  <2> DEFINE s == agenda[th]
             t == agenda'[th]
  <2>1. s \in Seq(Steps) /\ s # <<>> /\ t = Tail(s)
    <3>1. s \in Seq(Steps) /\ s # <<>>
      BY <1>1, NextStep DEF Does
    <3>2. t = <<>> \o Tail(s)
      BY <1>1, Agendas DEF Does
    <3> HIDE DEF s, t
    <3>3. Tail(s) \in Seq(Steps)
      BY <3>1
    <3> QED BY <3>1, <3>2, <3>3
  <2>2. t \in Seq(Steps)
    BY <1>1, Agendas
  <2>3. t # <<>> /\ t[1].do = mid
    <3>1. t # <<>> /\ Head(t).do = mid
      BY DEF At, C!IsNext
    <3> QED BY <2>2, <3>1
  <2>4. t[1] = s[2] /\ 2 \in DOMAIN s
    <3> HIDE DEF s, t
    <3>1. Len(s) \in Nat /\ Len(s) >= 2
      BY <2>1, <2>3
    <3> QED BY <2>1, <3>1
  <2> QED BY <2>3, <2>4 DEF Core, MidFirst
<1>7. \A q \in C!Queues, mid \in MidSteps : mutex[q] = th => ~At(q, mid)
  BY <1>2, <1>3 DEF At, C!IsNext, MidSteps
<1>8. \A q \in C!Queues : mutex[q] # th /\ mutex'[q] # th => mutex'[q] = mutex[q] \/ (mutex[q] \notin Threads /\ mutex'[q] \notin Threads)
  BY <1>4, <1>5, AtHead, <1>2, BoundTypes DEF Core, QueueTypes, FieldTypes, C!DoLock, C!DoUnlock, NeedsLock
<1>9. \A ot \in Threads : ot # th => agenda'[ot] = agenda[ot]
  BY <1>1, Agendas
<1>10. ASSUME NEW q \in C!Queues, NEW mid \in MidSteps
       PROVE  /\ At(q, mid)' <=> At(q, mid)
              /\ At(q, mid) => C!Op(mutex[q])' = C!Op(mutex[q])
  <2>1. CASE mutex[q] = th \/ mutex'[q] = th
    <3>1. ~At(q, mid)
      <4>1. CASE mutex[q] = th
        BY <1>7, <4>1
      <4>2. CASE mutex[q] # th
        <5>1. mutex[q] = Nobody
          BY <1>3, <1>4, <1>5, <2>1, <4>2 DEF Core, QueueTypes, FieldTypes
        <5> QED BY <5>1, BoundTypes DEF At
      <4> QED BY <4>1, <4>2
    <3>2. ~At(q, mid)'
      <4>1. CASE mutex'[q] = th
        BY <1>6, <4>1
      <4>2. CASE mutex'[q] # th
        <5>1. mutex'[q] = Nobody
          BY <1>3, <1>4, <1>5, <2>1, <4>2 DEF Core, QueueTypes, FieldTypes
        <5> QED BY <5>1, BoundTypes DEF At
      <4> QED BY <4>1, <4>2
    <3> QED BY <3>1, <3>2
  <2>2. CASE mutex[q] # th /\ mutex'[q] # th
    BY <1>8, <1>9, <2>2 DEF At, C!IsNext, C!Op
  <2> QED BY <2>1, <2>2
<1> QED BY <1>10 DEF Calm

\* What a calm step leaves alone.
LEMMA CalmKeeps ==
  ASSUME Core, NEW S, Chained(S), Calm, UNCHANGED C!queueVars
  PROVE  Chained(S)' /\ \A q \in C!Queues : InQueue(S, q)' = InQueue(S, q)
<1>1. \A q \in C!Queues : /\ At(q, "move_tail")' <=> At(q, "move_tail")
                          /\ At(q, "swap_head")' <=> At(q, "swap_head")
                          /\ At(q, "decide")' <=> At(q, "decide")
                          /\ At(q, "move_tail") => C!Op(mutex[q])' = C!Op(mutex[q])
                          /\ At(q, "swap_head") => C!Op(mutex[q])' = C!Op(mutex[q])
                          /\ At(q, "decide") => C!Op(mutex[q])' = C!Op(mutex[q])
  BY DEF Calm, MidSteps
<1>2. NodesIn(S)' /\ Linked(S)'
  BY DEF Chained, NodesIn, Linked, C!queueVars
<1>3. Tails(S)'
  BY <1>1 DEF Chained, Tails, C!queueVars
<1>4. Valued(S)'
  BY <1>1 DEF Chained, Valued, C!queueVars
<1>5. ASSUME NEW q \in C!Queues PROVE InQueue(S, q)' = InQueue(S, q)
  <2>1. \A i \in 1..Len(S[q]) : value[S[q][i]] = C!Moved => C!Op(mutex[q])' = C!Op(mutex[q])
    BY <1>1 DEF Chained, Valued
  <2> QED BY <2>1 DEF InQueue, C!queueVars
<1> QED BY <1>2, <1>3, <1>4, <1>5 DEF Chained

\* The lists are of nodes that were made, and no longer than these are many.
LEMMA ListFacts ==
  ASSUME Core, NEW S, Chained(S), NEW q \in C!Queues
  PROVE  /\ S[q] \in Seq(C!Nodes) /\ Len(S[q]) \in Nat /\ DOMAIN S[q] = 1..Len(S[q])
         /\ \A i \in 1..Len(S[q]) : S[q][i] \in C!Nodes /\ S[q][i] <= nodes /\ i <= S[q][i]
         /\ Len(S[q]) <= nodes /\ Len(S[q]) <= NNodes
         /\ S[q] # <<>> <=> Len(S[q]) >= 1
         /\ head[q] = C!Null <=> S[q] = <<>>
         /\ nodes \in Nat /\ nodes <= NNodes
<1>1. S[q] \in Seq(C!Nodes)
  BY DEF Chained, NodesIn
<1>2. Len(S[q]) \in Nat /\ DOMAIN S[q] = 1..Len(S[q]) /\ (S[q] # <<>> <=> Len(S[q]) >= 1)
  BY <1>1
<1>3. \A i \in 1..Len(S[q]) : S[q][i] \in C!Nodes /\ S[q][i] <= nodes /\ i <= S[q][i]
  BY <1>1 DEF Chained, NodesIn
<1>4. nodes \in Nat /\ nodes <= NNodes
  BY BoundTypes DEF Core, QueueTypes, FieldTypes
<1>5. Len(S[q]) <= nodes
  <2>1. CASE Len(S[q]) = 0
    BY <1>4, <2>1
  <2>2. CASE Len(S[q]) # 0
    <3>1. Len(S[q]) \in 1..Len(S[q])
      BY <1>2, <2>2
    <3>2. S[q][Len(S[q])] \in Nat /\ S[q][Len(S[q])] <= nodes /\ Len(S[q]) <= S[q][Len(S[q])]
      BY <1>3, <3>1 DEF C!Nodes
    <3> QED BY <1>2, <1>4, <3>2
  <2> QED BY <2>1, <2>2
<1>6. head[q] = C!Null <=> S[q] = <<>>
  <2>1. S[q] # <<>> => S[q][1] \in C!Nodes
    BY <1>2, <1>3
  <2> QED BY <2>1 DEF Chained, Linked, C!Null, C!Nodes
<1>7. Len(S[q]) <= NNodes
  BY <1>2, <1>4, <1>5, BoundTypes
<1> QED BY <1>1, <1>2, <1>3, <1>4, <1>5, <1>6, <1>7

\* The chain from head is the list of nodes, and the contents are their values.
LEMMA ChainedContents ==
  \A S : Core /\ Chained(S) => \A q \in C!Queues : C!Chain(head[q]) = S[q] /\ C!Contents(q) = InQueue(S, q)
<1> SUFFICES ASSUME NEW S, Core, Chained(S), NEW q \in C!Queues
             PROVE  C!Chain(head[q]) = S[q] /\ C!Contents(q) = InQueue(S, q)
  OBVIOUS
<1>1. S[q] \in Seq(C!Nodes) /\ Len(S[q]) <= NNodes
  BY ListFacts
<1>2. LeadsThrough(S[q]) /\ head[q] = FirstOf(S[q])
  BY DEF Chained, Linked, LeadsThrough, FirstOf
<1>3. C!Chain(head[q]) = S[q]
  BY <1>1, <1>2, ChainIs
<1>4. DOMAIN S[q] = 1..Len(S[q])
  BY ListFacts
<1>5. ASSUME NEW i \in 1..Len(S[q])
      PROVE  C!ValueIn(q, S[q][i]) = IF value[S[q][i]] = C!Moved THEN C!Op(mutex[q]).value ELSE value[S[q][i]]
  <2>1. CASE value[S[q][i]] = C!Moved
    <3>1. At(q, "swap_head") \/ At(q, "decide")
      BY <2>1 DEF Chained, Valued
    <3> QED BY <2>1, <3>1, BoundTypes DEF C!ValueIn, At
  <2>2. CASE value[S[q][i]] # C!Moved
    BY <2>2 DEF C!ValueIn
  <2> QED BY <2>1, <2>2
<1>6. C!Contents(q) = [i \in 1..Len(S[q]) |-> C!ValueIn(q, S[q][i])]
  BY <1>3, <1>4 DEF C!Contents
<1>7. C!Contents(q) = InQueue(S, q)
  BY <1>5, <1>6 DEF InQueue
<1> QED BY <1>3, <1>7

\* Under the lock, between calls, tail_ is the last node.
LEMMA ChainedTails ==
  ASSUME Core, NEW S, Chained(S)
  PROVE  C!TailIsLast
<1> SUFFICES ASSUME NEW q \in C!Queues, mutex[q] = Nobody
             PROVE  LET chain == C!Chain(head[q]) IN
                    /\ tail[q] = IF chain = <<>> THEN C!Null ELSE C!Last(chain)
                    /\ tail[q] # C!Null => next[tail[q]] = C!Null
  BY DEF C!TailIsLast
<1>1. C!Chain(head[q]) = S[q]
  BY ChainedContents
<1>2. \A mid : ~At(q, mid)
  BY BoundTypes DEF At
<1>3. tail[q] = IF S[q] = <<>> THEN C!Null ELSE S[q][Len(S[q])]
  BY <1>2 DEF Chained, Tails
<1>4. tail[q] = IF S[q] = <<>> THEN C!Null ELSE C!Last(S[q])
  BY <1>3 DEF C!Last
<1>5. tail[q] # C!Null => next[tail[q]] = C!Null
  <2> SUFFICES ASSUME tail[q] # C!Null PROVE next[S[q][Len(S[q])]] = C!Null /\ tail[q] = S[q][Len(S[q])]
    OBVIOUS
  <2>1. S[q] # <<>> /\ tail[q] = S[q][Len(S[q])]
    BY <1>3
  <2>2. Len(S[q]) \in 1..Len(S[q])
    BY <2>1, ListFacts
  <2> QED BY <2>1, <2>2 DEF Chained, Linked
<1> QED BY <1>1, <1>4, <1>5

\* A step on queue r leaves what is in the middle elsewhere.
LEMMA AtElsewhere ==
  ASSUME Core, NEW th \in Threads, NEW op \in NeedsLock, NEW ops, Does(th, op, ops), UNCHANGED mutex,
         NEW r, r = C!Op(th).queue, ops = <<>> \/ ops[1].do \notin MidSteps \/ ops[1].queue = r,
         NEW mid \in MidSteps
  PROVE  /\ r \in C!Queues /\ mutex[r] = th
         /\ \A q \in C!Queues : q # r => /\ At(q, mid)' <=> At(q, mid)
                                         /\ At(q, mid) => C!Op(mutex[q])' = C!Op(mutex[q])
         /\ At(r, mid) <=> op = mid
         /\ At(r, mid)' <=> ops # <<>> /\ ops[1].do = mid /\ ops[1].queue = r
         /\ At(r, mid)' => C!Op(mutex[r])' = ops[1]
<1>1. r \in C!Queues /\ mutex[r] = th /\ (At(r, mid) <=> op = mid)
  BY AtHead DEF Does
<1>2. /\ At(r, mid)' <=> ops # <<>> /\ ops[1].do = mid /\ ops[1].queue = r
      /\ At(r, mid)' => C!Op(mutex[r])' = ops[1]
  BY <1>1, AtAfter
<1>3. ASSUME NEW q \in C!Queues, q # r
      PROVE  /\ At(q, mid)' <=> At(q, mid)
             /\ At(q, mid) => C!Op(mutex[q])' = C!Op(mutex[q])
  <2>1. CASE mutex[q] # th
    BY <2>1, AtAfter
  <2>2. CASE mutex[q] = th
    BY <1>3, <2>2, AtAfter
  <2> QED BY <2>1, <2>2
<1> QED BY <1>1, <1>2, <1>3

\* What Chained says of one queue.
QueueChained(S, q) ==
  /\ head[q] = IF S[q] = <<>> THEN C!Null ELSE S[q][1]
  /\ \A i \in 1..Len(S[q]) : next[S[q][i]] = IF i = Len(S[q]) THEN C!Null ELSE S[q][i + 1]
  /\ At(q, "move_tail") => S[q] # <<>> /\ C!Op(mutex[q]).node = S[q][Len(S[q])]
  /\ At(q, "swap_head") \/ At(q, "decide") => S[q] # <<>>
  /\ ~At(q, "move_tail") =>
       tail[q] = IF S[q] = <<>> \/ (At(q, "swap_head") /\ Len(S[q]) = 1) THEN C!Null ELSE S[q][Len(S[q])]
  /\ \A i \in 1..Len(S[q]) :
       value[S[q][i]] = C!Moved <=> i = 1 /\ (At(q, "swap_head") \/ At(q, "decide"))

\* A node that is still to be made leads nowhere.
FreshUnlinked == \A n \in C!Nodes : n > nodes => next[n] = C!Null

\* The queues are lists when each of them is one.
LEMMA ChainedParts ==
  \A S : Chained(S) <=> NodesIn(S) /\ FreshUnlinked /\ \A q \in C!Queues : QueueChained(S, q)
BY ZenonT(120), SMTT(30) DEF Chained, Linked, Tails, Valued, QueueChained, FreshUnlinked

\* No node is in two places.
LEMMA OnePlace ==
  ASSUME NEW S, NodesIn(S), NEW q \in C!Queues, NEW r \in C!Queues, NEW i \in 1..Len(S[q]), NEW j \in 1..Len(S[r]),
         S[q][i] = S[r][j]
  PROVE  q = r /\ i = j
BY Zenon DEF NodesIn

\* The same after a step.
LEMMA PartsChain ==
  ASSUME NEW S, NodesIn(S)', FreshUnlinked', \A q \in C!Queues : QueueChained(S, q)'
  PROVE  Chained(S)'
BY Zenon DEF Chained, Linked, Tails, Valued, QueueChained, FreshUnlinked

\* In the other queues nobody changes what he is in the middle of.
Elsewhere(r) ==
  \A q \in C!Queues, mid \in MidSteps : q # r =>
    /\ At(q, mid)' <=> At(q, mid)
    /\ At(q, mid) => C!Op(mutex[q])' = C!Op(mutex[q])

\* An action on r is calm for the other queues.
LEMMA StepElsewhere ==
  ASSUME Core, NEW th \in Threads, NEW op \in NeedsLock, NEW ops, Does(th, op, ops), UNCHANGED mutex,
         NEW r, r = C!Op(th).queue, ops = <<>> \/ ops[1].do \notin MidSteps \/ ops[1].queue = r
  PROVE  Elsewhere(r)
<1> SUFFICES ASSUME NEW q \in C!Queues, NEW mid \in MidSteps, q # r
             PROVE  /\ At(q, mid)' <=> At(q, mid)
                    /\ At(q, mid) => C!Op(mutex[q])' = C!Op(mutex[q])
  BY DEF Elsewhere
<1> QED BY AtElsewhere

\* The other queues are as they were.
LEMMA OtherQueues ==
  ASSUME Core, NEW S, Chained(S), NEW r, Elsewhere(r), NEW T,
         NEW q \in C!Queues, q # r, T[q] = S[q], head'[q] = head[q], tail'[q] = tail[q],
         \A i \in 1..Len(S[q]) : next'[S[q][i]] = next[S[q][i]] /\ value'[S[q][i]] = value[S[q][i]]
  PROVE  QueueChained(T, q)' /\ InQueue(T, q)' = InQueue(S, q)
<1>1. QueueChained(S, q)
  BY ChainedParts
<1>2. /\ At(q, "move_tail")' <=> At(q, "move_tail")
      /\ At(q, "swap_head")' <=> At(q, "swap_head")
      /\ At(q, "decide")' <=> At(q, "decide")
      /\ At(q, "move_tail") => C!Op(mutex[q])' = C!Op(mutex[q])
      /\ At(q, "swap_head") => C!Op(mutex[q])' = C!Op(mutex[q])
      /\ At(q, "decide") => C!Op(mutex[q])' = C!Op(mutex[q])
  BY DEF Elsewhere, MidSteps
<1>3. QueueChained(T, q)'
  <2>1. head'[q] = IF T[q] = <<>> THEN C!Null ELSE T[q][1]
    BY <1>1 DEF QueueChained
  <2>2. \A i \in 1..Len(T[q]) : next'[T[q][i]] = IF i = Len(T[q]) THEN C!Null ELSE T[q][i + 1]
    BY <1>1 DEF QueueChained
  <2>3. At(q, "move_tail")' => T[q] # <<>> /\ C!Op(mutex[q])'.node = T[q][Len(T[q])]
    BY <1>1, <1>2 DEF QueueChained
  <2>4. At(q, "swap_head")' \/ At(q, "decide")' => T[q] # <<>>
    BY <1>1, <1>2 DEF QueueChained
  <2>5. ~At(q, "move_tail")' =>
           tail'[q] = IF T[q] = <<>> \/ (At(q, "swap_head")' /\ Len(T[q]) = 1) THEN C!Null ELSE T[q][Len(T[q])]
    BY <1>1, <1>2 DEF QueueChained
  <2>6. \A i \in 1..Len(T[q]) :
           value'[T[q][i]] = C!Moved <=> i = 1 /\ (At(q, "swap_head")' \/ At(q, "decide")')
    BY <1>1, <1>2 DEF QueueChained
  <2> QED BY <2>1, <2>2, <2>3, <2>4, <2>5, <2>6 DEF QueueChained
<1>4. InQueue(T, q)' = InQueue(S, q)
  <2>1. \A i \in 1..Len(S[q]) : value[S[q][i]] = C!Moved => C!Op(mutex[q])' = C!Op(mutex[q])
    BY <1>1, <1>2 DEF QueueChained
  <2> QED BY <2>1 DEF InQueue
<1> QED BY <1>3, <1>4

\* A link appends its value to the list of its queue, and to no other.
LEMMA LinkChains ==
  ASSUME Core, NEW S, Chained(S), NEW th \in Threads, C!DoLink(th), NEW r, r = C!Op(th).queue
  PROVE  \E T : /\ Chained(T)'
                /\ \A q \in C!Queues : InQueue(T, q)' = IF q = r THEN Append(InQueue(S, r), C!Op(th).value)
                                                                  ELSE InQueue(S, q)
<1> DEFINE n == nodes + 1
           v == C!Op(th).value
<1>1. n \in C!Nodes /\ r \in C!Queues /\ v \in C!Values /\ Does(th, "link", <<C!MoveTail(r, n)>>)
  BY ShapeLink
<1>2. /\ C!IsNext(th, "link") /\ nodes' = n /\ value' = [value EXCEPT ![n] = v]
      /\ head[r] = C!Null => head' = [head EXCEPT ![r] = n] /\ next' = next
      /\ head[r] # C!Null => next' = [next EXCEPT ![tail[r]] = n] /\ head' = head
      /\ tail' = tail /\ mutex' = mutex
  BY DEF C!DoLink
<1>3. PICK ops : ops = <<C!MoveTail(r, n)>>
  OBVIOUS
<1>4. ops # <<>> /\ ops[1].do = "move_tail" /\ ops[1].queue = r /\ ops[1].node = n
  BY <1>3 DEF C!MoveTail
<1>e. Elsewhere(r)
  BY <1>1, <1>2, <1>3, <1>4, StepElsewhere DEF NeedsLock
<1>5. /\ ~At(r, "move_tail") /\ ~At(r, "swap_head") /\ ~At(r, "decide")
      /\ At(r, "move_tail")' /\ ~At(r, "swap_head")' /\ ~At(r, "decide")' /\ C!Op(mutex[r])'.node = n
  BY <1>1, <1>2, <1>3, <1>4, AtElsewhere DEF NeedsLock, MidSteps
<1>6. PICK l : l = Len(S[r])
  OBVIOUS
<1>7. /\ S[r] \in Seq(C!Nodes) /\ l \in Nat
      /\ \A i \in 1..l : S[r][i] \in C!Nodes /\ S[r][i] <= nodes /\ i <= S[r][i]
      /\ l <= nodes /\ (S[r] # <<>> <=> l >= 1) /\ (head[r] = C!Null <=> S[r] = <<>>) /\ nodes \in Nat
  BY <1>1, <1>6, ListFacts
<1>8. PICK s : s = Append(S[r], n)
  OBVIOUS
<1>9. /\ s \in Seq(C!Nodes) /\ Len(s) = l + 1 /\ s # <<>> /\ s[l + 1] = n
      /\ \A i \in 1..l : s[i] = S[r][i]
  <2>1. s \in Seq(C!Nodes) /\ Len(s) = l + 1 /\ s[l + 1] = n /\ \A i \in 1..l : s[i] = S[r][i]
    BY <1>1, <1>6, <1>7, <1>8
  <2>2. s # <<>>
    BY <1>7, <2>1
  <2> QED BY <2>1, <2>2
<1>10. PICK T : T = [S EXCEPT ![r] = s]
  OBVIOUS
<1>11. T \in [C!Queues -> Seq(C!Nodes)] /\ T[r] = s /\ \A q \in C!Queues : q # r => T[q] = S[q]
  BY <1>1, <1>9, <1>10 DEF Chained, NodesIn
<1>12. \A q \in C!Queues : \A i \in 1..Len(S[q]) : S[q][i] \in C!Nodes /\ S[q][i] # n /\ i <= S[q][i] /\ S[q][i] <= nodes
  <2> SUFFICES ASSUME NEW q \in C!Queues, NEW i \in 1..Len(S[q])
               PROVE  S[q][i] \in C!Nodes /\ S[q][i] # n /\ i <= S[q][i] /\ S[q][i] <= nodes
    OBVIOUS
  <2>1. S[q][i] \in C!Nodes /\ S[q][i] <= nodes /\ i <= S[q][i]
    BY ListFacts
  <2> QED BY <1>7, <2>1 DEF C!Nodes
<1>13. NodesIn(T)'
  <2>1. ASSUME NEW q \in C!Queues, NEW i \in 1..Len(T[q]) PROVE i <= T[q][i] /\ T[q][i] <= n
    <3>1. CASE q = r /\ i = l + 1
      BY <1>7, <1>9, <1>11, <3>1
    <3>2. CASE q = r /\ i # l + 1
      <4>1. i \in 1..l
        BY <1>7, <1>9, <1>11, <2>1, <3>2
      <4>2. T[q][i] = S[r][i]
        BY <1>9, <1>11, <3>2, <4>1
      <4>3. i <= S[r][i] /\ S[r][i] <= nodes /\ S[r][i] \in Nat
        BY <1>7, <4>1 DEF C!Nodes
      <4> QED BY <1>7, <4>2, <4>3
    <3>3. CASE q # r
      BY <1>7, <1>11, <1>12, <2>1, <3>3 DEF C!Nodes
    <3> QED BY <3>1, <3>2, <3>3
  <2>2. ASSUME NEW q \in C!Queues, NEW p \in C!Queues, NEW i \in 1..Len(T[q]), NEW j \in 1..Len(T[p]), T[q][i] = T[p][j]
        PROVE  q = p /\ i = j
    <3>0. ASSUME NEW x \in C!Queues, NEW k \in 1..Len(T[x])
          PROVE  (x = r /\ k = l + 1) \/ (k \in 1..Len(S[x]) /\ T[x][k] = S[x][k])
      <4>1. CASE x = r
        <5>1. k \in 1..(l + 1) /\ T[x][k] = s[k]
          BY <1>9, <1>11, <3>0, <4>1
        <5>2. CASE k # l + 1
          <6>1. k \in 1..l
            BY <1>7, <5>1, <5>2
          <6> QED BY <1>6, <1>9, <4>1, <5>1, <5>2, <6>1
        <5> QED BY <4>1, <5>2
      <4>2. CASE x # r
        BY <1>11, <3>0, <4>2
      <4> QED BY <4>1, <4>2
    <3>1. (q = r /\ i = l + 1) \/ (i \in 1..Len(S[q]) /\ T[q][i] = S[q][i])
      BY <3>0
    <3>2. (p = r /\ j = l + 1) \/ (j \in 1..Len(S[p]) /\ T[p][j] = S[p][j])
      BY <3>0
    <3>3. CASE q = r /\ i = l + 1
      BY <1>9, <1>11, <1>12, <2>2, <3>2, <3>3
    <3>4. CASE p = r /\ j = l + 1
      BY <1>9, <1>11, <1>12, <2>2, <3>1, <3>4
    <3>5. CASE i \in 1..Len(S[q]) /\ T[q][i] = S[q][i] /\ j \in 1..Len(S[p]) /\ T[p][j] = S[p][j]
      <4>1. NodesIn(S) /\ S[q][i] = S[p][j]
        BY <2>2, <3>5 DEF Chained
      <4> QED BY <3>5, <4>1, Zenon DEF NodesIn
    <3> QED BY <3>1, <3>2, <3>3, <3>4, <3>5
  <2>3. \A q \in C!Queues : \A i \in 1..Len(T[q]) : i <= T[q][i] /\ T[q][i] <= nodes'
    BY <1>2, <2>1
  <2> QED BY <1>11, <2>2, <2>3 DEF NodesIn
<1>14. FreshUnlinked'
  <2> SUFFICES ASSUME NEW m \in C!Nodes, m > n PROVE next'[m] = C!Null
    BY <1>2 DEF FreshUnlinked
  <2>1. next[m] = C!Null
    <3>1. m > nodes
      BY <1>7 DEF C!Nodes
    <3> QED BY <3>1, ChainedParts DEF FreshUnlinked
  <2>2. head[r] # C!Null => tail[r] # m
    <3> SUFFICES ASSUME head[r] # C!Null PROVE tail[r] # m
      OBVIOUS
    <3>1. l \in 1..l /\ tail[r] = S[r][l]
      BY <1>1, <1>5, <1>6, <1>7, ChainedParts DEF QueueChained
    <3> QED BY <1>7, <3>1 DEF C!Nodes
  <2> QED BY <1>2, <2>1, <2>2 DEF Core, QueueTypes, FieldTypes
<1>15. ASSUME NEW q \in C!Queues, q # r PROVE QueueChained(T, q)' /\ InQueue(T, q)' = InQueue(S, q)
  <2>1. head'[q] = head[q] /\ tail'[q] = tail[q]
    BY <1>2, <1>15 DEF Core, QueueTypes, FieldTypes
  <2>2. ASSUME NEW i \in 1..Len(S[q]) PROVE next'[S[q][i]] = next[S[q][i]] /\ value'[S[q][i]] = value[S[q][i]]
    <3>1. head[r] # C!Null => S[q][i] # tail[r]
      <4> SUFFICES ASSUME head[r] # C!Null PROVE tail[r] # S[q][i]
        OBVIOUS
      <4>1. l \in 1..Len(S[r]) /\ tail[r] = S[r][l]
        BY <1>1, <1>5, <1>6, <1>7, ChainedParts DEF QueueChained
      <4> QED BY <1>1, <1>15, <4>1 DEF Chained, NodesIn
    <3> QED BY <1>2, <1>12, <3>1 DEF Core, QueueTypes, FieldTypes
  <2>3. T[q] = S[q]
    BY <1>11, <1>15
  <2> QED BY <1>e, <1>15, <2>1, <2>2, <2>3, OtherQueues
<1>16. \A i \in 1..(l + 1) : value'[s[i]] = IF i = l + 1 THEN v ELSE value[S[r][i]]
  <2> SUFFICES ASSUME NEW i \in 1..(l + 1) PROVE value'[s[i]] = IF i = l + 1 THEN v ELSE value[S[r][i]]
    OBVIOUS
  <2>1. CASE i = l + 1
    BY <1>1, <1>2, <1>9, <2>1 DEF Core, QueueTypes, FieldTypes
  <2>2. CASE i # l + 1
    <3>1. i \in 1..l
      BY <1>7, <2>2
    <3>2. S[r][i] \in C!Nodes /\ S[r][i] # n /\ s[i] = S[r][i]
      BY <1>1, <1>6, <1>9, <1>12, <3>1
    <3> QED BY <1>2, <2>2, <3>2 DEF Core, QueueTypes, FieldTypes
  <2> QED BY <2>1, <2>2
<1>17. \A i \in 1..l : value[S[r][i]] # C!Moved
  BY <1>1, <1>5, <1>6, ChainedParts DEF QueueChained
<1>v. v # C!Moved
  BY <1>1 DEF C!Values, C!Moved
<1>18. InQueue(T, r)' = Append(InQueue(S, r), v)
  <2>1. InQueue(T, r)' = [i \in 1..(l + 1) |-> IF i = l + 1 THEN v ELSE value[S[r][i]]]
    <3>1. InQueue(T, r)' = [i \in 1..(l + 1) |-> IF value'[s[i]] = C!Moved THEN C!Op(mutex[r])'.value ELSE value'[s[i]]]
      BY <1>9, <1>11 DEF InQueue
    <3>2. \A i \in 1..(l + 1) : (IF value'[s[i]] = C!Moved THEN C!Op(mutex[r])'.value ELSE value'[s[i]])
                                 = IF i = l + 1 THEN v ELSE value[S[r][i]]
      <4> SUFFICES ASSUME NEW i \in 1..(l + 1) PROVE value'[s[i]] # C!Moved
        BY <1>16
      <4>1. i = l + 1 \/ i \in 1..l
        BY <1>7
      <4> QED BY <1>16, <1>17, <1>v, <4>1
    <3> QED BY <3>1, <3>2
  <2>2. PICK c : c = InQueue(S, r)
    OBVIOUS
  <2>3. c = [i \in 1..l |-> value[S[r][i]]]
    BY <1>6, <1>17, <2>2 DEF InQueue
  <2>4. c \in Seq(C!Values \cup {C!Moved}) /\ Len(c) = l
    <3>1. \A i \in 1..l : value[S[r][i]] \in C!Values \cup {C!Moved}
      BY <1>7 DEF Core, QueueTypes, FieldTypes
    <3> QED BY <1>7, <2>3, <3>1, SMTT(90), ZenonT(60)
  <2>5. Append(c, v) = [i \in 1..(l + 1) |-> IF i = l + 1 THEN v ELSE c[i]]
    BY <1>7, <2>4
  <2>6. \A i \in 1..(l + 1) : (IF i = l + 1 THEN v ELSE c[i]) = IF i = l + 1 THEN v ELSE value[S[r][i]]
    <3> SUFFICES ASSUME NEW i \in 1..(l + 1), i # l + 1 PROVE c[i] = value[S[r][i]]
      OBVIOUS
    <3>1. i \in 1..l
      BY <1>7
    <3> QED BY <2>3, <3>1
  <2> QED BY <2>1, <2>2, <2>5, <2>6
<1>19. QueueChained(T, r)'
  <2>1. head'[r] = s[1]
    <3>1. CASE head[r] = C!Null
      BY <1>1, <1>2, <1>7, <1>9, <3>1 DEF Core, QueueTypes, FieldTypes
    <3>2. CASE head[r] # C!Null
      <4>1. 1 \in 1..l /\ head[r] = S[r][1]
        BY <1>1, <1>7, <3>2, ChainedParts DEF QueueChained
      <4> QED BY <1>2, <1>9, <3>2, <4>1
    <3> QED BY <3>1, <3>2
  <2>2. ASSUME NEW i \in 1..(l + 1) PROVE next'[s[i]] = IF i = l + 1 THEN C!Null ELSE s[i + 1]
    <3>t. head[r] # C!Null => l \in 1..l /\ tail[r] = S[r][l]
      BY <1>1, <1>5, <1>6, <1>7, ChainedParts DEF QueueChained
    <3>n. next \in [C!Nodes -> C!Nodes \cup {C!Null}]
      BY DEF Core, QueueTypes, FieldTypes
    <3>1. CASE i = l + 1
      <4>1. next[n] = C!Null
        <5>1. n > nodes
          BY <1>7
        <5> QED BY <1>1, <5>1, ChainedParts DEF FreshUnlinked
      <4>2. head[r] # C!Null => tail[r] # n
        BY <1>1, <1>6, <1>12, <3>t
      <4> QED BY <1>1, <1>2, <1>9, <3>1, <3>n, <4>1, <4>2
    <3>2. CASE i = l
      <4>1. l \in 1..l /\ head[r] # C!Null
        BY <1>7, <3>2
      <4>2. next'[S[r][l]] = n
        BY <1>2, <1>7, <3>t, <3>n, <4>1
      <4> QED BY <1>7, <1>9, <3>2, <4>1, <4>2
    <3>3. CASE i # l + 1 /\ i # l
      <4>1. i \in 1..l /\ i + 1 \in 1..l /\ head[r] # C!Null
        BY <1>7, <3>3
      <4>2. next[S[r][i]] = S[r][i + 1]
        BY <1>1, <1>6, <3>3, <4>1, ChainedParts DEF QueueChained
      <4>3. S[r][i] # tail[r]
        <5>1. l \in 1..l /\ tail[r] = S[r][l] /\ NodesIn(S)
          BY <3>t, <4>1, ChainedParts
        <5> QED BY <1>1, <1>6, <3>3, <4>1, <5>1, OnePlace
      <4> QED BY <1>2, <1>7, <1>9, <3>3, <3>n, <4>1, <4>2, <4>3
    <3> QED BY <3>1, <3>2, <3>3
  <2>3. \A i \in 1..(l + 1) : value'[s[i]] # C!Moved
    <3> SUFFICES ASSUME NEW i \in 1..(l + 1) PROVE value'[s[i]] # C!Moved
      OBVIOUS
    <3>1. i = l + 1 \/ i \in 1..l
      BY <1>7
    <3> QED BY <1>16, <1>17, <1>v, <3>1
  <2> QED BY <1>5, <1>9, <1>11, <2>1, <2>2, <2>3 DEF QueueChained
<1>20. Chained(T)'
  <2>1. \A q \in C!Queues : QueueChained(T, q)'
    BY <1>15, <1>19
  <2> QED BY <1>13, <1>14, <2>1, PartsChain
<1>21. \A q \in C!Queues : InQueue(T, q)' = IF q = r THEN Append(InQueue(S, r), v) ELSE InQueue(S, q)
  BY <1>15, <1>18
<1> QED BY <1>20, <1>21

\* A step that changes the first value of a queue and its tail, and no links.
LEMMA FirstChanges ==
  ASSUME Core, NEW S, Chained(S), NEW r \in C!Queues, Elsewhere(r), S[r] # <<>>,
         NEW w, value' = [value EXCEPT ![S[r][1]] = w],
         head' = head, next' = next, nodes' = nodes,
         ~At(r, "move_tail")',
         w = C!Moved <=> At(r, "swap_head")' \/ At(r, "decide")',
         \A q \in C!Queues : tail'[q] = IF q # r THEN tail[q]
                                        ELSE IF At(r, "swap_head")' /\ Len(S[r]) = 1 THEN C!Null
                                        ELSE S[r][Len(S[r])],
         (IF w = C!Moved THEN C!Op(mutex[r])'.value ELSE w)
           = IF value[S[r][1]] = C!Moved THEN C!Op(mutex[r]).value ELSE value[S[r][1]]
  PROVE  Chained(S)' /\ \A q \in C!Queues : InQueue(S, q)' = InQueue(S, q)
<1>1. PICK l : l = Len(S[r])
  OBVIOUS
<1>2. l \in Nat /\ l >= 1 /\ \A i \in 1..l : S[r][i] \in C!Nodes
  BY <1>1, ListFacts
<1>3. NodesIn(S)' /\ FreshUnlinked'
  BY ChainedParts DEF NodesIn, FreshUnlinked
<1>4. \A q \in C!Queues : \A i \in 1..Len(S[q]) : ~(q = r /\ i = 1) => value'[S[q][i]] = value[S[q][i]]
  <2> SUFFICES ASSUME NEW q \in C!Queues, NEW i \in 1..Len(S[q]), ~(q = r /\ i = 1)
               PROVE  value'[S[q][i]] = value[S[q][i]]
    OBVIOUS
  <2>1. S[q][i] \in C!Nodes
    BY ListFacts
  <2>2. S[q][i] # S[r][1]
    <3>1. 1 \in 1..Len(S[r]) /\ NodesIn(S)
      BY <1>1, <1>2, ChainedParts
    <3> QED BY <1>1, <3>1, OnePlace
  <2>3. value \in [C!Nodes -> C!Values \cup {C!Moved}] /\ S[r][1] \in C!Nodes
    BY <1>1, <1>2 DEF Core, QueueTypes, FieldTypes
  <2> QED BY <2>1, <2>2, <2>3
<1>5. value'[S[r][1]] = w
  BY <1>2 DEF Core, QueueTypes, FieldTypes
<1>6. \A q \in C!Queues : q # r => QueueChained(S, q)' /\ InQueue(S, q)' = InQueue(S, q)
  <2> SUFFICES ASSUME NEW q \in C!Queues, q # r PROVE QueueChained(S, q)' /\ InQueue(S, q)' = InQueue(S, q)
    OBVIOUS
  <2>1. head'[q] = head[q] /\ tail'[q] = tail[q]
    OBVIOUS
  <2>2. \A i \in 1..Len(S[q]) : next'[S[q][i]] = next[S[q][i]] /\ value'[S[q][i]] = value[S[q][i]]
    BY <1>4
  <2>3. PICK T : T = S
    OBVIOUS
  <2>4. T[q] = S[q]
    BY <2>3
  <2>5. QueueChained(T, q)' /\ InQueue(T, q)' = InQueue(S, q)
    BY <2>1, <2>2, <2>4, OtherQueues
  <2> QED BY <2>3, <2>5
<1>7. QueueChained(S, r)
  BY ChainedParts
<1>8. \A i \in 1..l : value'[S[r][i]] = IF i = 1 THEN w ELSE value[S[r][i]]
  BY <1>1, <1>4, <1>5
<1>9. \A i \in 1..l : i # 1 => value[S[r][i]] # C!Moved
  BY <1>1, <1>7 DEF QueueChained
<1>10. QueueChained(S, r)'
  <2>1. \A i \in 1..Len(S[r]) : value'[S[r][i]] = C!Moved <=> i = 1 /\ (At(r, "swap_head")' \/ At(r, "decide")')
    BY <1>1, <1>8, <1>9
  <2>2. tail'[r] = IF S[r] = <<>> \/ (At(r, "swap_head")' /\ Len(S[r]) = 1) THEN C!Null ELSE S[r][Len(S[r])]
    OBVIOUS
  <2> QED BY <1>7, <2>1, <2>2 DEF QueueChained
<1>11. InQueue(S, r)' = InQueue(S, r)
  <2>1. InQueue(S, r)' = [i \in 1..l |-> IF value'[S[r][i]] = C!Moved THEN C!Op(mutex[r])'.value ELSE value'[S[r][i]]]
    BY <1>1 DEF InQueue
  <2>2. InQueue(S, r) = [i \in 1..l |-> IF value[S[r][i]] = C!Moved THEN C!Op(mutex[r]).value ELSE value[S[r][i]]]
    BY <1>1 DEF InQueue
  <2>3. \A i \in 1..l : (IF value'[S[r][i]] = C!Moved THEN C!Op(mutex[r])'.value ELSE value'[S[r][i]])
                         = IF value[S[r][i]] = C!Moved THEN C!Op(mutex[r]).value ELSE value[S[r][i]]
    <3> SUFFICES ASSUME NEW i \in 1..l
                 PROVE  (IF value'[S[r][i]] = C!Moved THEN C!Op(mutex[r])'.value ELSE value'[S[r][i]])
                         = IF value[S[r][i]] = C!Moved THEN C!Op(mutex[r]).value ELSE value[S[r][i]]
      OBVIOUS
    <3>1. CASE i = 1
      BY <1>5, <3>1
    <3>2. CASE i # 1
      BY <1>8, <1>9, <3>2
    <3> QED BY <3>1, <3>2
  <2> QED BY <2>1, <2>2, <2>3
<1>12. Chained(S)'
  BY <1>3, <1>6, <1>10, PartsChain
<1> QED BY <1>6, <1>11, <1>12

\* What emplace did last: the tail follows the new node.
LEMMA MoveTailChains ==
  ASSUME Core, NEW S, Chained(S), NEW th \in Threads, C!DoMoveTail(th)
  PROVE  Chained(S)' /\ \A q \in C!Queues : InQueue(S, q)' = InQueue(S, q)
<1>1. PICK r : r = C!Op(th).queue
  OBVIOUS
<1>2. PICK ops : ops = <<>>
  OBVIOUS
<1>3. /\ C!IsNext(th, "move_tail") /\ tail' = [tail EXCEPT ![r] = C!Op(th).node] /\ head' = head /\ next' = next
      /\ value' = value /\ nodes' = nodes /\ mutex' = mutex
  BY <1>1 DEF C!DoMoveTail
<1>4. Does(th, "move_tail", ops)
  BY <1>2, ShapePlain
<1>5. /\ Elsewhere(r) /\ r \in C!Queues /\ mutex[r] = th
      /\ At(r, "move_tail") /\ ~At(r, "swap_head") /\ ~At(r, "decide")
      /\ ~At(r, "move_tail")' /\ ~At(r, "swap_head")' /\ ~At(r, "decide")'
  BY <1>1, <1>2, <1>3, <1>4, StepElsewhere, AtElsewhere DEF NeedsLock, MidSteps
<1>6. QueueChained(S, r)
  BY <1>5, ChainedParts
<1>7. S[r] # <<>> /\ C!Op(th).node = S[r][Len(S[r])]
  BY <1>5, <1>6 DEF QueueChained
<1>8. 1 \in 1..Len(S[r]) /\ S[r][1] \in C!Nodes
  BY <1>5, <1>7, ListFacts
<1>9. value[S[r][1]] # C!Moved
  BY <1>5, <1>6, <1>8 DEF QueueChained
<1>10. PICK w : w = value[S[r][1]]
  OBVIOUS
<1>11. value' = [value EXCEPT ![S[r][1]] = w]
  BY <1>3, <1>8, <1>10 DEF Core, QueueTypes, FieldTypes
<1>12. \A q \in C!Queues : tail'[q] = IF q # r THEN tail[q] ELSE S[r][Len(S[r])]
  BY <1>3, <1>5, <1>7 DEF Core, QueueTypes, FieldTypes
<1>13. \A q \in C!Queues : tail'[q] = IF q # r THEN tail[q]
                                        ELSE IF At(r, "swap_head")' /\ Len(S[r]) = 1 THEN C!Null
                                        ELSE S[r][Len(S[r])]
  BY <1>5, <1>12
<1>14. w = C!Moved <=> At(r, "swap_head")' \/ At(r, "decide")'
  BY <1>5, <1>9, <1>10
<1>15. (IF w = C!Moved THEN C!Op(mutex[r])'.value ELSE w)
         = IF value[S[r][1]] = C!Moved THEN C!Op(mutex[r]).value ELSE value[S[r][1]]
  BY <1>9, <1>10
<1> QED BY <1>3, <1>5, <1>7, <1>11, <1>13, <1>14, <1>15, FirstChanges, ZenonT(120), SMTT(30)

\* A step that leaves the queues alone, though it makes others of the thread.
LEMMA CalmChains ==
  ASSUME Core, NEW S, Chained(S), NEW th \in Threads, NEW op, NEW ops, Does(th, op, ops), UNCHANGED mutex,
         op \notin MidSteps, ops = <<>> \/ ops[1].do \notin MidSteps, UNCHANGED C!queueVars
  PROVE  Chained(S)' /\ \A q \in C!Queues : InQueue(S, q)' = InQueue(S, q)
BY CalmStep, CalmKeeps

\* The first node of a queue, and its value before a call took it in hand.
LEMMA FirstFacts ==
  ASSUME Core, NEW S, Chained(S), NEW r \in C!Queues, head[r] # C!Null,
         ~At(r, "move_tail"), ~At(r, "swap_head"), ~At(r, "decide")
  PROVE  /\ S[r] # <<>> /\ head[r] = S[r][1] /\ head[r] \in C!Nodes
         /\ value[S[r][1]] # C!Moved /\ tail[r] = S[r][Len(S[r])]
         /\ tail[r] = head[r] <=> Len(S[r]) = 1
<1>1. /\ S[r] # <<>> /\ Len(S[r]) \in Nat /\ Len(S[r]) >= 1 /\ head[r] = S[r][1] /\ head[r] \in C!Nodes
  BY FirstNode
<1>2. QueueChained(S, r) /\ NodesIn(S)
  BY ChainedParts
<1>3. value[S[r][1]] # C!Moved /\ tail[r] = S[r][Len(S[r])]
  BY <1>1, <1>2 DEF QueueChained
<1>4. S[r][1] = S[r][Len(S[r])] => 1 = Len(S[r])
  <2>1. 1 \in 1..Len(S[r]) /\ Len(S[r]) \in 1..Len(S[r])
    BY <1>1
  <2> QED BY <1>2, <2>1, Zenon DEF NodesIn
<1> QED BY <1>1, <1>3, <1>4

\* consume_one takes the first value in hand.
LEMMA TakeChains ==
  ASSUME Core, NEW S, Chained(S), NEW th \in Threads, C!DoTake(th)
  PROVE  Chained(S)' /\ \A q \in C!Queues : InQueue(S, q)' = InQueue(S, q)
<1>1. PICK r : r = C!Op(th).queue
  OBVIOUS
<1>2. PICK v : v = value[head[r]]
  OBVIOUS
<1>3. PICK ops : /\ Does(th, "take", ops)
                 /\ head[r] = C!Null => ops = <<C!Unlock(r)>>
                 /\ head[r] # C!Null => ops = IF C!Op(th).all THEN <<C!SwapHead(r, v), C!Run(v), C!Unlock(r), C!Lock(r), C!Take(r, TRUE)>>
                                              ELSE <<C!SwapHead(r, v), C!Run(v), C!Unlock(r)>>
  BY <1>1, <1>2, ShapeTake
<1>4. mutex' = mutex /\ head' = head /\ next' = next /\ nodes' = nodes /\ C!IsNext(th, "take")
  BY DEF C!DoTake
<1>5. CASE head[r] = C!Null
  <2>1. ops[1].do = "unlock" /\ UNCHANGED C!queueVars
    BY <1>1, <1>3, <1>4, <1>5 DEF C!DoTake, C!Unlock, C!queueVars
  <2> QED BY <1>3, <1>4, <2>1, CalmChains DEF MidSteps
<1>6. CASE head[r] # C!Null
  <2>1. ops # <<>> /\ ops[1].do = "swap_head" /\ ops[1].queue = r /\ ops[1].value = v
    <3>1. CASE C!Op(th).all
      <4>1. ops = <<C!SwapHead(r, v), C!Run(v), C!Unlock(r), C!Lock(r), C!Take(r, TRUE)>>
        BY <1>3, <1>6, <3>1, Zenon
      <4> QED BY <4>1 DEF C!SwapHead
    <3>2. CASE ~C!Op(th).all
      <4>1. ops = <<C!SwapHead(r, v), C!Run(v), C!Unlock(r)>>
        BY <1>3, <1>6, <3>2, Zenon
      <4> QED BY <4>1 DEF C!SwapHead
    <3> QED BY <3>1, <3>2
  <2>2. /\ value' = [value EXCEPT ![head[r]] = C!Moved]
        /\ tail' = [tail EXCEPT ![r] = IF @ = head[r] THEN C!Null ELSE @]
    BY <1>1, <1>6 DEF C!DoTake
  <2>3. /\ Elsewhere(r) /\ r \in C!Queues /\ mutex[r] = th
        /\ ~At(r, "move_tail") /\ ~At(r, "swap_head") /\ ~At(r, "decide")
        /\ ~At(r, "move_tail")' /\ At(r, "swap_head")' /\ ~At(r, "decide")' /\ C!Op(mutex[r])' = ops[1]
    BY <1>1, <1>3, <1>4, <2>1, StepElsewhere, AtElsewhere DEF NeedsLock, MidSteps
  <2>4. /\ S[r] # <<>> /\ head[r] = S[r][1] /\ head[r] \in C!Nodes
        /\ value[S[r][1]] # C!Moved /\ tail[r] = S[r][Len(S[r])]
        /\ tail[r] = head[r] <=> Len(S[r]) = 1
    BY <1>6, <2>3, FirstFacts
  <2>5. \A q \in C!Queues : tail'[q] = IF q # r THEN tail[q] ELSE IF Len(S[r]) = 1 THEN C!Null ELSE S[r][Len(S[r])]
    BY <2>2, <2>3, <2>4 DEF Core, QueueTypes, FieldTypes
  <2>6. PICK w : w = C!Moved
    OBVIOUS
  <2>7. value' = [value EXCEPT ![S[r][1]] = w]
    BY <2>2, <2>4, <2>6
  <2>8. \A q \in C!Queues : tail'[q] = IF q # r THEN tail[q]
                                        ELSE IF At(r, "swap_head")' /\ Len(S[r]) = 1 THEN C!Null
                                        ELSE S[r][Len(S[r])]
    BY <2>3, <2>5
  <2>9. (IF w = C!Moved THEN C!Op(mutex[r])'.value ELSE w)
          = IF value[S[r][1]] = C!Moved THEN C!Op(mutex[r]).value ELSE value[S[r][1]]
    BY <1>2, <2>1, <2>3, <2>4, <2>6
  <2>10. w = C!Moved <=> At(r, "swap_head")' \/ At(r, "decide")'
    BY <2>3, <2>6
  <2> QED BY <1>4, <2>3, <2>4, <2>7, <2>8, <2>9, <2>10, FirstChanges
<1> QED BY <1>5, <1>6

\* peak_and_pop_if takes it in hand to look at it.
LEMMA PeakChains ==
  ASSUME Core, NEW S, Chained(S), NEW th \in Threads, C!DoPeak(th)
  PROVE  Chained(S)' /\ \A q \in C!Queues : InQueue(S, q)' = InQueue(S, q)
<1>1. PICK r : r = C!Op(th).queue
  OBVIOUS
<1>2. PICK v : v = value[head[r]]
  OBVIOUS
<1>3. PICK ops : /\ Does(th, "peak", ops)
                 /\ head[r] = C!Null => ops = <<C!Unlock(r)>>
                 /\ head[r] # C!Null => ops = <<C!Decide(r, v), C!Unlock(r)>>
  BY <1>1, <1>2, ShapePeak
<1>4. mutex' = mutex /\ head' = head /\ next' = next /\ nodes' = nodes /\ tail' = tail /\ C!IsNext(th, "peak")
  BY DEF C!DoPeak
<1>5. CASE head[r] = C!Null
  <2>1. ops[1].do = "unlock" /\ UNCHANGED C!queueVars
    BY <1>1, <1>3, <1>4, <1>5 DEF C!DoPeak, C!Unlock, C!queueVars
  <2> QED BY <1>3, <1>4, <2>1, CalmChains DEF MidSteps
<1>6. CASE head[r] # C!Null
  <2>1. ops # <<>> /\ ops[1].do = "decide" /\ ops[1].queue = r /\ ops[1].value = v
    BY <1>3, <1>6 DEF C!Decide
  <2>2. value' = [value EXCEPT ![head[r]] = C!Moved]
    BY <1>1, <1>6 DEF C!DoPeak
  <2>3. /\ Elsewhere(r) /\ r \in C!Queues /\ mutex[r] = th
        /\ ~At(r, "move_tail") /\ ~At(r, "swap_head") /\ ~At(r, "decide")
        /\ ~At(r, "move_tail")' /\ ~At(r, "swap_head")' /\ At(r, "decide")' /\ C!Op(mutex[r])' = ops[1]
    BY <1>1, <1>3, <1>4, <2>1, StepElsewhere, AtElsewhere DEF NeedsLock, MidSteps
  <2>4. /\ S[r] # <<>> /\ head[r] = S[r][1] /\ head[r] \in C!Nodes
        /\ value[S[r][1]] # C!Moved /\ tail[r] = S[r][Len(S[r])]
    BY <1>6, <2>3, FirstFacts
  <2>5. \A q \in C!Queues : tail'[q] = IF q # r THEN tail[q] ELSE S[r][Len(S[r])]
    BY <1>4, <2>4
  <2>6. PICK w : w = C!Moved
    OBVIOUS
  <2>7. value' = [value EXCEPT ![S[r][1]] = w]
    BY <2>2, <2>4, <2>6
  <2>8. \A q \in C!Queues : tail'[q] = IF q # r THEN tail[q]
                                        ELSE IF At(r, "swap_head")' /\ Len(S[r]) = 1 THEN C!Null
                                        ELSE S[r][Len(S[r])]
    BY <2>3, <2>5
  <2>9. (IF w = C!Moved THEN C!Op(mutex[r])'.value ELSE w)
          = IF value[S[r][1]] = C!Moved THEN C!Op(mutex[r]).value ELSE value[S[r][1]]
    BY <1>2, <2>1, <2>3, <2>4, <2>6
  <2>10. w = C!Moved <=> At(r, "swap_head")' \/ At(r, "decide")'
    BY <2>3, <2>6
  <2> QED BY <1>4, <2>3, <2>4, <2>7, <2>8, <2>9, <2>10, FirstChanges
<1> QED BY <1>5, <1>6

\* What is left of a sequence without its first element.
LEMMA Rest ==
  ASSUME NEW X, NEW s \in Seq(X), s # <<>>, NEW m, m = Len(s) - 1
  PROVE  /\ m \in Nat /\ Len(s) = m + 1
         /\ Tail(s) \in Seq(X) /\ Len(Tail(s)) = m /\ DOMAIN Tail(s) = 1..m
         /\ \A i \in 1..m : Tail(s)[i] = s[i + 1]
         /\ Tail(s) = [i \in 1..m |-> s[i + 1]]
         /\ m >= 1 <=> Tail(s) # <<>>
<1>1. m \in Nat /\ Len(s) = m + 1 /\ Tail(s) \in Seq(X) /\ Len(Tail(s)) = m
  OBVIOUS
<1>2. \A i \in 1..m : Tail(s)[i] = s[i + 1] /\ s[i + 1] \in X
  <2> SUFFICES ASSUME NEW i \in 1..m PROVE Tail(s)[i] = s[i + 1] /\ s[i + 1] \in X
    OBVIOUS
  <2>1. i \in 1..Len(Tail(s)) /\ i + 1 \in 1..Len(s)
    BY <1>1
  <2> QED BY <1>1, <2>1
<1>3. PICK t : t = Tail(s)
  OBVIOUS
<1>4. PICK f : f = [i \in 1..m |-> s[i + 1]]
  OBVIOUS
<1>5. f \in Seq(X) /\ Len(f) = m /\ \A i \in 1..m : f[i] = s[i + 1]
  <2>1. f \in [1..m -> X]
    BY <1>2, <1>4
  <2>2. f \in Seq(X) /\ Len(f) = m
    BY <1>1, <2>1
  <2> QED BY <1>4, <2>2
<1>6. t \in Seq(X) /\ Len(t) = m /\ \A i \in 1..m : t[i] = s[i + 1]
  BY <1>1, <1>2, <1>3
<1>7. t = f
  BY <1>5, <1>6, SameSequence
<1>8. DOMAIN t = 1..m /\ (m >= 1 <=> t # <<>>)
  BY <1>1, <1>6
<1> QED BY <1>1, <1>2, <1>3, <1>4, <1>7, <1>8

\* A step that drops the first node of a queue.
LEMMA DropChains ==
  ASSUME Core, NEW S, Chained(S), NEW r \in C!Queues, Elsewhere(r), S[r] # <<>>,
         value' = value, nodes' = nodes,
         head' = [head EXCEPT ![r] = next[head[r]]], next' = [next EXCEPT ![head[r]] = head[r]],
         ~At(r, "move_tail")', ~At(r, "swap_head")', ~At(r, "decide")',
         \A q \in C!Queues : tail'[q] = IF q # r THEN tail[q]
                                        ELSE IF Len(S[r]) = 1 THEN C!Null ELSE S[r][Len(S[r])]
  PROVE  \E T : /\ Chained(T)'
                /\ \A q \in C!Queues : InQueue(T, q)' = IF q = r THEN Tail(InQueue(S, r)) ELSE InQueue(S, q)
<1>1. PICK m : m = Len(S[r]) - 1
  OBVIOUS
<1>2. PICK s : s = Tail(S[r])
  OBVIOUS
<1>3. /\ m \in Nat /\ Len(S[r]) = m + 1 /\ s \in Seq(C!Nodes) /\ Len(s) = m
      /\ \A i \in 1..m : s[i] = S[r][i + 1]
      /\ m >= 1 <=> s # <<>>
  <2>1. S[r] \in Seq(C!Nodes)
    BY ListFacts
  <2> QED BY <1>1, <1>2, <2>1, Rest
<1>4. PICK T : T = [S EXCEPT ![r] = s]
  OBVIOUS
<1>5. T \in [C!Queues -> Seq(C!Nodes)] /\ T[r] = s /\ \A q \in C!Queues : q # r => T[q] = S[q]
  BY <1>3, <1>4 DEF Chained, NodesIn
<1>6. NodesIn(S) /\ FreshUnlinked /\ QueueChained(S, r)
  BY ChainedParts
<1>7. \A a, b \in C!Queues : \A i \in 1..Len(S[a]), j \in 1..Len(S[b]) : S[a][i] = S[b][j] => a = b /\ i = j
  BY <1>6, Zenon DEF NodesIn
<1>8. \A a \in C!Queues : \A i \in 1..Len(S[a]) : S[a][i] \in C!Nodes /\ i <= S[a][i] /\ S[a][i] <= nodes
  BY ListFacts
<1>9. PICK n : n = head[r]
  OBVIOUS
<1>10. 1 \in 1..Len(S[r]) /\ n = S[r][1] /\ n \in C!Nodes /\ n <= nodes
  <2>1. 1 \in 1..Len(S[r])
    BY <1>3
  <2> QED BY <1>6, <1>8, <1>9, <2>1 DEF QueueChained
<1>11. \A i \in 1..m : i + 1 \in 1..Len(S[r]) /\ s[i] = S[r][i + 1] /\ s[i] \in C!Nodes /\ s[i] # n
  <2> SUFFICES ASSUME NEW i \in 1..m
               PROVE  i + 1 \in 1..Len(S[r]) /\ s[i] = S[r][i + 1] /\ s[i] \in C!Nodes /\ s[i] # n
    OBVIOUS
  <2>1. i + 1 \in 1..Len(S[r]) /\ i + 1 # 1
    BY <1>3
  <2>2. S[r][i + 1] \in C!Nodes
    BY <1>8, <2>1
  <2>3. S[r][i + 1] # S[r][1]
    BY <1>7, <1>10, <2>1
  <2> QED BY <1>3, <1>10, <2>1, <2>2, <2>3
<1>12. \A a \in C!Nodes : next'[a] = IF a = n THEN n ELSE next[a]
  BY <1>9, <1>10 DEF Core, QueueTypes, FieldTypes
<1>13. NodesIn(T)'
  <2>1. ASSUME NEW q \in C!Queues, NEW i \in 1..Len(T[q]) PROVE i <= T[q][i] /\ T[q][i] <= nodes
    <3>1. CASE q # r
      BY <1>5, <1>8, <2>1, <3>1
    <3>2. CASE q = r
      <4>1. i \in 1..m
        BY <1>3, <1>5, <2>1, <3>2
      <4>2. i + 1 <= T[q][i] /\ T[q][i] <= nodes /\ T[q][i] \in C!Nodes
        BY <1>5, <1>8, <1>11, <3>2, <4>1
      <4> QED BY <4>1, <4>2, <1>3 DEF C!Nodes
    <3> QED BY <3>1, <3>2
  <2>2. ASSUME NEW q \in C!Queues, NEW i \in 1..Len(T[q])
        PROVE  \E k \in 1..Len(S[q]) : T[q][i] = S[q][k] /\ i = IF q = r THEN k - 1 ELSE k
    <3>1. CASE q # r
      BY <1>5, <2>2, <3>1
    <3>2. CASE q = r
      <4>1. i \in 1..m
        BY <1>3, <1>5, <2>2, <3>2
      <4>2. i + 1 \in 1..Len(S[q]) /\ T[q][i] = S[q][i + 1] /\ i = (i + 1) - 1
        BY <1>5, <1>11, <3>2, <4>1
      <4> QED BY <3>2, <4>2
    <3> QED BY <3>1, <3>2
  <2>3. ASSUME NEW q \in C!Queues, NEW p \in C!Queues, NEW i \in 1..Len(T[q]), NEW j \in 1..Len(T[p]), T[q][i] = T[p][j]
        PROVE  q = p /\ i = j
    <3>1. PICK k \in 1..Len(S[q]) : T[q][i] = S[q][k] /\ i = IF q = r THEN k - 1 ELSE k
      BY <2>2
    <3>2. PICK h \in 1..Len(S[p]) : T[p][j] = S[p][h] /\ j = IF p = r THEN h - 1 ELSE h
      BY <2>2
    <3>3. q = p /\ k = h
      <4>1. S[q][k] = S[p][h]
        BY <2>3, <3>1, <3>2
      <4>2. \A a \in 1..Len(S[q]), b \in 1..Len(S[p]) : S[q][a] = S[p][b] => q = p /\ a = b
        BY <1>7, Zenon
      <4>3. k \in 1..Len(S[q]) /\ h \in 1..Len(S[p])
        BY <3>1, <3>2
      <4> QED BY <4>1, <4>2, <4>3, Zenon
    <3> QED BY <3>1, <3>2, <3>3
  <2>4. \A q \in C!Queues : \A i \in 1..Len(T[q]) : i <= T[q][i] /\ T[q][i] <= nodes'
    BY <2>1
  <2> QED BY <1>5, <2>3, <2>4 DEF NodesIn
<1>14. FreshUnlinked'
  <2> SUFFICES ASSUME NEW a \in C!Nodes, a > nodes PROVE next'[a] = C!Null
    BY DEF FreshUnlinked
  <2>1. next[a] = C!Null
    BY <1>6 DEF FreshUnlinked
  <2>2. a # n
    BY <1>10 DEF C!Nodes, Core, QueueTypes, FieldTypes
  <2> QED BY <1>12, <2>1, <2>2
<1>15. ASSUME NEW q \in C!Queues, q # r PROVE QueueChained(T, q)' /\ InQueue(T, q)' = InQueue(S, q)
  <2>1. head'[q] = head[q] /\ tail'[q] = tail[q]
    BY <1>15 DEF Core, QueueTypes, FieldTypes
  <2>2. ASSUME NEW i \in 1..Len(S[q]) PROVE next'[S[q][i]] = next[S[q][i]] /\ value'[S[q][i]] = value[S[q][i]]
    <3>1. S[q][i] \in C!Nodes /\ S[q][i] # n
      BY <1>7, <1>8, <1>10, <1>15, <2>2
    <3> QED BY <1>12, <3>1
  <2> QED BY <1>5, <1>15, <2>1, <2>2, OtherQueues, SMTT(90), ZenonT(60)
<1>16. \A i \in 1..m : value[s[i]] # C!Moved
  <2> SUFFICES ASSUME NEW i \in 1..m PROVE value[s[i]] # C!Moved
    OBVIOUS
  <2>1. i + 1 \in 1..Len(S[r]) /\ s[i] = S[r][i + 1] /\ i + 1 # 1
    BY <1>3, <1>11
  <2> QED BY <1>6, <2>1 DEF QueueChained
<1>17. QueueChained(T, r)'
  <2>1. head'[r] = IF s = <<>> THEN C!Null ELSE s[1]
    <3>1. head'[r] = next[n]
      BY <1>9 DEF Core, QueueTypes, FieldTypes
    <3>2. next[n] = IF 1 = Len(S[r]) THEN C!Null ELSE S[r][1 + 1]
      BY <1>6, <1>10 DEF QueueChained
    <3>3. CASE m = 0
      BY <1>3, <3>1, <3>2, <3>3
    <3>4. CASE m # 0
      <4>1. 1 \in 1..m /\ s # <<>> /\ 1 # Len(S[r])
        BY <1>3, <3>4
      <4> QED BY <1>3, <3>1, <3>2, <4>1
    <3> QED BY <3>3, <3>4
  <2>2. ASSUME NEW i \in 1..m PROVE next'[s[i]] = IF i = m THEN C!Null ELSE s[i + 1]
    <3>1. next'[s[i]] = next[s[i]]
      BY <1>11, <1>12
    <3>2. next[S[r][i + 1]] = IF i + 1 = Len(S[r]) THEN C!Null ELSE S[r][(i + 1) + 1]
      <4>1. i + 1 \in 1..Len(S[r])
        BY <1>11
      <4>2. \A k \in 1..Len(S[r]) : next[S[r][k]] = IF k = Len(S[r]) THEN C!Null ELSE S[r][k + 1]
        BY <1>6 DEF QueueChained
      <4> QED BY <4>1, <4>2
    <3>3. CASE i = m
      BY <1>3, <1>11, <3>1, <3>2, <3>3
    <3>4. CASE i # m
      <4>1. i + 1 \in 1..m /\ i + 1 # Len(S[r])
        BY <1>3, <3>4
      <4>2. s[i + 1] = S[r][(i + 1) + 1]
        BY <1>11, <4>1
      <4> QED BY <1>11, <3>1, <3>2, <3>4, <4>1, <4>2
    <3> QED BY <3>3, <3>4
  <2>3. tail'[r] = IF s = <<>> THEN C!Null ELSE s[m]
    <3>1. CASE m = 0
      BY <1>3, <3>1
    <3>2. CASE m # 0
      <4>1. m \in 1..m /\ s # <<>> /\ Len(S[r]) # 1 /\ Len(S[r]) = m + 1
        BY <1>3, <3>2
      <4>2. s[m] = S[r][m + 1]
        BY <1>11, <4>1
      <4> QED BY <4>1, <4>2
    <3> QED BY <3>1, <3>2
  <2>4. \A i \in 1..m : value'[s[i]] # C!Moved
    BY <1>16
  <2> QED BY <1>3, <1>5, <2>1, <2>2, <2>3, <2>4 DEF QueueChained
<1>18. InQueue(T, r)' = Tail(InQueue(S, r))
  <2>1. InQueue(T, r)' = [i \in 1..m |-> value[s[i]]]
    <3>1. InQueue(T, r)' = [i \in 1..m |-> IF value'[s[i]] = C!Moved THEN C!Op(mutex[r])'.value ELSE value'[s[i]]]
      BY <1>3, <1>5 DEF InQueue
    <3>2. \A i \in 1..m : (IF value'[s[i]] = C!Moved THEN C!Op(mutex[r])'.value ELSE value'[s[i]]) = value[s[i]]
      BY <1>16
    <3> QED BY <3>1, <3>2
  <2>2. PICK c : c = InQueue(S, r)
    OBVIOUS
  <2>3. PICK X : X = {c[i] : i \in 1..(m + 1)}
    OBVIOUS
  <2>4. c = [i \in 1..(m + 1) |-> IF value[S[r][i]] = C!Moved THEN C!Op(mutex[r]).value ELSE value[S[r][i]]]
    BY <1>3, <2>2 DEF InQueue
  <2>5. c \in Seq(X) /\ Len(c) = m + 1 /\ c # <<>>
    <3>1. c \in [1..(m + 1) -> X]
      BY <2>3, <2>4
    <3>2. m + 1 \in Nat /\ m + 1 >= 1
      BY <1>3
    <3>3. c \in Seq(X) /\ Len(c) = m + 1
      BY <3>1, <3>2
    <3> QED BY <3>2, <3>3
  <2>6. Tail(c) = [i \in 1..m |-> c[i + 1]]
    <3>1. m = Len(c) - 1
      BY <1>3, <2>5
    <3> QED BY <2>5, <3>1, Rest
  <2>7. \A i \in 1..m : c[i + 1] = value[s[i]]
    <3> SUFFICES ASSUME NEW i \in 1..m PROVE c[i + 1] = value[s[i]]
      OBVIOUS
    <3>1. i + 1 \in 1..(m + 1) /\ s[i] = S[r][i + 1]
      BY <1>3, <1>11
    <3> QED BY <1>16, <2>4, <3>1
  <2> QED BY <2>1, <2>2, <2>6, <2>7
<1>19. Chained(T)'
  BY <1>13, <1>14, <1>15, <1>17, PartsChain
<1>20. \A q \in C!Queues : InQueue(T, q)' = IF q = r THEN Tail(InQueue(S, r)) ELSE InQueue(S, q)
  BY <1>15, <1>18
<1> QED BY <1>19, <1>20

\* No node is twice in a queue.
LEMMA OneNode ==
  ASSUME NEW S, NodesIn(S), NEW r \in C!Queues, NEW i \in 1..Len(S[r]), NEW j \in 1..Len(S[r]), S[r][i] = S[r][j]
  PROVE  i = j
BY Zenon DEF NodesIn

\* What is moved back is no moved-from value.
LEMMA ValueOf ==
  ASSUME Core, NEW th \in Threads, C!IsNext(th, "decide")
  PROVE  C!Op(th).value # C!Moved
<1>1. C!Op(th) \in Steps /\ C!Op(th).do = "decide"
  BY NextStep
<1>2. C!Op(th).value \in C!Values
  BY <1>1, StepKinds
<1> QED BY <1>2 DEF C!Values, C!Moved

\* consume_one drops the node whose value is in hand.
LEMMA SwapHeadChains ==
  ASSUME Core, NEW S, Chained(S), NEW th \in Threads, C!DoSwapHead(th), NEW r, r = C!Op(th).queue
  PROVE  /\ r \in C!Queues /\ S[r] # <<>>
         /\ \E T : /\ Chained(T)'
                   /\ \A q \in C!Queues : InQueue(T, q)' = IF q = r THEN Tail(InQueue(S, r)) ELSE InQueue(S, q)
<1>1. PICK ops : ops = <<>>
  OBVIOUS
<1>2. /\ C!IsNext(th, "swap_head") /\ head' = [head EXCEPT ![r] = next[head[r]]]
      /\ next' = [next EXCEPT ![head[r]] = head[r]] /\ tail' = tail /\ value' = value /\ nodes' = nodes /\ mutex' = mutex
  BY DEF C!DoSwapHead
<1>3. Does(th, "swap_head", ops)
  BY <1>1, ShapePlain
<1>4. /\ Elsewhere(r) /\ r \in C!Queues /\ mutex[r] = th
      /\ ~At(r, "move_tail") /\ At(r, "swap_head") /\ ~At(r, "decide")
      /\ ~At(r, "move_tail")' /\ ~At(r, "swap_head")' /\ ~At(r, "decide")'
  BY <1>1, <1>2, <1>3, StepElsewhere, AtElsewhere DEF NeedsLock, MidSteps
<1>5. QueueChained(S, r)
  BY <1>4, ChainedParts
<1>6. S[r] # <<>> /\ tail[r] = IF Len(S[r]) = 1 THEN C!Null ELSE S[r][Len(S[r])]
  BY <1>4, <1>5 DEF QueueChained
<1>7. \A q \in C!Queues : tail'[q] = IF q # r THEN tail[q]
                                     ELSE IF Len(S[r]) = 1 THEN C!Null ELSE S[r][Len(S[r])]
  BY <1>2, <1>6
<1> QED BY <1>2, <1>4, <1>6, <1>7, DropChains

\* peak_and_pop_if drops the first node, or puts its value back.
LEMMA DecideChains ==
  ASSUME Core, NEW S, Chained(S), NEW th \in Threads, C!DoDecide(th), NEW r, r = C!Op(th).queue
  PROVE  /\ r \in C!Queues /\ S[r] # <<>>
         /\ \E T : /\ Chained(T)'
                   /\ \/ \A q \in C!Queues : InQueue(T, q)' = InQueue(S, q)
                      \/ \A q \in C!Queues : InQueue(T, q)' = IF q = r THEN Tail(InQueue(S, r)) ELSE InQueue(S, q)
<1>1. PICK ops : ops = <<>>
  OBVIOUS
<1>2. C!IsNext(th, "decide") /\ nodes' = nodes /\ mutex' = mutex
  BY DEF C!DoDecide
<1>3. Does(th, "decide", ops)
  BY <1>1, ShapePlain
<1>4. /\ Elsewhere(r) /\ r \in C!Queues /\ mutex[r] = th
      /\ ~At(r, "move_tail") /\ ~At(r, "swap_head") /\ At(r, "decide")
      /\ ~At(r, "move_tail")' /\ ~At(r, "swap_head")' /\ ~At(r, "decide")'
  BY <1>1, <1>2, <1>3, StepElsewhere, AtElsewhere DEF NeedsLock, MidSteps
<1>5. QueueChained(S, r) /\ NodesIn(S)
  BY <1>4, ChainedParts
<1>6. S[r] # <<>> /\ tail[r] = S[r][Len(S[r])]
  BY <1>4, <1>5 DEF QueueChained
<1>7. 1 \in 1..Len(S[r]) /\ Len(S[r]) \in 1..Len(S[r]) /\ S[r][1] \in C!Nodes
  <2>1. 1 \in 1..Len(S[r]) /\ Len(S[r]) \in 1..Len(S[r])
    BY <1>4, <1>6, ListFacts
  <2> QED BY <1>4, <2>1, ListFacts
<1>8. head[r] = S[r][1] /\ value[S[r][1]] = C!Moved
  BY <1>4, <1>5, <1>6, <1>7 DEF QueueChained
<1>9. tail[r] = head[r] <=> Len(S[r]) = 1
  <2>1. S[r][1] = S[r][Len(S[r])] => 1 = Len(S[r])
    BY <1>4, <1>5, <1>7, OneNode
  <2> QED BY <1>6, <1>7, <1>8, <2>1
<1>10. CASE C!Stealable(C!Op(th).value)
  <2>1. /\ tail' = [tail EXCEPT ![r] = IF @ = head[r] THEN C!Null ELSE @]
        /\ head' = [head EXCEPT ![r] = next[head[r]]] /\ next' = [next EXCEPT ![head[r]] = head[r]] /\ value' = value
    BY <1>10 DEF C!DoDecide
  <2>2. \A q \in C!Queues : tail'[q] = IF q # r THEN tail[q]
                                       ELSE IF Len(S[r]) = 1 THEN C!Null ELSE S[r][Len(S[r])]
    BY <1>4, <1>6, <1>9, <2>1 DEF Core, QueueTypes, FieldTypes
  <2>3. \E T : /\ Chained(T)'
               /\ \A q \in C!Queues : InQueue(T, q)' = IF q = r THEN Tail(InQueue(S, r)) ELSE InQueue(S, q)
    BY <1>2, <1>4, <1>6, <2>1, <2>2, DropChains
  <2> QED BY <1>4, <1>6, <2>3
<1>11. CASE ~C!Stealable(C!Op(th).value)
  <2>1. PICK w : w = C!Op(th).value
    OBVIOUS
  <2>2. /\ value' = [value EXCEPT ![S[r][1]] = w]
        /\ head' = head /\ tail' = tail /\ next' = next
    BY <1>8, <1>11, <2>1 DEF C!DoDecide
  <2>3. w # C!Moved
    BY <1>2, <2>1, ValueOf
  <2>4. \A q \in C!Queues : tail'[q] = IF q # r THEN tail[q]
                                        ELSE IF At(r, "swap_head")' /\ Len(S[r]) = 1 THEN C!Null
                                        ELSE S[r][Len(S[r])]
    BY <1>4, <1>6, <2>2
  <2>5. w = C!Moved <=> At(r, "swap_head")' \/ At(r, "decide")'
    BY <1>4, <2>3
  <2>6. (IF w = C!Moved THEN C!Op(mutex[r])'.value ELSE w)
          = IF value[S[r][1]] = C!Moved THEN C!Op(mutex[r]).value ELSE value[S[r][1]]
    BY <1>4, <1>8, <2>1, <2>3
  <2>7. Chained(S)' /\ \A q \in C!Queues : InQueue(S, q)' = InQueue(S, q)
    BY <1>2, <1>4, <1>6, <2>2, <2>4, <2>5, <2>6, FirstChanges
  <2> QED BY <1>4, <1>6, <2>7
<1> QED BY <1>10, <1>11

\* Locks, pointers and what an action does leave the queues as they are.
LEMMA OtherSteps ==
  ASSUME Core, NEW S, Chained(S), NEW th \in Threads,
         \/ C!DoLock(th) \/ C!DoUnlock(th) \/ C!DoRun(th)
         \/ C!DoLockShared(th) \/ C!DoEmplaceCurrent(th) \/ C!DoLockUnique(th)
         \/ C!DoExchange(th) \/ C!DoRelease(th) \/ C!DoDestroy(th)
  PROVE  Chained(S)' /\ \A q \in C!Queues : InQueue(S, q)' = InQueue(S, q)
<1>1. CASE C!DoLock(th) \/ C!DoUnlock(th)
  <2>1. UNCHANGED C!queueVars
    BY <1>1 DEF C!DoLock, C!DoUnlock
  <2> QED BY <1>1, <2>1, CalmLock, CalmKeeps
<1>2. CASE C!DoRun(th)
  <2>1. UNCHANGED <<C!queueVars, mutex>> /\ C!Op(th).value \in C!Values
    BY <1>2, ShapeRun DEF C!DoRun
  <2>2. PICK ops : /\ Does(th, "run", ops)
                   /\ ops = IF C!Op(th).value[1] = "action"
                               THEN <<C!Lock(C!Ready), C!Link(C!Ready, <<"task", C!Op(th).value[2]>>), C!Unlock(C!Ready)>>
                             ELSE IF C!Op(th).value[1] = "chain"
                               THEN <<C!LockShared(C!Op(th).value[2]), C!EmplaceCurrent(C!Op(th).value[2], <<"action", C!Op(th).value[2]>>)>>
                             ELSE <<>>
    BY <1>2, ShapeRun
  <2>3. ops = <<>> \/ ops[1].do \in {"lock", "lock_shared"}
    BY <2>2 DEF C!Lock, C!LockShared
  <2>4. "run" \notin MidSteps /\ (ops = <<>> \/ ops[1].do \notin MidSteps)
    BY <2>3 DEF MidSteps
  <2> QED BY <2>1, <2>2, <2>4, CalmChains
<1>3. CASE C!DoEmplaceCurrent(th)
  <2>1. UNCHANGED <<C!queueVars, mutex>>
    BY <1>3 DEF C!DoEmplaceCurrent
  <2>2. PICK ops : ops = <<C!Lock(pointer[C!Op(th).event]), C!Link(pointer[C!Op(th).event], C!Op(th).value),
                           C!Unlock(pointer[C!Op(th).event]), C!Release(C!Op(th).event)>>
    OBVIOUS
  <2>3. Does(th, "emplace_current", ops)
    BY <1>3, <2>2, ShapeEmplaceCurrent
  <2>4. "emplace_current" \notin MidSteps /\ ops[1].do \notin MidSteps
    BY <2>2 DEF MidSteps, C!Lock
  <2> QED BY <2>1, <2>3, <2>4, CalmChains
<1>4. CASE C!DoExchange(th)
  <2>1. UNCHANGED <<C!queueVars, mutex>>
    BY <1>4 DEF C!DoExchange
  <2>2. PICK ops : ops = <<C!Release(C!Op(th).event), C!Lock(pointer[C!Op(th).event]), C!Take(pointer[C!Op(th).event], TRUE),
                           C!Destroy(pointer[C!Op(th).event])>>
    OBVIOUS
  <2>3. Does(th, "exchange", ops)
    BY <1>4, <2>2, ShapeExchange
  <2>4. "exchange" \notin MidSteps /\ ops[1].do \notin MidSteps
    BY <2>2 DEF MidSteps, C!Release
  <2> QED BY <2>1, <2>3, <2>4, CalmChains
<1>5. CASE C!DoLockShared(th) \/ C!DoLockUnique(th) \/ C!DoRelease(th) \/ C!DoDestroy(th)
  <2>1. UNCHANGED <<C!queueVars, mutex>>
    BY <1>5 DEF C!DoLockShared, C!DoLockUnique, C!DoRelease, C!DoDestroy
  <2>2. PICK ops : ops = <<>>
    OBVIOUS
  <2>3. PICK op \in {"lock_shared", "lock_unique", "release", "destroy"} : Does(th, op, ops)
    BY <1>5, <2>2, ShapePlain
  <2>4. op \notin MidSteps
    BY <2>3 DEF MidSteps
  <2> QED BY <2>1, <2>2, <2>3, <2>4, CalmChains
<1> QED BY <1>1, <1>2, <1>3, <1>4, <1>5

\* After every step there are lists again.
LEMMA StepChains ==
  ASSUME Core, NEW S, Chained(S), NEW th \in Threads, C!Step(th)
  PROVE  \E T : Chained(T)'
<1>1. CASE C!DoLink(th)
  BY <1>1, LinkChains
<1>2. CASE C!DoMoveTail(th) \/ C!DoTake(th) \/ C!DoPeak(th)
  <2>1. Chained(S)'
    BY <1>2, MoveTailChains, TakeChains, PeakChains
  <2> QED BY <2>1
<1>3. CASE C!DoSwapHead(th)
  BY <1>3, SwapHeadChains
<1>4. CASE C!DoDecide(th)
  BY <1>4, DecideChains
<1>5. CASE ~(C!DoLink(th) \/ C!DoMoveTail(th) \/ C!DoTake(th) \/ C!DoPeak(th) \/ C!DoSwapHead(th) \/ C!DoDecide(th))
  <2>1. Chained(S)'
    BY <1>5, OtherSteps DEF C!Step
  <2> QED BY <2>1
<1> QED BY <1>1, <1>2, <1>3, <1>4, <1>5

\* What a program may begin with, and what may follow what in it.
LEMMA ProgramSteps ==
  ASSUME NEW s, C!IsProgram(s), NEW k \in DOMAIN s
  PROVE  /\ s[k] \in Steps /\ s[k].do \notin MidSteps
         /\ s[k].do \in NeedsLock => /\ k > 1 /\ s[k].queue = C!Ready
                                     /\ \/ s[k - 1] = C!Lock(C!Ready)
                                        \/ s[k].do = "unlock" /\ \E v \in C!Values : s[k - 1] = C!Link(C!Ready, v)
<1> USE ReadyTypes
<1>1. CASE s[k] \in {C!Lock(C!Ready)} \cup {C!LockShared(e) : e \in C!Events} \cup {C!LockUnique(e) : e \in C!Events}
  <2>1. s[k] \in Steps
    BY <1>1 DEF Steps
  <2>2. s[k].do \in {"lock", "lock_shared", "lock_unique"}
    BY <1>1 DEF C!Lock, C!LockShared, C!LockUnique
  <2> QED BY <2>1, <2>2 DEF NeedsLock, MidSteps
<1>2. CASE k > 1 /\ s[k - 1] = C!Lock(C!Ready)
                 /\ s[k] \in {C!Take(C!Ready, FALSE), C!Peak(C!Ready)} \cup {C!Link(C!Ready, v) : v \in C!Values}
  <2>1. s[k] \in Steps
    <3>1. \A all \in BOOLEAN : C!Take(C!Ready, all) \in Steps
      BY DEF Steps
    <3>2. C!Take(C!Ready, FALSE) \in Steps
      BY <3>1, Zenon
    <3>3. C!Peak(C!Ready) \in Steps /\ \A v \in C!Values : C!Link(C!Ready, v) \in Steps
      BY MakesSteps DEF Steps
    <3> QED BY <1>2, <3>2, <3>3
  <2>2. s[k].do \in {"take", "peak", "link"} /\ s[k].queue = C!Ready
    BY <1>2 DEF C!Take, C!Peak, C!Link
  <2> QED BY <1>2, <2>1, <2>2 DEF MidSteps
<1>3. CASE k > 1 /\ s[k - 1] \in {C!Link(C!Ready, v) : v \in C!Values} /\ s[k] = C!Unlock(C!Ready)
  <2>1. s[k] \in Steps
    BY <1>3 DEF Steps
  <2>2. s[k].do = "unlock" /\ s[k].queue = C!Ready
    BY <1>3 DEF C!Unlock
  <2> QED BY <1>3, <2>1, <2>2 DEF MidSteps
<1>4. CASE \E e \in C!Events : s[k] \in {C!EmplaceCurrent(e, v) : v \in C!Values} \cup {C!Exchange(e)}
  <2>1. s[k] \in Steps
    BY <1>4 DEF Steps
  <2>2. s[k].do \in {"emplace_current", "exchange"}
    BY <1>4 DEF C!EmplaceCurrent, C!Exchange
  <2> QED BY <2>1, <2>2 DEF NeedsLock, MidSteps
<1> QED BY <1>1, <1>2, <1>3, <1>4 DEF C!IsProgram

\* At first nothing is locked, and every call of a program locks before it does anything.
LEMMA InitCore == C!Init => Core
<1> SUFFICES ASSUME C!Init PROVE Core
  OBVIOUS
<1>1. /\ agenda \in Scenarios /\ agenda = [th \in Threads |-> agenda[th]]
      /\ \A th \in Threads : C!IsSequence(agenda[th]) /\ C!IsProgram(agenda[th])
  BY ContainersAssumption DEF C!Init, C!Assumptions
<1>2. ASSUME NEW th \in Threads
      PROVE  /\ agenda[th] \in Seq(Steps) /\ DOMAIN agenda[th] = 1..Len(agenda[th]) /\ Len(agenda[th]) \in Nat
  <2>1. PICK s : s = agenda[th]
    OBVIOUS
  <2>2. PICK n : n = Len(s)
    OBVIOUS
  <2>3. n \in Nat /\ s = [k \in 1..n |-> s[k]] /\ C!IsProgram(s)
    BY <1>1, <2>1, <2>2 DEF C!IsSequence
  <2>4. DOMAIN s = 1..n
    BY <2>3
  <2>5. \A k \in 1..n : s[k] \in Steps
    BY <2>3, <2>4, ProgramSteps
  <2>6. s \in [1..n -> Steps]
    BY <2>3, <2>5
  <2>7. s \in Seq(Steps)
    BY <2>3, <2>6
  <2> QED BY <2>1, <2>2, <2>3, <2>4, <2>7
<1>3. agenda \in [Threads -> Seq(Steps)]
  BY <1>1, <1>2
<1>4. FieldTypes /\ PointerTypes
  BY BoundTypes, ReadyTypes, ContainersAssumption DEF C!Init, FieldTypes, PointerTypes, C!FirstActions, C!Queues, C!Events, C!Assumptions
<1>5. MidFirst
  BY <1>1, <1>2, ProgramSteps DEF MidFirst
<1>6. Sections
  <2> SUFFICES ASSUME NEW th \in Threads, NEW k \in DOMAIN agenda[th], agenda[th][k].do \in NeedsLock
               PROVE  Within(agenda[th], Held(th), k)
    BY DEF Sections, InSections
  <2>1. PICK s : s = agenda[th]
    OBVIOUS
  <2>2. PICK n : n = Len(s)
    OBVIOUS
  <2>3. n \in Nat /\ DOMAIN s = 1..n /\ C!IsProgram(s) /\ k \in 1..n /\ s[k].do \in NeedsLock
    BY <1>1, <1>2, <2>1, <2>2
  <2>4. /\ k > 1 /\ s[k].queue = C!Ready
        /\ \/ s[k - 1] = C!Lock(C!Ready)
           \/ s[k].do = "unlock" /\ \E v \in C!Values : s[k - 1] = C!Link(C!Ready, v)
    BY <2>3, ProgramSteps
  <2>5. CASE s[k - 1] = C!Lock(C!Ready)
    <3>1. k - 1 \in 1..(k - 1) /\ \A m \in (k - 1 + 1)..(k - 1) : FALSE
      BY <2>3, <2>4
    <3>2. NoEnd(s, k - 1 + 1, k - 1, s[k].queue)
      BY <3>1 DEF NoEnd
    <3> QED BY <2>1, <2>4, <2>5, <3>1, <3>2 DEF Within
  <2>6. CASE \E v \in C!Values : s[k - 1] = C!Link(C!Ready, v)
    <3>1. s[k - 1].do = "link"
      BY <2>6 DEF C!Link
    <3>2. k - 1 \in DOMAIN s
      BY <2>3, <2>4
    <3>3. k - 1 > 1 /\ s[(k - 1) - 1] = C!Lock(C!Ready)
      BY <2>3, <3>1, <3>2, ProgramSteps DEF NeedsLock
    <3>4. k - 2 \in 1..(k - 1) /\ s[k - 2] = C!Lock(s[k].queue) /\ \A m \in (k - 2 + 1)..(k - 1) : m = k - 1
      BY <2>3, <2>4, <3>3
    <3>5. NoEnd(s, k - 2 + 1, k - 1, s[k].queue)
      BY <3>1, <3>4 DEF NoEnd, Ends
    <3> QED BY <2>1, <3>4, <3>5 DEF Within
  <2> QED BY <2>4, <2>5, <2>6
<1> QED BY <1>3, <1>4, <1>5, <1>6 DEF Core, QueueTypes

\* The queues are empty.
LEMMA InitChains == C!Init => Chained([q \in C!Queues |-> <<>>])
<1> SUFFICES ASSUME C!Init PROVE Chained([q \in C!Queues |-> <<>>])
  OBVIOUS
<1>1. PICK S : S = [q \in C!Queues |-> <<>>]
  OBVIOUS
<1>2. \A q \in C!Queues : S[q] = <<>> /\ Len(S[q]) = 0 /\ 1..Len(S[q]) = {}
  BY <1>1
<1>3. S \in [C!Queues -> Seq(C!Nodes)]
  BY <1>1
<1>4. NodesIn(S) /\ FreshUnlinked
  BY <1>2, <1>3 DEF NodesIn, FreshUnlinked, C!Init
<1>5. \A q \in C!Queues : mutex[q] \notin Threads /\ head[q] = C!Null /\ tail[q] = C!Null
  BY ContainersAssumption DEF C!Init, C!Assumptions
<1>6. \A q \in C!Queues : QueueChained(S, q)
  BY <1>2, <1>5 DEF QueueChained, At
<1> QED BY <1>1, <1>4, <1>6, ChainedParts

\* The queues are lists, whatever the threads are in the middle of.
Listed == Core /\ \E S : Chained(S)

\* consume_one, peak_and_pop_if and emplace, interleaved in any way, keep the
\* queues lists: emplace finds the node to link behind, whatever others do.
THEOREM ListedInvariant == Calling => []Listed
<1>1. C!Init => Listed
  BY InitCore, InitChains DEF Listed
<1>2. Listed /\ [C!Next]_(C!vars) => Listed'
  <2> SUFFICES ASSUME Listed, [C!Next]_(C!vars) PROVE Listed'
    OBVIOUS
  <2>1. PICK S : Chained(S)
    BY DEF Listed
  <2>2. CASE C!Next
    <3>1. PICK th \in Threads : C!Step(th)
      BY <2>2 DEF C!Next
    <3> QED BY <2>1, <3>1, CoreKept, StepChains DEF Listed
  <2>3. CASE UNCHANGED C!vars
    <3>1. UNCHANGED <<C!queueVars, mutex, agenda>>
      BY <2>3 DEF C!vars
    <3>2. Core'
      BY <2>3 DEF Listed, Core, QueueTypes, FieldTypes, PointerTypes, Sections, Held, MidFirst, C!vars, C!queueVars, C!pointerVars
    <3>3. Chained(S)'
      BY <2>1, <3>1 DEF Chained, NodesIn, Linked, Tails, Valued, At, C!IsNext, C!Op, C!queueVars
    <3> QED BY <3>2, <3>3 DEF Listed
  <2> QED BY <2>2, <2>3
<1> QED BY <1>1, <1>2, PTL DEF Calling

\* TailIsLast, which emplace asserts of tail_, for any threads, queues, nodes and
\* scenarios: under the lock tail_ is the last node of the chain from head_.
THEOREM TailFollows == ContainersSpec => []TailIsLast
<1>1. Listed => TailIsLast
  BY ChainedTails DEF Listed, TailIsLast
<1> QED BY <1>1, ContainersCall, ListedInvariant, PTL

\* What Links, Takes and Destroys say of the k-th step of an agenda.
LinkOk(s, k, th) ==
  /\ s[k].do = "link" =>
       \/ s[k].queue = C!Ready
       \/ /\ \E e \in C!Events : pointer[e] = s[k].queue /\ th \in readers[e]
          /\ k = 1 \/ (k = 2 /\ s[1] = C!Lock(s[k].queue))
  /\ s[k].do = "emplace_current" =>
       IF k = 1 THEN th \in readers[s[k].event] ELSE s[k - 1] = C!LockShared(s[k].event)
  /\ s[k].do = "exchange" =>
       IF k = 1 THEN writer[s[k].event] = th ELSE s[k - 1] = C!LockUnique(s[k].event)

\* What is taken is in a queue that was made and is no event's.
TakeOk(o) ==
  o.do \in {"take", "swap_head", "peak", "decide"} => o.queue <= queues /\ o.queue \notin Current

\* A queue that was made, that nobody attaches to and that still exists.
Doomed(q) == q <= queues /\ q \notin {C!Ready} \cup Current \cup destroyed

\* What is destroyed is doomed, and drained first.
DestroyOk(s, k) ==
  s[k].do = "destroy" =>
    /\ Doomed(s[k].queue)
    /\ \/ k > 1 /\ s[k - 1] = C!Take(s[k].queue, TRUE)
       \/ head[s[k].queue] = C!Null /\ (k = 1 \/ (k = 2 /\ s[1] = C!Unlock(s[k].queue)))

\* What is destroyed was made, and is no event's.
Gone == \A q \in destroyed : q <= queues /\ q \notin Current

\* The parts of Own, one step of an agenda at a time,
LEMMA Positions ==
  /\ Links <=> \A th \in Threads : \A k \in DOMAIN agenda[th] : LinkOk(agenda[th], k, th)
  /\ Takes <=> \A th \in Threads : \A k \in DOMAIN agenda[th] : TakeOk(agenda[th][k])
  /\ Destroys <=> \A th \in Threads : \A k \in DOMAIN agenda[th] : DestroyOk(agenda[th], k)
<1>1. Links <=> \A th \in Threads : \A k \in DOMAIN agenda[th] : LinkOk(agenda[th], k, th)
  BY Zenon DEF Links, LinkOk
<1>2. Takes <=> \A th \in Threads : \A k \in DOMAIN agenda[th] : TakeOk(agenda[th][k])
  BY Zenon DEF Takes, TakeOk
<1>3. Destroys <=> \A th \in Threads : \A k \in DOMAIN agenda[th] : DestroyOk(agenda[th], k)
  BY Zenon DEF Destroys, DestroyOk, Doomed
<1> QED BY <1>1, <1>2, <1>3

\* and the same after an action.
LEMMA PositionsNext ==
  /\ (\A th \in Threads : \A k \in DOMAIN agenda'[th] : LinkOk(agenda[th], k, th)') => Links'
  /\ (\A th \in Threads : \A k \in DOMAIN agenda'[th] : TakeOk(agenda[th][k])') => Takes'
  /\ (\A th \in Threads : \A k \in DOMAIN agenda'[th] : DestroyOk(agenda[th], k)') => Destroys'
<1>1. (\A th \in Threads : \A k \in DOMAIN agenda'[th] : LinkOk(agenda[th], k, th)') => Links'
  BY Zenon DEF Links, LinkOk
<1>2. (\A th \in Threads : \A k \in DOMAIN agenda'[th] : TakeOk(agenda[th][k])') => Takes'
  BY Zenon DEF Takes, TakeOk
<1>3. (\A th \in Threads : \A k \in DOMAIN agenda'[th] : DestroyOk(agenda[th], k)') => Destroys'
  BY Zenon DEF Destroys, DestroyOk, Doomed
<1> QED BY <1>1, <1>2, <1>3

\* A place behind the n-th is the next one or a later one.
LEMMA After == \A n, k \in Nat : k > n => k = n + 1 \/ k > n + 1
OBVIOUS

\* Where a step on an agenda comes from: it was made, or was behind the one that was done.
LEMMA Origins ==
  ASSUME Core, NEW th \in Threads, NEW op, NEW ops, Does(th, op, ops), NEW n, n = Len(ops),
         NEW k \in DOMAIN agenda'[th]
  PROVE  /\ n \in Nat /\ k \in Nat /\ k >= 1
         /\ \/ k \in 1..n /\ agenda'[th][k] = ops[k]
            \/ /\ k > n /\ k - n + 1 \in DOMAIN agenda[th] /\ k - n + 1 > 1
               /\ agenda'[th][k] = agenda[th][k - n + 1]
               /\ \/ k = n + 1
                  \/ k > n + 1 /\ k - n > 1 /\ agenda'[th][k - 1] = agenda[th][k - n]
<1>1. PICK s : s = agenda[th]
  OBVIOUS
<1>2. PICK t : t = agenda'[th]
  OBVIOUS
<1>3. PICK ls : ls = Len(s)
  OBVIOUS
<1>4. PICK lt : lt = Len(t)
  OBVIOUS
<1>5. /\ n \in Nat /\ ls \in Nat \ {0} /\ lt = n + ls - 1
      /\ DOMAIN s = 1..ls /\ DOMAIN t = 1..lt
      /\ \A i \in 1..n : t[i] = ops[i]
      /\ \A i \in (n + 1)..lt : t[i] = s[i - n + 1]
  <2>1. s \in Seq(Steps) /\ s # <<>>
    BY <1>1, NextStep DEF Does
  <2>2. ops \in Seq(Steps) /\ t = ops \o Tail(s)
    BY <1>1, <1>2, Agendas DEF Does
  <2>3. /\ n \in Nat /\ Len(s) \in Nat \ {0} /\ Len(t) = n + Len(s) - 1
        /\ DOMAIN s = 1..Len(s) /\ DOMAIN t = 1..Len(t)
        /\ \A i \in 1..n : t[i] = ops[i]
        /\ \A i \in (n + 1)..Len(t) : t[i] = s[i - n + 1]
    BY <2>1, <2>2, Spliced
  <2> QED BY <1>3, <1>4, <2>3, Zenon
<1>6. k \in 1..lt /\ k \in Nat /\ k >= 1
  BY <1>2, <1>5
<1>7. CASE k <= n
  <2>1. k \in 1..n
    BY <1>5, <1>6, <1>7
  <2> QED BY <1>2, <1>5, <1>6, <2>1
<1>8. CASE k > n
  <2>1. k \in (n + 1)..lt /\ k - n + 1 \in 1..ls /\ k - n + 1 > 1 /\ (k > n + 1 => k - n > 1 /\ k - 1 \in (n + 1)..lt /\ (k - 1) - n + 1 = k - n)
    BY <1>5, <1>6, <1>8
  <2>2. k = n + 1 \/ k > n + 1
    BY <1>5, <1>6, <1>8, After
  <2>3. t[k] = s[k - n + 1]
    BY <1>5, <2>1
  <2>4. k > n + 1 => t[k - 1] = s[k - n]
    BY <1>5, <2>1
  <2> QED BY <1>1, <1>2, <1>5, <1>6, <1>8, <2>1, <2>2, <2>3, <2>4
<1>9. k <= n \/ k > n
  BY <1>5, <1>6
<1> QED BY <1>7, <1>8, <1>9

\* Pointers stay held while there is something to do behind them.
LEMMA LinksStay ==
  ASSUME Core, Links, NEW th \in Threads, NEW op, NEW ops, Does(th, op, ops),
         \A ot \in Threads, e \in C!Events : ot # th =>
           /\ ot \in readers[e] => ot \in readers'[e] /\ pointer'[e] = pointer[e]
           /\ writer[e] = ot => writer'[e] = ot,
         op = "lock" => ops = <<>> /\ pointer' = pointer /\ readers' = readers,
         op = "lock_shared" => ops = <<>> /\ th \in readers'[C!Op(th).event],
         op = "lock_unique" => ops = <<>> /\ writer'[C!Op(th).event] = th,
         \A k \in 1..Len(ops) : LinkOk(ops, k, th)'
  PROVE  Links'
<1> SUFFICES ASSUME NEW ot \in Threads, NEW k \in DOMAIN agenda'[ot] PROVE LinkOk(agenda[ot], k, ot)'
  BY PositionsNext
<1>1. PICK s : s = agenda[ot]
  OBVIOUS
<1>2. PICK t : t = agenda'[ot]
  OBVIOUS
<1>3. \A m \in DOMAIN s : LinkOk(s, m, ot)
  BY <1>1, Positions
<1>g. ASSUME LinkOk(t, k, ot)' PROVE LinkOk(agenda[ot], k, ot)'
  BY <1>2, <1>g DEF LinkOk
<1>4. CASE ot # th
  <2>1. t = s
    BY <1>1, <1>2, <1>4, Agendas
  <2>2. LinkOk(s, k, ot) /\ s \in Seq(Steps) /\ s[k] \in Steps
    BY <1>1, <1>2, <1>3, <2>1 DEF Core, QueueTypes
  <2>3. s[k].do \in {"emplace_current", "exchange"} => s[k].event \in C!Events
    BY <2>2, StepKinds
  <2>4. LinkOk(s, k, ot)'
    BY <1>4, <2>2, <2>3 DEF LinkOk
  <2> QED BY <1>g, <2>1, <2>4
<1>5. CASE ot = th
  <2>1. PICK n : n = Len(ops)
    OBVIOUS
  <2>2. /\ n \in Nat /\ k \in Nat /\ k >= 1
        /\ \/ k \in 1..n /\ t[k] = ops[k]
           \/ /\ k > n /\ k - n + 1 \in DOMAIN s /\ k - n + 1 > 1
              /\ t[k] = s[k - n + 1]
              /\ \/ k = n + 1
                 \/ k > n + 1 /\ k - n > 1 /\ t[k - 1] = s[k - n]
    <3>1. k \in DOMAIN agenda'[th]
      BY <1>5
    <3>2. /\ n \in Nat /\ k \in Nat /\ k >= 1
          /\ \/ k \in 1..n /\ agenda'[th][k] = ops[k]
             \/ /\ k > n /\ k - n + 1 \in DOMAIN agenda[th] /\ k - n + 1 > 1
                /\ agenda'[th][k] = agenda[th][k - n + 1]
                /\ \/ k = n + 1
                   \/ k > n + 1 /\ k - n > 1 /\ agenda'[th][k - 1] = agenda[th][k - n]
      BY <2>1, <3>1, Origins
    <3> QED BY <1>1, <1>2, <1>5, <3>2
  <2>3. \A i \in 1..n : t[i] = ops[i]
    BY <1>2, <1>5, <2>1, AgendaOf
  <2>4. CASE k \in 1..n
    <3>1. LinkOk(ops, k, th)' /\ 1 \in 1..n /\ (k = 1 \/ k - 1 \in 1..n)
      BY <2>1, <2>2, <2>4
    <3>2. LinkOk(t, k, th)'
      BY <2>3, <2>4, <3>1 DEF LinkOk
    <3> QED BY <1>5, <1>g, <3>2
  <2>5. CASE k = n + 1
    <3>1. t[k] = s[2] /\ 2 \in DOMAIN s /\ LinkOk(s, 2, th)
      BY <1>3, <1>5, <2>2, <2>5
    <3>2. s[1] = C!Op(th) /\ C!Op(th).do = op /\ C!Op(th) \in Steps
      BY <1>1, <1>5, NextStep DEF Does
    <3>3. op = "lock" \/ op = "lock_shared" \/ op = "lock_unique" => n = 0
      BY <2>1
    <3>4. t[k].do = "link" => t[k].queue = C!Ready \/ (/\ \E e \in C!Events : pointer'[e] = t[k].queue /\ th \in readers'[e]
                                                      /\ k = 1)
      <4> SUFFICES ASSUME t[k].do = "link", t[k].queue # C!Ready
                   PROVE  (\E e \in C!Events : pointer'[e] = t[k].queue /\ th \in readers'[e]) /\ k = 1
        OBVIOUS
      <4>1. s[1] = C!Lock(t[k].queue) /\ \E e \in C!Events : pointer[e] = t[k].queue /\ th \in readers[e]
        BY <3>1 DEF LinkOk
      <4>2. op = "lock"
        BY <3>2, <4>1 DEF C!Lock
      <4> QED BY <2>5, <3>3, <4>1, <4>2
    <3>5. t[k].do = "emplace_current" => k = 1 /\ th \in readers'[t[k].event]
      <4> SUFFICES ASSUME t[k].do = "emplace_current" PROVE k = 1 /\ th \in readers'[t[k].event]
        OBVIOUS
      <4>1. s[1] = C!LockShared(t[k].event)
        BY <3>1 DEF LinkOk
      <4>2. op = "lock_shared" /\ C!Op(th).event = t[k].event
        BY <3>2, <4>1 DEF C!LockShared
      <4> QED BY <2>5, <3>3, <4>2
    <3>6. t[k].do = "exchange" => k = 1 /\ writer'[t[k].event] = th
      <4> SUFFICES ASSUME t[k].do = "exchange" PROVE k = 1 /\ writer'[t[k].event] = th
        OBVIOUS
      <4>1. s[1] = C!LockUnique(t[k].event)
        BY <3>1 DEF LinkOk
      <4>2. op = "lock_unique" /\ C!Op(th).event = t[k].event
        BY <3>2, <4>1 DEF C!LockUnique
      <4> QED BY <2>5, <3>3, <4>2
    <3>7. LinkOk(t, k, th)'
      BY <3>4, <3>5, <3>6 DEF LinkOk
    <3> QED BY <1>5, <1>g, <3>7
  <2>6. CASE k > n + 1
    <3>1. PICK m : m = k - n + 1
      OBVIOUS
    <3>2. m \in DOMAIN s /\ m > 2 /\ m \in Nat /\ k > 1 /\ m # 1 /\ m # 2 /\ k # 1 /\ m - 1 = k - n
      BY <2>2, <2>6, <3>1
    <3>3. t[k] = s[m] /\ t[k - 1] = s[m - 1] /\ LinkOk(s, m, th)
      BY <1>3, <1>5, <2>2, <2>6, <3>1, <3>2
    <3>4. /\ t[k].do = "link" => t[k].queue = C!Ready
          /\ t[k].do = "emplace_current" => t[k - 1] = C!LockShared(t[k].event)
          /\ t[k].do = "exchange" => t[k - 1] = C!LockUnique(t[k].event)
      BY <3>2, <3>3 DEF LinkOk
    <3>5. LinkOk(t, k, th)'
      BY <3>2, <3>4 DEF LinkOk
    <3> QED BY <1>5, <1>g, <3>5
  <2> QED BY <2>2, <2>4, <2>5, <2>6
<1> QED BY <1>4, <1>5

\* Nothing is taken from what an event has just been given.
LEMMA TakesStay ==
  ASSUME Core, Takes, NEW th \in Threads, NEW op, NEW ops, Does(th, op, ops),
         \A q \in C!Queues : q <= queues => q <= queues' /\ (q \notin Current => q \notin Current'),
         \A k \in 1..Len(ops) : TakeOk(ops[k])'
  PROVE  Takes'
<1> SUFFICES ASSUME NEW ot \in Threads, NEW k \in DOMAIN agenda'[ot] PROVE TakeOk(agenda[ot][k])'
  BY PositionsNext
<1>1. ASSUME NEW m \in DOMAIN agenda[ot], agenda'[ot][k] = agenda[ot][m] PROVE TakeOk(agenda[ot][k])'
  <2>1. PICK o : o = agenda[ot][m]
    OBVIOUS
  <2>2. TakeOk(o) /\ o \in Steps
    BY <2>1, Positions DEF Core, QueueTypes
  <2>3. o.do \in {"take", "swap_head", "peak", "decide"} => o.queue \in C!Queues
    BY <2>2, StepKinds
  <2> QED BY <1>1, <2>1, <2>2, <2>3 DEF TakeOk
<1>2. CASE ot # th
  BY <1>1, <1>2, Agendas
<1>3. CASE ot = th
  <2>1. PICK n : n = Len(ops)
    OBVIOUS
  <2>2. \/ k \in 1..n /\ agenda'[th][k] = ops[k]
        \/ k - n + 1 \in DOMAIN agenda[th] /\ agenda'[th][k] = agenda[th][k - n + 1]
    <3>1. k \in DOMAIN agenda'[th]
      BY <1>3
    <3> HIDE <1>1
    <3> QED BY <2>1, <3>1, Origins
  <2>3. CASE k \in 1..n /\ agenda'[th][k] = ops[k]
    <3>1. TakeOk(ops[k])'
      BY <2>1, <2>3
    <3> QED BY <1>3, <2>3, <3>1 DEF TakeOk
  <2> QED BY <1>1, <1>3, <2>2, <2>3
<1> QED BY <1>2, <1>3

\* What is said of a queue that will be destroyed stays true of it.
Kept(q) ==
  Doomed(q) => Doomed(q)' /\ (head[q] = C!Null => head'[q] = C!Null)

\* consume_all goes on until the queue is empty.
GoesOn(th, ops) ==
  \A q : C!Op(th) = C!Take(q, TRUE) => \/ ops = <<C!Unlock(q)>> /\ head'[q] = C!Null
                                       \/ ops # <<>> /\ ops[Len(ops)] = C!Take(q, TRUE)

\* The first steps on the agenda are those that were made.
LEMMA Made ==
  ASSUME Core, NEW th \in Threads, NEW op, NEW ops, Does(th, op, ops), NEW n, n = Len(ops)
  PROVE  \A i \in 1..n : agenda'[th][i] = ops[i]
BY AgendaOf

\* What a thread will destroy is empty by then.
LEMMA DestroysStay ==
  ASSUME Core, Destroys, NEW th \in Threads, NEW op, NEW ops, Does(th, op, ops),
         \A ot \in Threads : \A k \in DOMAIN agenda[ot] :
           (ot # th \/ k > 1) /\ agenda[ot][k].do = "destroy" => Kept(agenda[ot][k].queue),
         GoesOn(th, ops),
         op = "unlock" => ops = <<>>,
         \A k \in 1..Len(ops) : DestroyOk(ops, k)'
  PROVE  Destroys'
<1> SUFFICES ASSUME NEW ot \in Threads, NEW k \in DOMAIN agenda'[ot] PROVE DestroyOk(agenda[ot], k)'
  BY PositionsNext
<1>1. PICK s : s = agenda[ot]
  OBVIOUS
<1>2. PICK t : t = agenda'[ot]
  OBVIOUS
<1>3. \A m \in DOMAIN s : DestroyOk(s, m)
  BY <1>1, Positions
<1>g. ASSUME DestroyOk(t, k)' PROVE DestroyOk(agenda[ot], k)'
  BY <1>2, <1>g DEF DestroyOk
<1>4. CASE ot # th
  <2>1. t = s
    BY <1>1, <1>2, <1>4, Agendas
  <2>2. DestroyOk(s, k) /\ (s[k].do = "destroy" => Kept(s[k].queue))
    BY <1>1, <1>2, <1>3, <1>4, <2>1
  <2>3. DestroyOk(s, k)'
    BY <2>2 DEF DestroyOk, Kept
  <2> QED BY <1>g, <2>1, <2>3
<1>5. CASE ot = th
  <2>1. PICK n : n = Len(ops)
    OBVIOUS
  <2>2. /\ n \in Nat /\ k \in Nat /\ k >= 1
        /\ \/ k \in 1..n /\ t[k] = ops[k]
           \/ /\ k > n /\ k - n + 1 \in DOMAIN s /\ k - n + 1 > 1
              /\ t[k] = s[k - n + 1]
              /\ \/ k = n + 1
                 \/ k > n + 1 /\ k - n > 1 /\ t[k - 1] = s[k - n]
    <3>1. k \in DOMAIN agenda'[th]
      BY <1>5
    <3>2. /\ n \in Nat /\ k \in Nat /\ k >= 1
          /\ \/ k \in 1..n /\ agenda'[th][k] = ops[k]
             \/ /\ k > n /\ k - n + 1 \in DOMAIN agenda[th] /\ k - n + 1 > 1
                /\ agenda'[th][k] = agenda[th][k - n + 1]
                /\ \/ k = n + 1
                   \/ k > n + 1 /\ k - n > 1 /\ agenda'[th][k - 1] = agenda[th][k - n]
      BY <2>1, <3>1, Origins
    <3> QED BY <1>1, <1>2, <1>5, <3>2
  <2>3. \A i \in 1..n : t[i] = ops[i]
    <3>1. \A i \in 1..n : agenda'[th][i] = ops[i]
      BY <2>1, Made
    <3> QED BY <1>2, <1>5, <3>1
  <2>4. CASE k \in 1..n
    <3>1. DestroyOk(ops, k)' /\ 1 \in 1..n /\ (k = 1 \/ k - 1 \in 1..n)
      BY <2>1, <2>2, <2>4
    <3>2. DestroyOk(t, k)'
      <4>1. t[k] = ops[k] /\ t[1] = ops[1] /\ (k # 1 => t[k - 1] = ops[k - 1])
        BY <2>3, <2>4, <3>1
      <4>2. CASE k = 1
        BY <3>1, <4>1, <4>2 DEF DestroyOk, Doomed
      <4>3. CASE k # 1
        BY <3>1, <4>1, <4>3 DEF DestroyOk, Doomed
      <4> QED BY <4>2, <4>3
    <3> QED BY <1>g, <3>2
  <2>5. CASE k = n + 1
    <3>1. t[k] = s[2] /\ 2 \in DOMAIN s /\ DestroyOk(s, 2)
      BY <1>3, <1>5, <2>2, <2>5
    <3>2. s[1] = C!Op(th) /\ C!Op(th).do = op
      BY <1>1, <1>5, NextStep DEF Does
    <3> SUFFICES ASSUME t[k].do = "destroy" PROVE DestroyOk(t, k)'
      BY <1>g DEF DestroyOk
    <3>3. PICK q : q = t[k].queue
      OBVIOUS
    <3>4. /\ Doomed(q) /\ Kept(q)
          /\ s[1] = C!Take(q, TRUE) \/ (head[q] = C!Null /\ s[1] = C!Unlock(q))
      <4>1. PICK j : j = 2
        OBVIOUS
      <4>2. s[j].do = "destroy" /\ s[j].queue = q /\ j \in DOMAIN agenda[th] /\ j > 1 /\ DestroyOk(s, j) /\ j - 1 = 1 /\ j # 1
        BY <1>1, <1>5, <3>1, <3>3, <4>1
      <4>3. Kept(q)
        BY <1>1, <1>5, <4>2
      <4>4. Doomed(q) /\ (s[j - 1] = C!Take(q, TRUE) \/ (head[q] = C!Null /\ s[1] = C!Unlock(q)))
        BY <4>2 DEF DestroyOk
      <4> QED BY <4>2, <4>3, <4>4
    <3>5. Doomed(q)'
      BY <3>4 DEF Kept
    <3>6. CASE s[1] = C!Take(q, TRUE)
      <4>1. CASE ops = <<C!Unlock(q)>> /\ head'[q] = C!Null
        <5>1. n = 1 /\ ops[1] = C!Unlock(q)
          BY <2>1, <4>1
        <5>2. k = 2 /\ t[1] = C!Unlock(q)
          BY <2>3, <2>5, <5>1
        <5> QED BY <3>3, <3>5, <4>1, <5>2 DEF DestroyOk
      <4>2. CASE ops # <<>> /\ ops[n] = C!Take(q, TRUE)
        <5>1. n # 0
          BY <2>1, <4>2 DEF Does
        <5>2. n \in 1..n /\ k > 1 /\ k - 1 = n
          BY <2>2, <2>5, <5>1
        <5>3. t[k - 1] = C!Take(q, TRUE)
          BY <2>3, <4>2, <5>2
        <5> QED BY <3>3, <3>5, <5>2, <5>3 DEF DestroyOk
      <4> QED BY <2>1, <3>2, <3>6, <4>1, <4>2 DEF GoesOn
    <3>7. CASE head[q] = C!Null /\ s[1] = C!Unlock(q)
      <4>1. op = "unlock"
        BY <3>2, <3>7 DEF C!Unlock
      <4>2. n = 0
        BY <2>1, <4>1
      <4>3. k = 1 /\ head'[q] = C!Null
        BY <2>5, <3>4, <3>7, <4>2 DEF Kept
      <4> QED BY <3>3, <3>5, <4>3 DEF DestroyOk
    <3> QED BY <3>4, <3>6, <3>7
  <2>6. CASE k > n + 1
    <3>1. PICK m : m = k - n + 1
      OBVIOUS
    <3>2. m \in DOMAIN s /\ m > 1 /\ m \in Nat /\ k > 1 /\ m # 1 /\ m # 2 /\ m - 1 = k - n
      BY <2>2, <2>6, <3>1
    <3>3. t[k] = s[m] /\ t[k - 1] = s[m - 1] /\ DestroyOk(s, m)
      BY <1>3, <2>2, <2>6, <3>1, <3>2
    <3> SUFFICES ASSUME t[k].do = "destroy" PROVE DestroyOk(t, k)'
      BY <1>g DEF DestroyOk
    <3>4. Doomed(t[k].queue) /\ t[k - 1] = C!Take(t[k].queue, TRUE)
      BY <3>2, <3>3 DEF DestroyOk
    <3>5. Kept(t[k].queue)
      BY <1>1, <1>5, <3>2, <3>3
    <3> QED BY <3>2, <3>4, <3>5 DEF DestroyOk, Kept
  <2> QED BY <2>2, <2>4, <2>5, <2>6
<1> QED BY <1>4, <1>5

\* A step on an agenda was made, or was on it before.
LEMMA OldOrNew ==
  ASSUME Core, NEW th \in Threads, NEW op, NEW ops, Does(th, op, ops), NEW n, n = Len(ops),
         NEW ot \in Threads, NEW k \in DOMAIN agenda'[ot]
  PROVE  \/ ot = th /\ k \in 1..n /\ agenda'[ot][k] = ops[k]
         \/ \E j \in DOMAIN agenda[ot] : /\ agenda'[ot][k] = agenda[ot][j]
                                         /\ ot = th => j > 1
                                         /\ j = IF ot = th THEN k - n + 1 ELSE k
<1>1. CASE ot # th
  <2>1. agenda'[ot] = agenda[ot]
    BY <1>1, Agendas
  <2> QED BY <1>1, <2>1
<1>2. CASE ot = th
  <2>1. \/ k \in 1..n /\ agenda'[th][k] = ops[k]
        \/ k - n + 1 \in DOMAIN agenda[th] /\ k - n + 1 > 1 /\ agenda'[th][k] = agenda[th][k - n + 1]
    BY <1>2, Origins
  <2> QED BY <1>2, <2>1
<1> QED BY <1>1, <1>2

\* What comes from the same place is in the same place.
LEMMA SameShift == \A a, b, n \in Nat : a - n + 1 = b - n + 1 => a = b
OBVIOUS

\* A queue is destroyed in one place.
LEMMA OnceStays ==
  ASSUME Core, DestroyedOnce, NEW th \in Threads, NEW op, NEW ops, Does(th, op, ops),
         \A i \in 1..Len(ops) : ops[i].do = "destroy" =>
           /\ \A j \in 1..Len(ops) : ops[j] = ops[i] => j = i
           /\ \A ot \in Threads : \A k \in DOMAIN agenda[ot] : agenda[ot][k] # ops[i]
  PROVE  DestroyedOnce'
<1>1. PICK n : n = Len(ops)
  OBVIOUS
<1> SUFFICES ASSUME NEW a \in Threads, NEW b \in Threads, NEW k \in DOMAIN agenda'[a], NEW m \in DOMAIN agenda'[b],
                    agenda'[a][k].do = "destroy", agenda'[a][k] = agenda'[b][m]
             PROVE  a = b /\ k = m
  BY DEF DestroyedOnce
<1>2. n \in Nat /\ (a = th => k \in Nat) /\ (b = th => m \in Nat)
  BY <1>1, Origins
<1>3. PICK o : o = agenda'[a][k]
  OBVIOUS
<1>4. \/ a = th /\ k \in 1..n /\ o = ops[k]
      \/ \E j \in DOMAIN agenda[a] : o = agenda[a][j] /\ j = IF a = th THEN k - n + 1 ELSE k
  BY <1>1, <1>3, OldOrNew
<1>5. \/ b = th /\ m \in 1..n /\ o = ops[m]
      \/ \E j \in DOMAIN agenda[b] : o = agenda[b][j] /\ j = IF b = th THEN m - n + 1 ELSE m
  BY <1>1, <1>3, OldOrNew
<1>6. CASE a = th /\ k \in 1..n /\ o = ops[k]
  <2>1. \A ot \in Threads : \A i \in DOMAIN agenda[ot] : agenda[ot][i] # o
    BY <1>1, <1>3, <1>6
  <2>2. b = th /\ m \in 1..n /\ o = ops[m]
    BY <1>5, <2>1
  <2> QED BY <1>1, <1>3, <1>6, <2>2
<1>7. CASE b = th /\ m \in 1..n /\ o = ops[m]
  <2>1. \A ot \in Threads : \A i \in DOMAIN agenda[ot] : agenda[ot][i] # o
    BY <1>1, <1>3, <1>7
  <2>2. a = th /\ k \in 1..n /\ o = ops[k]
    BY <1>4, <2>1
  <2> QED BY <1>1, <1>3, <1>7, <2>2
<1>8. ASSUME NEW i \in DOMAIN agenda[a], o = agenda[a][i], i = IF a = th THEN k - n + 1 ELSE k,
             NEW j \in DOMAIN agenda[b], o = agenda[b][j], j = IF b = th THEN m - n + 1 ELSE m
      PROVE  a = b /\ k = m
  <2>1. a = b /\ i = j
    <3>1. agenda[a][i].do = "destroy" /\ agenda[a][i] = agenda[b][j]
      BY <1>3, <1>8
    <3>2. \A x \in DOMAIN agenda[a], y \in DOMAIN agenda[b] :
            agenda[a][x].do = "destroy" /\ agenda[a][x] = agenda[b][y] => a = b /\ x = y
      BY Zenon DEF DestroyedOnce
    <3>3. i \in DOMAIN agenda[a] /\ j \in DOMAIN agenda[b]
      BY <1>8
    <3> QED BY <3>1, <3>2, <3>3, Zenon
  <2>2. CASE a = th
    BY <1>2, <1>8, <2>1, <2>2, SameShift
  <2>3. CASE a # th
    BY <1>8, <2>1, <2>3
  <2> QED BY <2>1, <2>2, <2>3
<1> QED BY <1>4, <1>5, <1>6, <1>7, <1>8

\* Who may do what with the pointers and their queues.
Own == Pointers /\ Gone /\ Links /\ Takes /\ Destroys /\ DestroyedOnce

\* What it says of the step that a thread does next.
LEMMA OwnFirst ==
  ASSUME Core, Own, NEW th \in Threads, NEW op, C!IsNext(th, op)
  PROVE  /\ op = "link" => C!Op(th).queue = C!Ready \/ C!Op(th).queue \in Current
         /\ op = "emplace_current" => th \in readers[C!Op(th).event]
         /\ op = "exchange" => writer[C!Op(th).event] = th
         /\ op \in {"take", "swap_head", "peak", "decide"} => C!Op(th).queue <= queues /\ C!Op(th).queue \notin Current
         /\ op = "destroy" => Doomed(C!Op(th).queue) /\ head[C!Op(th).queue] = C!Null
<1>1. C!Op(th) = agenda[th][1] /\ C!Op(th).do = op /\ 1 \in DOMAIN agenda[th]
  BY NextStep
<1>2. LinkOk(agenda[th], 1, th) /\ TakeOk(agenda[th][1]) /\ DestroyOk(agenda[th], 1)
  BY <1>1, Positions DEF Own
<1>3. /\ op = "link" => C!Op(th).queue = C!Ready \/ C!Op(th).queue \in Current
      /\ op = "emplace_current" => th \in readers[C!Op(th).event]
      /\ op = "exchange" => writer[C!Op(th).event] = th
  BY <1>1, <1>2 DEF LinkOk, Current
<1>4. op \in {"take", "swap_head", "peak", "decide"} => C!Op(th).queue <= queues /\ C!Op(th).queue \notin Current
  BY <1>1, <1>2 DEF TakeOk
<1>5. op = "destroy" => Doomed(C!Op(th).queue) /\ head[C!Op(th).queue] = C!Null
  BY <1>1, <1>2 DEF DestroyOk
<1> QED BY <1>3, <1>4, <1>5

\* What is destroyed is a queue.
LEMMA DestroyTypes ==
  ASSUME Core, NEW th \in Threads, NEW k \in DOMAIN agenda[th], agenda[th][k].do = "destroy"
  PROVE  agenda[th][k].queue \in C!Queues
<1>1. agenda[th][k] \in Steps
  BY DEF Core, QueueTypes
<1> QED BY <1>1, StepKinds

\* A step that leaves the pointers alone.
LEMMA QuietStep ==
  ASSUME Core, Own, NEW th \in Threads, NEW op, NEW ops, Does(th, op, ops), UNCHANGED <<C!pointerVars, destroyed>>,
         op \notin {"lock_shared", "lock_unique"}, op \in {"lock", "unlock"} => ops = <<>>,
         \A q \in C!Queues : Doomed(q) /\ head[q] = C!Null => head'[q] = C!Null,
         GoesOn(th, ops),
         \A k \in 1..Len(ops) : ops[k].do # "destroy" /\ LinkOk(ops, k, th)' /\ TakeOk(ops[k])'
  PROVE  Own'
<1>1. pointer' = pointer /\ queues' = queues /\ readers' = readers /\ writer' = writer /\ destroyed' = destroyed
  BY DEF C!pointerVars
<1>2. Current' = Current
  BY <1>1 DEF Current
<1>3. Pointers' /\ Gone'
  BY <1>1, <1>2 DEF Own, Pointers, Gone
<1>4. Links'
  <2>1. \A ot \in Threads, e \in C!Events : ot # th =>
           /\ ot \in readers[e] => ot \in readers'[e] /\ pointer'[e] = pointer[e]
           /\ writer[e] = ot => writer'[e] = ot
    BY <1>1
  <2>2. op = "lock" => ops = <<>> /\ pointer' = pointer /\ readers' = readers
    BY <1>1
  <2>3. \A k \in 1..Len(ops) : LinkOk(ops, k, th)'
    OBVIOUS
  <2> QED BY <2>1, <2>2, <2>3, LinksStay DEF Own
<1>5. Takes'
  <2>1. \A q \in C!Queues : q <= queues => q <= queues' /\ (q \notin Current => q \notin Current')
    BY <1>1, <1>2
  <2>2. \A k \in 1..Len(ops) : TakeOk(ops[k])'
    OBVIOUS
  <2> QED BY <2>1, <2>2, TakesStay DEF Own
<1>6. Destroys'
  <2>1. \A q \in C!Queues : Kept(q)
    BY <1>1, <1>2 DEF Kept, Doomed
  <2>2. \A k \in 1..Len(ops) : DestroyOk(ops, k)'
    BY DEF DestroyOk
  <2>3. \A ot \in Threads : \A k \in DOMAIN agenda[ot] :
          (ot # th \/ k > 1) /\ agenda[ot][k].do = "destroy" => Kept(agenda[ot][k].queue)
    BY <2>1, DestroyTypes
  <2>4. op = "unlock" => ops = <<>>
    OBVIOUS
  <2> QED BY <2>2, <2>3, <2>4, DestroysStay DEF Own
<1>7. DestroyedOnce'
  BY OnceStays DEF Own
<1> QED BY <1>3, <1>4, <1>5, <1>6, <1>7 DEF Own

\* One that makes no others, either.
LEMMA QuietEmpty ==
  ASSUME Core, Own, NEW th \in Threads, NEW op, NEW ops, Does(th, op, ops), ops = <<>>,
         UNCHANGED <<C!pointerVars, destroyed>>, op \notin {"lock_shared", "lock_unique", "take"},
         \A q \in C!Queues : Doomed(q) /\ head[q] = C!Null => head'[q] = C!Null
  PROVE  Own'
<1>1. GoesOn(th, ops)
  <2>1. C!Op(th).do # "take"
    BY NextStep DEF Does
  <2> QED BY <2>1 DEF GoesOn, C!Take
<1>2. \A k \in 1..Len(ops) : ops[k].do # "destroy" /\ LinkOk(ops, k, th)' /\ TakeOk(ops[k])'
  OBVIOUS
<1> QED BY <1>1, <1>2, QuietStep

\* The queue that emplace adds to will not be destroyed.
LEMMA OwnLink ==
  ASSUME Core, Own, NEW th \in Threads, C!DoLink(th) PROVE Own'
<1>1. PICK ops : ops = <<C!MoveTail(C!Op(th).queue, nodes + 1)>>
  OBVIOUS
<1>2. Does(th, "link", ops) /\ C!IsNext(th, "link") /\ C!Op(th).queue \in C!Queues
  BY <1>1, ShapeLink DEF Does
<1>3. UNCHANGED <<C!pointerVars, destroyed>>
  BY DEF C!DoLink
<1>4. \A q \in C!Queues : Doomed(q) /\ head[q] = C!Null => head'[q] = C!Null
  <2>1. C!Op(th).queue = C!Ready \/ C!Op(th).queue \in Current
    BY <1>2, OwnFirst
  <2>2. \A q : Doomed(q) => q # C!Op(th).queue
    BY <2>1 DEF Doomed
  <2>3. head' = head \/ head' = [head EXCEPT ![C!Op(th).queue] = nodes + 1]
    BY DEF C!DoLink
  <2>4. \A q \in C!Queues : q # C!Op(th).queue => head'[q] = head[q]
    BY <2>3 DEF Core, QueueTypes, FieldTypes
  <2> QED BY <2>2, <2>4
<1>5. Len(ops) = 1 /\ ops[1].do = "move_tail"
  BY <1>1 DEF C!MoveTail
<1>6. GoesOn(th, ops)
  BY <1>2, NextStep DEF GoesOn, C!Take
<1>7. \A k \in 1..Len(ops) : ops[k].do # "destroy" /\ LinkOk(ops, k, th)' /\ TakeOk(ops[k])'
  <2>1. \A k \in 1..Len(ops) : ops[k].do = "move_tail"
    BY <1>5
  <2> QED BY <2>1 DEF LinkOk, TakeOk
<1> QED BY <1>2, <1>3, <1>4, <1>6, <1>7, QuietStep

\* The queue from which a node is dropped was not empty.
LEMMA OwnDrop ==
  ASSUME Core, NEW S, Chained(S), Own, NEW th \in Threads, C!DoSwapHead(th) \/ C!DoDecide(th) PROVE Own'
<1>1. PICK ops : ops = <<>>
  OBVIOUS
<1>2. PICK op \in {"swap_head", "decide"} : Does(th, op, ops)
  BY <1>1, ShapePlain
<1>3. UNCHANGED <<C!pointerVars, destroyed>>
  BY DEF C!DoSwapHead, C!DoDecide
<1>4. C!Op(th).queue \in C!Queues /\ head[C!Op(th).queue] # C!Null
  <2>1. C!Op(th).queue \in C!Queues /\ S[C!Op(th).queue] # <<>>
    BY SwapHeadChains, DecideChains
  <2> QED BY <2>1, ListFacts
<1>5. \A q \in C!Queues : Doomed(q) /\ head[q] = C!Null => head'[q] = C!Null
  <2>1. head' = head \/ head' = [head EXCEPT ![C!Op(th).queue] = next[head[C!Op(th).queue]]]
    BY DEF C!DoSwapHead, C!DoDecide
  <2> QED BY <1>4, <2>1 DEF Core, QueueTypes, FieldTypes
<1>6. op \notin {"lock_shared", "lock_unique", "take"}
  BY <1>2
<1> QED BY <1>1, <1>2, <1>3, <1>5, <1>6, QuietEmpty

\* A lock, and what emplace does last.
LEMMA OwnEmpty ==
  ASSUME Core, Own, NEW th \in Threads, C!DoLock(th) \/ C!DoUnlock(th) \/ C!DoMoveTail(th) PROVE Own'
<1>1. PICK ops : ops = <<>>
  OBVIOUS
<1>2. PICK op \in {"lock", "unlock", "move_tail"} : Does(th, op, ops)
  <2>1. C!DoLock(th) => Does(th, "lock", ops)
    BY <1>1, SectionsLock
  <2>2. C!DoUnlock(th) => Does(th, "unlock", ops)
    BY <1>1, SectionsUnlock
  <2>3. C!DoMoveTail(th) => Does(th, "move_tail", ops)
    BY <1>1, ShapePlain
  <2> QED BY <2>1, <2>2, <2>3
<1>3. UNCHANGED <<C!pointerVars, destroyed>> /\ head' = head
  BY DEF C!DoLock, C!DoUnlock, C!DoMoveTail, C!queueVars
<1>4. op \notin {"lock_shared", "lock_unique", "take"}
  BY <1>2
<1> QED BY <1>1, <1>2, <1>3, <1>4, QuietEmpty

\* consume_all goes on in the queue it is in.
LEMMA OwnTake ==
  ASSUME Core, NEW S, Chained(S), Own, NEW th \in Threads, C!DoTake(th) PROVE Own'
<1>1. PICK q : q = C!Op(th).queue
  OBVIOUS
<1>2. PICK v : v = value[head[q]]
  OBVIOUS
<1>3. PICK ops : /\ Does(th, "take", ops)
                 /\ head[q] = C!Null => ops = <<C!Unlock(q)>>
                 /\ head[q] # C!Null => ops = IF C!Op(th).all THEN <<C!SwapHead(q, v), C!Run(v), C!Unlock(q), C!Lock(q), C!Take(q, TRUE)>>
                                              ELSE <<C!SwapHead(q, v), C!Run(v), C!Unlock(q)>>
  BY <1>1, <1>2, ShapeTake
<1>4. UNCHANGED <<C!pointerVars, destroyed, head>>
  BY DEF C!DoTake
<1>5. q <= queues' /\ q \notin Current'
  <2>1. q <= queues /\ q \notin Current
    BY <1>1, <1>3, OwnFirst DEF Does
  <2> QED BY <1>4, <2>1 DEF Current, C!pointerVars
<1>6. CASE head[q] = C!Null
  <2>1. ops = <<C!Unlock(q)>> /\ Len(ops) = 1 /\ ops[1].do = "unlock"
    BY <1>3, <1>6 DEF C!Unlock
  <2>2. \A k \in 1..Len(ops) : ops[k].do = "unlock"
    BY <2>1
  <2>3. \A k \in 1..Len(ops) : ops[k].do # "destroy" /\ LinkOk(ops, k, th)' /\ TakeOk(ops[k])'
    BY <2>2 DEF LinkOk, TakeOk
  <2>4. GoesOn(th, ops)
    <3>1. \A p : C!Op(th) = C!Take(p, TRUE) => p = q
      BY <1>1 DEF C!Take
    <3> QED BY <1>4, <1>6, <2>1, <3>1 DEF GoesOn
  <2> QED BY <1>3, <1>4, <2>3, <2>4, QuietStep
<1>7. CASE head[q] # C!Null
  <2>1. /\ \A k \in 1..Len(ops) : ops[k].do \in {"swap_head", "run", "unlock", "lock", "take"} /\ (ops[k].do # "run" => ops[k].queue = q)
        /\ C!Op(th).all = TRUE => ops # <<>> /\ ops[Len(ops)] = C!Take(q, TRUE)
    <3>1. CASE C!Op(th).all
      <4>1. ops = <<C!SwapHead(q, v), C!Run(v), C!Unlock(q), C!Lock(q), C!Take(q, TRUE)>>
        BY <1>3, <1>7, <3>1, Zenon
      <4>2. /\ Len(ops) = 5 /\ ops # <<>> /\ ops[1] = C!SwapHead(q, v) /\ ops[2] = C!Run(v) /\ ops[3] = C!Unlock(q)
            /\ ops[4] = C!Lock(q) /\ ops[5] = C!Take(q, TRUE)
        BY <4>1
      <4>3. /\ C!SwapHead(q, v).do = "swap_head" /\ C!SwapHead(q, v).queue = q /\ C!Run(v).do = "run"
            /\ C!Unlock(q).do = "unlock" /\ C!Unlock(q).queue = q /\ C!Lock(q).do = "lock" /\ C!Lock(q).queue = q
            /\ C!Take(q, TRUE).do = "take" /\ C!Take(q, TRUE).queue = q
        BY DEF C!SwapHead, C!Run, C!Unlock, C!Lock, C!Take
      <4>4. \A k \in 1..5 : k = 1 \/ k = 2 \/ k = 3 \/ k = 4 \/ k = 5
        OBVIOUS
      <4> QED BY <4>2, <4>3, <4>4
    <3>2. CASE ~C!Op(th).all
      <4>1. ops = <<C!SwapHead(q, v), C!Run(v), C!Unlock(q)>>
        BY <1>3, <1>7, <3>2, Zenon
      <4>2. Len(ops) = 3 /\ ops[1] = C!SwapHead(q, v) /\ ops[2] = C!Run(v) /\ ops[3] = C!Unlock(q)
        BY <4>1
      <4>3. /\ C!SwapHead(q, v).do = "swap_head" /\ C!SwapHead(q, v).queue = q /\ C!Run(v).do = "run"
            /\ C!Unlock(q).do = "unlock" /\ C!Unlock(q).queue = q
        BY DEF C!SwapHead, C!Run, C!Unlock
      <4>4. \A k \in 1..3 : k = 1 \/ k = 2 \/ k = 3
        OBVIOUS
      <4> QED BY <3>2, <4>2, <4>3, <4>4
    <3> QED BY <3>1, <3>2
  <2>2. \A k \in 1..Len(ops) : ops[k].do # "destroy" /\ LinkOk(ops, k, th)' /\ TakeOk(ops[k])'
    <3> SUFFICES ASSUME NEW k \in 1..Len(ops) PROVE ops[k].do # "destroy" /\ LinkOk(ops, k, th)' /\ TakeOk(ops[k])'
      OBVIOUS
    <3>1. PICK o : o = ops[k]
      OBVIOUS
    <3>2. o.do \in {"swap_head", "run", "unlock", "lock", "take"} /\ (o.do # "run" => o.queue = q)
      BY <2>1, <3>1
    <3>3. TakeOk(o)'
      BY <1>5, <3>2 DEF TakeOk
    <3>4. LinkOk(ops, k, th)'
      BY <3>1, <3>2 DEF LinkOk
    <3>5. TakeOk(ops[k])'
      BY <3>1, <3>3 DEF TakeOk
    <3> QED BY <3>1, <3>2, <3>4, <3>5
  <2>3. GoesOn(th, ops)
    <3>1. ASSUME NEW p, C!Op(th) = C!Take(p, TRUE) PROVE p = q /\ C!Op(th).all = TRUE
      BY <1>1, <3>1 DEF C!Take
    <3> QED BY <2>1, <3>1 DEF GoesOn
  <2> QED BY <1>3, <1>4, <2>2, <2>3, QuietStep
<1> QED BY <1>6, <1>7

\* peak_and_pop_if decides about the queue it is in.
LEMMA OwnPeak ==
  ASSUME Core, NEW S, Chained(S), Own, NEW th \in Threads, C!DoPeak(th) PROVE Own'
<1>1. PICK q : q = C!Op(th).queue
  OBVIOUS
<1>2. PICK v : v = value[head[q]]
  OBVIOUS
<1>3. PICK ops : /\ Does(th, "peak", ops)
                 /\ head[q] = C!Null => ops = <<C!Unlock(q)>>
                 /\ head[q] # C!Null => ops = <<C!Decide(q, v), C!Unlock(q)>>
  BY <1>1, <1>2, ShapePeak
<1>4. UNCHANGED <<C!pointerVars, destroyed, head>>
  BY DEF C!DoPeak
<1>5. q <= queues' /\ q \notin Current'
  <2>1. q <= queues /\ q \notin Current
    BY <1>1, <1>3, OwnFirst DEF Does
  <2> QED BY <1>4, <2>1 DEF Current, C!pointerVars
<1>6. \A k \in 1..Len(ops) : ops[k].do \in {"unlock", "decide"} /\ ops[k].queue = q
  <2>1. CASE head[q] = C!Null
    <3>1. Len(ops) = 1 /\ ops[1] = C!Unlock(q)
      BY <1>3, <2>1
    <3> QED BY <3>1 DEF C!Unlock
  <2>2. CASE head[q] # C!Null
    <3>1. Len(ops) = 2 /\ ops[1] = C!Decide(q, v) /\ ops[2] = C!Unlock(q)
      BY <1>3, <2>2
    <3>2. \A k \in 1..2 : k = 1 \/ k = 2
      OBVIOUS
    <3>3. C!Decide(q, v).do = "decide" /\ C!Decide(q, v).queue = q /\ C!Unlock(q).do = "unlock" /\ C!Unlock(q).queue = q
      BY DEF C!Decide, C!Unlock
    <3> QED BY <3>1, <3>2, <3>3
  <2> QED BY <2>1, <2>2
<1>7. \A k \in 1..Len(ops) : ops[k].do # "destroy" /\ LinkOk(ops, k, th)' /\ TakeOk(ops[k])'
  <2> SUFFICES ASSUME NEW k \in 1..Len(ops) PROVE ops[k].do # "destroy" /\ LinkOk(ops, k, th)' /\ TakeOk(ops[k])'
    OBVIOUS
  <2>1. PICK o : o = ops[k]
    OBVIOUS
  <2>2. o.do \in {"unlock", "decide"} /\ o.queue = q
    BY <1>6, <2>1
  <2>3. TakeOk(ops[k])'
    BY <1>5, <2>1, <2>2 DEF TakeOk
  <2>4. LinkOk(ops, k, th)'
    BY <2>1, <2>2 DEF LinkOk
  <2> QED BY <2>1, <2>2, <2>3, <2>4
<1>8. GoesOn(th, ops)
  <2>1. C!Op(th).do = "peak"
    BY <1>3, NextStep DEF Does
  <2> QED BY <2>1 DEF GoesOn, C!Take
<1> QED BY <1>3, <1>4, <1>7, <1>8, QuietStep

\* An action emplaces on the ready queue, or locks what it attaches to.
LEMMA OwnRun ==
  ASSUME Core, Own, NEW th \in Threads, C!DoRun(th) PROVE Own'
<1>1. PICK v : v = C!Op(th).value
  OBVIOUS
<1>2. PICK ops : /\ Does(th, "run", ops)
                 /\ ops = IF v[1] = "action" THEN <<C!Lock(C!Ready), C!Link(C!Ready, <<"task", v[2]>>), C!Unlock(C!Ready)>>
                          ELSE IF v[1] = "chain" THEN <<C!LockShared(v[2]), C!EmplaceCurrent(v[2], <<"action", v[2]>>)>>
                          ELSE <<>>
  BY <1>1, ShapeRun
<1>3. UNCHANGED <<C!pointerVars, destroyed, head>>
  BY DEF C!DoRun, C!queueVars
<1>4. \A k \in 1..Len(ops) : ops[k].do # "destroy" /\ LinkOk(ops, k, th)' /\ TakeOk(ops[k])'
  <2>1. CASE v[1] = "action"
    <3>1. PICK w : w = <<"task", v[2]>>
      OBVIOUS
    <3>2. Len(ops) = 3 /\ ops[1] = C!Lock(C!Ready) /\ ops[2] = C!Link(C!Ready, w) /\ ops[3] = C!Unlock(C!Ready)
      BY <1>2, <2>1, <3>1
    <3>3. C!Lock(C!Ready).do = "lock" /\ C!Link(C!Ready, w).do = "link" /\ C!Link(C!Ready, w).queue = C!Ready /\ C!Unlock(C!Ready).do = "unlock"
      BY DEF C!Lock, C!Link, C!Unlock
    <3>4. \A k \in 1..3 : k = 1 \/ k = 2 \/ k = 3
      OBVIOUS
    <3>5. \A k \in 1..Len(ops) : ops[k].do \in {"lock", "link", "unlock"} /\ (ops[k].do = "link" => ops[k].queue = C!Ready)
      BY <3>2, <3>3, <3>4
    <3> QED BY <3>5 DEF LinkOk, TakeOk
  <2>2. CASE v[1] = "chain"
    <3>1. PICK w : w = <<"action", v[2]>>
      OBVIOUS
    <3>2. Len(ops) = 2 /\ ops[1] = C!LockShared(v[2]) /\ ops[2] = C!EmplaceCurrent(v[2], w)
      BY <1>2, <2>1, <2>2, <3>1
    <3>3. C!LockShared(v[2]).do = "lock_shared" /\ C!EmplaceCurrent(v[2], w).do = "emplace_current" /\ C!EmplaceCurrent(v[2], w).event = v[2]
      BY DEF C!LockShared, C!EmplaceCurrent
    <3>4. \A k \in 1..2 : k = 1 \/ k = 2
      OBVIOUS
    <3>5. \A k \in 1..Len(ops) : /\ ops[k].do \in {"lock_shared", "emplace_current"}
                                 /\ ops[k].do = "emplace_current" => k # 1 /\ k - 1 = 1 /\ ops[1] = C!LockShared(ops[k].event)
      BY <3>2, <3>3, <3>4
    <3> QED BY <3>5 DEF LinkOk, TakeOk
  <2>3. CASE v[1] # "action" /\ v[1] # "chain"
    <3>1. Len(ops) = 0
      BY <1>2, <2>3
    <3> QED BY <3>1
  <2> QED BY <2>1, <2>2, <2>3
<1>5. GoesOn(th, ops)
  <2>1. C!Op(th).do = "run"
    BY <1>2, NextStep DEF Does
  <2> QED BY <2>1 DEF GoesOn, C!Take
<1>6. PICK op : op = "run"
  OBVIOUS
<1>7. /\ Does(th, op, ops) /\ UNCHANGED <<C!pointerVars, destroyed>> /\ op \notin {"lock_shared", "lock_unique"}
      /\ op \notin {"lock", "unlock"} /\ \A q \in C!Queues : Doomed(q) /\ head[q] = C!Null => head'[q] = C!Null
  BY <1>2, <1>3, <1>6
<1> QED BY <1>4, <1>5, <1>7, QuietStep

\* with_shared_access adds to the queue that the pointer it holds owns.
LEMMA OwnEmplaceCurrent ==
  ASSUME Core, Own, NEW th \in Threads, C!DoEmplaceCurrent(th) PROVE Own'
<1>1. PICK e : e = C!Op(th).event
  OBVIOUS
<1>2. PICK p : p = pointer[e]
  OBVIOUS
<1>3. PICK v : v = C!Op(th).value
  OBVIOUS
<1>4. PICK ops : ops = <<C!Lock(p), C!Link(p, v), C!Unlock(p), C!Release(e)>>
  OBVIOUS
<1>5. Does(th, "emplace_current", ops) /\ e \in C!Events
  BY <1>1, <1>2, <1>3, <1>4, ShapeEmplaceCurrent
<1>6. UNCHANGED <<C!pointerVars, destroyed, head>>
  BY DEF C!DoEmplaceCurrent, C!queueVars
<1>7. th \in readers'[e] /\ pointer'[e] = p
  <2>1. th \in readers[e]
    BY <1>1, <1>5, OwnFirst DEF Does
  <2> QED BY <1>2, <1>6, <2>1 DEF C!pointerVars
<1>8. \A k \in 1..Len(ops) : ops[k].do # "destroy" /\ LinkOk(ops, k, th)' /\ TakeOk(ops[k])'
  <2>1. Len(ops) = 4 /\ ops[1] = C!Lock(p) /\ ops[2] = C!Link(p, v) /\ ops[3] = C!Unlock(p) /\ ops[4] = C!Release(e)
    BY <1>4
  <2>2. /\ C!Lock(p).do = "lock" /\ C!Link(p, v).do = "link" /\ C!Link(p, v).queue = p
        /\ C!Unlock(p).do = "unlock" /\ C!Release(e).do = "release"
    BY DEF C!Lock, C!Link, C!Unlock, C!Release
  <2>3. \A k \in 1..4 : k = 1 \/ k = 2 \/ k = 3 \/ k = 4
    OBVIOUS
  <2>4. \A k \in 1..Len(ops) : /\ ops[k].do \in {"lock", "link", "unlock", "release"}
                               /\ ops[k].do = "link" => k = 2 /\ ops[k].queue = p /\ ops[1] = C!Lock(p)
    BY <2>1, <2>2, <2>3
  <2> QED BY <1>5, <1>7, <2>4 DEF LinkOk, TakeOk
<1>9. GoesOn(th, ops)
  <2>1. C!Op(th).do = "emplace_current"
    BY <1>5, NextStep DEF Does
  <2> QED BY <2>1 DEF GoesOn, C!Take
<1> QED BY <1>5, <1>6, <1>8, <1>9, QuietStep

\* What holds of the agendas after a lock or a release of a pointer.
LEMMA HoldStep ==
  ASSUME Core, Own, NEW th \in Threads, NEW op \in {"lock_shared", "lock_unique", "release"}, NEW ops, Does(th, op, ops),
         ops = <<>>, UNCHANGED <<C!queueVars, pointer, queues, destroyed>>,
         \A ot \in Threads, e \in C!Events : ot # th =>
           /\ ot \in readers[e] => ot \in readers'[e]
           /\ writer[e] = ot => writer'[e] = ot,
         op = "lock_shared" => th \in readers'[C!Op(th).event],
         op = "lock_unique" => writer'[C!Op(th).event] = th,
         \A e \in C!Events : writer'[e] # Nobody => readers'[e] = {}
  PROVE  Own'
<1>1. Current' = Current /\ head' = head
  BY DEF Current, C!queueVars
<1>2. Pointers' /\ Gone'
  BY <1>1 DEF Own, Pointers, Gone
<1>3. C!Op(th).do = op
  BY NextStep DEF Does
<1>4. Links'
  <2>1. \A k \in 1..Len(ops) : LinkOk(ops, k, th)'
    OBVIOUS
  <2>2. \A ot \in Threads, e \in C!Events : ot # th =>
           /\ ot \in readers[e] => ot \in readers'[e] /\ pointer'[e] = pointer[e]
           /\ writer[e] = ot => writer'[e] = ot
    OBVIOUS
  <2>3. op # "lock"
    OBVIOUS
  <2> QED BY <2>1, <2>2, <2>3, LinksStay DEF Own
<1>5. Takes'
  <2>1. \A k \in 1..Len(ops) : TakeOk(ops[k])'
    OBVIOUS
  <2>2. \A q \in C!Queues : q <= queues => q <= queues' /\ (q \notin Current => q \notin Current')
    BY <1>1
  <2> QED BY <2>1, <2>2, TakesStay DEF Own
<1>6. Destroys'
  <2>1. \A k \in 1..Len(ops) : DestroyOk(ops, k)'
    OBVIOUS
  <2>2. \A q \in C!Queues : Kept(q)
    BY <1>1 DEF Kept, Doomed
  <2>3. \A ot \in Threads : \A k \in DOMAIN agenda[ot] :
          (ot # th \/ k > 1) /\ agenda[ot][k].do = "destroy" => Kept(agenda[ot][k].queue)
    BY <2>2, DestroyTypes
  <2>4. GoesOn(th, ops)
    BY <1>3 DEF GoesOn, C!Take
  <2>5. op # "unlock"
    OBVIOUS
  <2> QED BY <2>1, <2>3, <2>4, <2>5, DestroysStay DEF Own
<1>7. DestroyedOnce'
  <2>1. \A i \in 1..Len(ops) : ops[i].do = "destroy" => FALSE
    OBVIOUS
  <2> QED BY <2>1, OnceStays DEF Own
<1> QED BY <1>2, <1>4, <1>5, <1>6, <1>7 DEF Own

\* Locking and releasing a pointer leaves it where it is.
LEMMA OwnHold ==
  ASSUME Core, Own, NEW th \in Threads, C!DoLockShared(th) \/ C!DoLockUnique(th) \/ C!DoRelease(th) PROVE Own'
<1>1. PICK ops : ops = <<>>
  OBVIOUS
<1>2. UNCHANGED <<C!queueVars, pointer, queues, destroyed>>
  BY DEF C!DoLockShared, C!DoLockUnique, C!DoRelease
<1>3. PICK e : e = C!Op(th).event
  OBVIOUS
<1>t. readers \in [C!Events -> SUBSET Threads] /\ writer \in [C!Events -> Threads \cup {Nobody}] /\ Nobody \notin Threads
  BY ContainersAssumption DEF Core, PointerTypes, C!Assumptions
<1>p. \A f \in C!Events : writer[f] # Nobody => readers[f] = {}
  BY DEF Own, Pointers
<1>4. CASE C!DoLockShared(th)
  <2>1. Does(th, "lock_shared", ops)
    BY <1>1, <1>4, ShapePlain
  <2>2. e \in C!Events
    BY <1>3, <2>1, NextStep, StepKinds DEF Does
  <2>3. writer[e] = Nobody /\ readers' = [readers EXCEPT ![e] = @ \cup {th}] /\ writer' = writer
    BY <1>3, <1>4 DEF C!DoLockShared
  <2>4. /\ \A ot \in Threads, f \in C!Events : ot # th => /\ ot \in readers[f] => ot \in readers'[f]
                                                          /\ writer[f] = ot => writer'[f] = ot
        /\ th \in readers'[e]
        /\ \A f \in C!Events : writer'[f] # Nobody => readers'[f] = {}
    BY <1>t, <1>p, <2>2, <2>3
  <2> QED BY <1>1, <1>2, <1>3, <2>1, <2>4, HoldStep
<1>5. CASE C!DoLockUnique(th)
  <2>1. Does(th, "lock_unique", ops)
    BY <1>1, <1>5, ShapePlain
  <2>2. e \in C!Events
    BY <1>3, <2>1, NextStep, StepKinds DEF Does
  <2>3. writer[e] = Nobody /\ readers[e] = {} /\ writer' = [writer EXCEPT ![e] = th] /\ readers' = readers
    BY <1>3, <1>5 DEF C!DoLockUnique
  <2>4. /\ \A ot \in Threads, f \in C!Events : ot # th => /\ ot \in readers[f] => ot \in readers'[f]
                                                          /\ writer[f] = ot => writer'[f] = ot
        /\ writer'[e] = th
        /\ \A f \in C!Events : writer'[f] # Nobody => readers'[f] = {}
    BY <1>t, <1>p, <2>2, <2>3
  <2> QED BY <1>1, <1>2, <1>3, <2>1, <2>4, HoldStep
<1>6. CASE C!DoRelease(th)
  <2>1. Does(th, "release", ops)
    BY <1>1, <1>6, ShapePlain
  <2>2. e \in C!Events
    BY <1>3, <2>1, NextStep, StepKinds DEF Does
  <2>3. /\ readers' = [readers EXCEPT ![e] = @ \ {th}]
        /\ writer' = [writer EXCEPT ![e] = IF @ = th THEN Nobody ELSE @]
    BY <1>3, <1>6 DEF C!DoRelease
  <2>4. /\ \A ot \in Threads, f \in C!Events : ot # th => /\ ot \in readers[f] => ot \in readers'[f]
                                                          /\ writer[f] = ot => writer'[f] = ot
        /\ \A f \in C!Events : writer'[f] # Nobody => readers'[f] = {}
    BY <1>t, <1>p, <2>2, <2>3
  <2> QED BY <1>1, <1>2, <2>1, <2>4, HoldStep
<1> QED BY <1>4, <1>5, <1>6, SMTT(90), ZenonT(60)

\* An exchange gives the event a new queue, and the thread the old one.
LEMMA OwnExchange ==
  ASSUME Core, Own, NEW th \in Threads, C!DoExchange(th) PROVE Own'
<1>1. PICK e : e = C!Op(th).event
  OBVIOUS
<1>2. PICK p : p = pointer[e]
  OBVIOUS
<1>3. PICK ops : ops = <<C!Release(e), C!Lock(p), C!Take(p, TRUE), C!Destroy(p)>>
  OBVIOUS
<1>4. Does(th, "exchange", ops) /\ e \in C!Events /\ p \in C!Queues
  BY <1>1, <1>2, <1>3, ShapeExchange
<1>5. /\ pointer' = [pointer EXCEPT ![e] = queues + 1] /\ queues' = queues + 1
      /\ readers' = readers /\ writer' = writer /\ destroyed' = destroyed /\ head' = head
  BY <1>1 DEF C!DoExchange, C!queueVars
<1>t. /\ pointer \in [C!Events -> C!Queues] /\ queues \in Nat /\ queues >= 1 /\ C!Queues \subseteq Nat /\ destroyed \subseteq C!Queues
      /\ Nobody \notin Threads
  BY ContainersAssumption, BoundTypes DEF Core, PointerTypes, C!Assumptions, C!Queues
<1>p. /\ \A f \in C!Events : 1 < pointer[f] /\ pointer[f] <= queues
      /\ \A f, g \in C!Events : pointer[f] = pointer[g] => f = g
      /\ \A f \in C!Events : writer[f] # Nobody => readers[f] = {}
  BY Zenon DEF Own, Pointers
<1>6. writer[e] = th /\ readers[e] = {}
  <2>1. writer[e] = th
    BY <1>1, <1>4, OwnFirst DEF Does
  <2> QED BY <1>4, <1>t, <1>p, <2>1
<1>7. \A f \in C!Events : pointer'[f] = IF f = e THEN queues + 1 ELSE pointer[f]
  BY <1>4, <1>5, <1>t
<1>8. p \in Nat /\ 1 < p /\ p <= queues /\ p # C!Ready /\ p \in Current /\ queues + 1 > 1 /\ queues + 1 > p
  BY <1>2, <1>4, <1>t, <1>p DEF C!Ready, Current
<1>9. p \notin Current'
  <2> SUFFICES ASSUME NEW f \in C!Events, p = pointer'[f] PROVE FALSE
    BY DEF Current
  <2>1. f # e
    BY <1>7, <1>8
  <2>2. pointer[f] = pointer[e]
    BY <1>2, <1>7, <2>1
  <2> QED BY <1>4, <1>p, <2>1, <2>2
<1>10. \A q \in C!Queues : q <= queues /\ q \notin Current => q <= queues' /\ q \notin Current'
  <2> SUFFICES ASSUME NEW q \in C!Queues, q <= queues, q \notin Current PROVE q <= queues' /\ q \notin Current'
    OBVIOUS
  <2>1. q \in Nat /\ q <= queues' /\ q # queues + 1
    BY <1>5, <1>t
  <2>2. \A f \in C!Events : pointer[f] # q
    BY DEF Current
  <2>3. \A f \in C!Events : pointer'[f] # q
    BY <1>7, <2>1, <2>2
  <2> QED BY <2>1, <2>3 DEF Current
<1>11. Pointers'
  <2>1. \A f \in C!Events : 1 < pointer'[f] /\ pointer'[f] <= queues'
    <3> SUFFICES ASSUME NEW f \in C!Events PROVE 1 < pointer'[f] /\ pointer'[f] <= queues'
      OBVIOUS
    <3>1. pointer[f] \in Nat /\ 1 < pointer[f] /\ pointer[f] <= queues
      BY <1>t, <1>p
    <3> QED BY <1>5, <1>7, <1>8, <1>t, <3>1
  <2>2. \A f, g \in C!Events : pointer'[f] = pointer'[g] => f = g
    <3> SUFFICES ASSUME NEW f \in C!Events, NEW g \in C!Events, pointer'[f] = pointer'[g] PROVE f = g
      OBVIOUS
    <3>1. pointer[f] \in Nat /\ pointer[f] <= queues /\ pointer[g] \in Nat /\ pointer[g] <= queues
      BY <1>t, <1>p
    <3>2. pointer[f] # queues + 1 /\ pointer[g] # queues + 1
      BY <1>t, <3>1
    <3>3. CASE f = e \/ g = e
      BY <1>7, <3>2, <3>3
    <3>4. CASE f # e /\ g # e
      BY <1>7, <1>p, <3>4
    <3> QED BY <3>3, <3>4
  <2>3. \A f \in C!Events : writer'[f] # Nobody => readers'[f] = {}
    BY <1>5, <1>p
  <2> QED BY <2>1, <2>2, <2>3, Zenon DEF Pointers
<1>12. Gone'
  BY <1>5, <1>10, <1>t DEF Own, Gone
<1>13. /\ \A k \in 1..Len(ops) :
             /\ ops[k].do \in {"release", "lock", "take", "destroy"}
             /\ ops[k].do = "take" => ops[k].queue = p
             /\ ops[k].do = "destroy" => k = 4 /\ k > 1 /\ ops[k] = C!Destroy(p) /\ ops[k].queue = p /\ ops[k - 1] = C!Take(p, TRUE)
       /\ ops # <<>>
  <2>1. Len(ops) = 4 /\ ops[1] = C!Release(e) /\ ops[2] = C!Lock(p) /\ ops[3] = C!Take(p, TRUE) /\ ops[4] = C!Destroy(p)
    BY <1>3
  <2>2. /\ C!Release(e).do = "release" /\ C!Lock(p).do = "lock" /\ C!Take(p, TRUE).do = "take" /\ C!Take(p, TRUE).queue = p
        /\ C!Destroy(p).do = "destroy" /\ C!Destroy(p).queue = p
    BY DEF C!Release, C!Lock, C!Take, C!Destroy
  <2>3. \A k \in 1..4 : k = 1 \/ k = 2 \/ k = 3 \/ (k = 4 /\ k - 1 = 3 /\ k > 1)
    OBVIOUS
  <2>4. \A k \in 1..Len(ops) :
          /\ ops[k].do \in {"release", "lock", "take", "destroy"}
          /\ ops[k].do = "take" => ops[k].queue = p
    BY <2>1, <2>2, <2>3
  <2>5. \A k \in 1..Len(ops) : ops[k].do = "destroy" => k = 4 /\ k > 1 /\ ops[k] = C!Destroy(p) /\ ops[k].queue = p /\ ops[k - 1] = C!Take(p, TRUE)
    BY <2>1, <2>2, <2>3
  <2> QED BY <1>3, <2>4, <2>5
<1>14. Links'
  <2>1. \A k \in 1..Len(ops) : LinkOk(ops, k, th)'
    BY <1>13 DEF LinkOk
  <2>2. \A ot \in Threads, f \in C!Events : ot # th =>
           /\ ot \in readers[f] => ot \in readers'[f] /\ pointer'[f] = pointer[f]
           /\ writer[f] = ot => writer'[f] = ot
    BY <1>5, <1>6, <1>7
  <2>3. PICK op : op = "exchange"
    OBVIOUS
  <2>4. Does(th, op, ops) /\ op # "lock" /\ op # "lock_shared" /\ op # "lock_unique"
    BY <1>4, <2>3
  <2> QED BY <2>1, <2>2, <2>4, LinksStay DEF Own
<1>15. Takes'
  <2>1. \A k \in 1..Len(ops) : TakeOk(ops[k])'
    <3> SUFFICES ASSUME NEW k \in 1..Len(ops) PROVE TakeOk(ops[k])'
      OBVIOUS
    <3>1. p <= queues'
      BY <1>5, <1>8
    <3> QED BY <1>9, <1>13, <3>1 DEF TakeOk
  <2>2. \A q \in C!Queues : q <= queues => q <= queues' /\ (q \notin Current => q \notin Current')
    BY <1>5, <1>10, <1>t
  <2> QED BY <1>4, <2>1, <2>2, TakesStay DEF Own
<1>16. Doomed(p)'
  <2>1. p \notin destroyed
    BY <1>8 DEF Own, Gone
  <2> QED BY <1>5, <1>8, <1>9, <2>1 DEF Doomed
<1>17. Destroys'
  <2>1. \A k \in 1..Len(ops) : DestroyOk(ops, k)'
    <3> SUFFICES ASSUME NEW k \in 1..Len(ops), ops[k].do = "destroy" PROVE DestroyOk(ops, k)'
      BY DEF DestroyOk
    <3>1. ops[k].queue = p /\ k > 1 /\ ops[k - 1] = C!Take(p, TRUE)
      BY <1>13
    <3> QED BY <1>16, <3>1 DEF DestroyOk
  <2>2. \A q \in C!Queues : Kept(q)
    BY <1>5, <1>10 DEF Kept, Doomed
  <2>3. \A ot \in Threads : \A k \in DOMAIN agenda[ot] :
          (ot # th \/ k > 1) /\ agenda[ot][k].do = "destroy" => Kept(agenda[ot][k].queue)
    BY <2>2, DestroyTypes
  <2>4. GoesOn(th, ops)
    <3>1. C!Op(th).do = "exchange"
      BY <1>4, NextStep DEF Does
    <3> QED BY <3>1 DEF GoesOn, C!Take
  <2>5. PICK op : op = "exchange"
    OBVIOUS
  <2>6. Does(th, op, ops) /\ op # "unlock"
    BY <1>4, <2>5
  <2> QED BY <2>1, <2>3, <2>4, <2>6, DestroysStay DEF Own
<1>18. DestroyedOnce'
  <2>1. \A ot \in Threads : \A k \in DOMAIN agenda[ot] : agenda[ot][k] # C!Destroy(p)
    <3> SUFFICES ASSUME NEW ot \in Threads, NEW k \in DOMAIN agenda[ot], agenda[ot][k] = C!Destroy(p) PROVE FALSE
      OBVIOUS
    <3>1. agenda[ot][k].do = "destroy" /\ agenda[ot][k].queue = p
      BY DEF C!Destroy
    <3>2. DestroyOk(agenda[ot], k)
      BY Positions DEF Own
    <3> QED BY <1>8, <3>1, <3>2 DEF DestroyOk, Doomed
  <2>2. \A i \in 1..Len(ops) : ops[i].do = "destroy" =>
          /\ \A j \in 1..Len(ops) : ops[j] = ops[i] => j = i
          /\ \A ot \in Threads : \A k \in DOMAIN agenda[ot] : agenda[ot][k] # ops[i]
    <3> SUFFICES ASSUME NEW i \in 1..Len(ops), ops[i].do = "destroy"
                 PROVE  /\ \A j \in 1..Len(ops) : ops[j] = ops[i] => j = i
                        /\ \A ot \in Threads : \A k \in DOMAIN agenda[ot] : agenda[ot][k] # ops[i]
      OBVIOUS
    <3>1. i = 4 /\ ops[i] = C!Destroy(p)
      BY <1>13
    <3>2. \A j \in 1..Len(ops) : ops[j] = ops[i] => j = 4
      BY <1>13
    <3> QED BY <2>1, <3>1, <3>2
  <2> QED BY <1>4, <2>2, OnceStays DEF Own
<1> QED BY <1>11, <1>12, <1>14, <1>15, <1>17, <1>18 DEF Own

\* Whoever owns the queue that is destroyed, nobody else does.
LEMMA OwnDestroy ==
  ASSUME Core, Own, NEW th \in Threads, C!DoDestroy(th) PROVE Own'
<1>1. PICK r : r = C!Op(th).queue
  OBVIOUS
<1>2. PICK ops : ops = <<>>
  OBVIOUS
<1>3. PICK op : op = "destroy"
  OBVIOUS
<1>4. Does(th, op, ops) /\ C!Op(th).do = "destroy"
  <2>1. Does(th, "destroy", ops)
    BY <1>2, ShapePlain
  <2> QED BY <1>3, <2>1, NextStep DEF Does
<1>5. /\ destroyed' = destroyed \cup {r} /\ pointer' = pointer /\ queues' = queues
      /\ readers' = readers /\ writer' = writer /\ head' = head
  BY <1>1 DEF C!DoDestroy, C!pointerVars, C!queueVars
<1>6. Current' = Current
  BY <1>5 DEF Current
<1>7. Doomed(r)
  BY <1>1, <1>3, <1>4, OwnFirst DEF Does
<1>8. Pointers' /\ Gone'
  <2>1. Pointers'
    BY <1>5 DEF Own, Pointers
  <2>2. Gone'
    BY <1>5, <1>6, <1>7 DEF Own, Gone, Doomed
  <2> QED BY <2>1, <2>2
<1>9. Links'
  <2>1. \A k \in 1..Len(ops) : LinkOk(ops, k, th)'
    BY <1>2
  <2>2. \A ot \in Threads, f \in C!Events : ot # th =>
           /\ ot \in readers[f] => ot \in readers'[f] /\ pointer'[f] = pointer[f]
           /\ writer[f] = ot => writer'[f] = ot
    BY <1>5
  <2>3. op # "lock" /\ op # "lock_shared" /\ op # "lock_unique"
    BY <1>3
  <2> QED BY <1>4, <2>1, <2>2, <2>3, LinksStay DEF Own
<1>10. Takes'
  <2>1. \A k \in 1..Len(ops) : TakeOk(ops[k])'
    BY <1>2
  <2>2. \A q \in C!Queues : q <= queues => q <= queues' /\ (q \notin Current => q \notin Current')
    BY <1>5, <1>6
  <2> QED BY <1>4, <2>1, <2>2, TakesStay DEF Own
<1>11. Destroys'
  <2>1. \A k \in 1..Len(ops) : DestroyOk(ops, k)'
    BY <1>2
  <2>2. \A q : q # r => Kept(q)
    BY <1>5, <1>6 DEF Kept, Doomed
  <2>3. ASSUME NEW ot \in Threads, NEW k \in DOMAIN agenda[ot], ot # th \/ k > 1, agenda[ot][k].do = "destroy"
        PROVE  agenda[ot][k].queue # r
    <3> SUFFICES ASSUME agenda[ot][k].queue = r PROVE FALSE
      OBVIOUS
    <3>1. PICK o : o = agenda[ot][k]
      OBVIOUS
    <3>2. o \in Steps /\ C!Op(th) \in Steps /\ C!Op(th) = agenda[th][1] /\ 1 \in DOMAIN agenda[th]
      BY <1>4, <3>1, NextStep DEF Core, QueueTypes, Does
    <3>3. o = C!Destroy(r) /\ C!Op(th) = C!Destroy(r)
      BY <1>1, <1>4, <2>3, <3>1, <3>2, StepKinds
    <3>4. agenda[th][1].do = "destroy" /\ agenda[th][1] = agenda[ot][k]
      BY <1>4, <3>1, <3>2, <3>3
    <3>5. \A x \in DOMAIN agenda[th], y \in DOMAIN agenda[ot] :
            agenda[th][x].do = "destroy" /\ agenda[th][x] = agenda[ot][y] => th = ot /\ x = y
      BY Zenon DEF Own, DestroyedOnce
    <3>6. th = ot /\ 1 = k
      BY <3>2, <3>4, <3>5, Zenon
    <3> QED BY <2>3, <3>6
  <2>4. \A ot \in Threads : \A k \in DOMAIN agenda[ot] :
          (ot # th \/ k > 1) /\ agenda[ot][k].do = "destroy" => Kept(agenda[ot][k].queue)
    BY <2>2, <2>3
  <2>5. GoesOn(th, ops)
    BY <1>4 DEF GoesOn, C!Take
  <2>6. op # "unlock"
    BY <1>3
  <2> QED BY <1>4, <2>1, <2>4, <2>5, <2>6, DestroysStay DEF Own
<1>12. DestroyedOnce'
  <2>1. \A i \in 1..Len(ops) : ops[i].do = "destroy" => FALSE
    BY <1>2
  <2> QED BY <1>4, <2>1, OnceStays DEF Own
<1> QED BY <1>8, <1>9, <1>10, <1>11, <1>12 DEF Own

\* What a program does with a pointer comes after it has locked it.
LEMMA ProgramPointers ==
  ASSUME NEW s, C!IsProgram(s), NEW k \in DOMAIN s
  PROVE  /\ s[k].do = "emplace_current" => k > 1 /\ s[k - 1] = C!LockShared(s[k].event)
         /\ s[k].do = "exchange" => k > 1 /\ s[k - 1] = C!LockUnique(s[k].event)
         /\ s[k].do # "destroy"
<1>1. CASE s[k] \in {C!Lock(C!Ready)} \cup {C!LockShared(e) : e \in C!Events} \cup {C!LockUnique(e) : e \in C!Events}
  <2>1. s[k].do \in {"lock", "lock_shared", "lock_unique"}
    BY <1>1 DEF C!Lock, C!LockShared, C!LockUnique
  <2> QED BY <2>1
<1>2. CASE k > 1 /\ s[k - 1] = C!Lock(C!Ready)
                 /\ s[k] \in {C!Take(C!Ready, FALSE), C!Peak(C!Ready)} \cup {C!Link(C!Ready, v) : v \in C!Values}
  <2>1. s[k].do \in {"take", "peak", "link"}
    BY <1>2 DEF C!Take, C!Peak, C!Link
  <2> QED BY <2>1
<1>3. CASE k > 1 /\ s[k - 1] \in {C!Link(C!Ready, v) : v \in C!Values} /\ s[k] = C!Unlock(C!Ready)
  <2>1. s[k].do = "unlock"
    BY <1>3 DEF C!Unlock
  <2> QED BY <2>1
<1>4. CASE k > 1 /\ \E e \in C!Events : s[k - 1] = C!LockShared(e) /\ s[k] \in {C!EmplaceCurrent(e, v) : v \in C!Values}
  BY <1>4 DEF C!EmplaceCurrent
<1>5. CASE k > 1 /\ \E e \in C!Events : s[k - 1] = C!LockUnique(e) /\ s[k] = C!Exchange(e)
  BY <1>5 DEF C!Exchange
<1> QED BY <1>1, <1>2, <1>3, <1>4, <1>5 DEF C!IsProgram

\* At first every event has a queue of its own, behind a pointer that nobody holds.
LEMMA InitOwn == C!Init => Own
<1> SUFFICES ASSUME C!Init PROVE Own
  OBVIOUS
<1>1. \A th \in Threads : C!IsProgram(agenda[th])
  BY ContainersAssumption DEF C!Init, C!Assumptions
<1>2. /\ queues = NEvents + 1 /\ NEvents \in Nat /\ \A e \in C!Events : pointer[e] = e + 1 /\ e \in Nat /\ e >= 1 /\ e <= NEvents
      /\ \A e \in C!Events : readers[e] = {} /\ writer[e] = Nobody
      /\ destroyed = {}
  BY ContainersAssumption DEF C!Init, C!Assumptions, C!FirstActions, C!Events
<1>3. Pointers
  BY <1>2 DEF Pointers
<1>4. Gone
  BY <1>2 DEF Gone
<1>5. Links
  <2> SUFFICES ASSUME NEW th \in Threads, NEW k \in DOMAIN agenda[th] PROVE LinkOk(agenda[th], k, th)
    BY Positions
  <2>1. PICK s : s = agenda[th]
    OBVIOUS
  <2>2. C!IsProgram(s) /\ k \in DOMAIN s
    BY <1>1, <2>1
  <2>3. s[k].do = "link" => s[k].queue = C!Ready
    BY <2>2, ProgramSteps DEF NeedsLock
  <2>4. /\ s[k].do = "emplace_current" => k > 1 /\ s[k - 1] = C!LockShared(s[k].event)
        /\ s[k].do = "exchange" => k > 1 /\ s[k - 1] = C!LockUnique(s[k].event)
    BY <2>2, ProgramPointers
  <2> QED BY <2>1, <2>3, <2>4 DEF LinkOk
<1>6. Takes
  <2> SUFFICES ASSUME NEW th \in Threads, NEW k \in DOMAIN agenda[th] PROVE TakeOk(agenda[th][k])
    BY Positions
  <2>1. PICK s : s = agenda[th]
    OBVIOUS
  <2>2. C!IsProgram(s) /\ k \in DOMAIN s
    BY <1>1, <2>1
  <2>3. s[k].do \in {"take", "swap_head", "peak", "decide"} => s[k].queue = C!Ready
    BY <2>2, ProgramSteps DEF NeedsLock
  <2>4. C!Ready <= queues /\ C!Ready \notin Current
    BY <1>2 DEF C!Ready, Current
  <2> QED BY <2>1, <2>3, <2>4 DEF TakeOk
<1>7. Destroys
  BY <1>1, ProgramPointers DEF Destroys
<1>8. DestroyedOnce
  BY <1>1, ProgramPointers DEF DestroyedOnce
<1> QED BY <1>3, <1>4, <1>5, <1>6, <1>7, <1>8 DEF Own

\* Every step leaves it so.
LEMMA OwnKept ==
  ASSUME Core, NEW S, Chained(S), Own, NEW th \in Threads, C!Step(th) PROVE Own'
BY OwnLink, OwnDrop, OwnEmpty, OwnTake, OwnPeak, OwnRun, OwnEmplaceCurrent, OwnHold, OwnExchange, OwnDestroy DEF C!Step

\* Whoever emplaces behind a pointer holds it, and whoever exchanged a queue is
\* the only one to take from it and to destroy it, once it is empty (event.cpp).
THEOREM OwnInvariant == Calling => []Own
<1>1. C!Init => Own
  BY InitOwn
<1>2. Listed /\ Own /\ [C!Next]_(C!vars) => Own'
  <2> SUFFICES ASSUME Listed, Own, [C!Next]_(C!vars) PROVE Own'
    OBVIOUS
  <2>1. PICK S : Chained(S)
    BY DEF Listed
  <2>2. CASE C!Next
    BY <2>1, <2>2, OwnKept DEF C!Next, Listed
  <2>3. CASE UNCHANGED C!vars
    <3>1. /\ agenda' = agenda /\ pointer' = pointer /\ next' = next /\ head' = head /\ tail' = tail /\ value' = value
          /\ nodes' = nodes /\ queues' = queues /\ destroyed' = destroyed /\ shared' = shared /\ readers' = readers /\ writer' = writer
          /\ Current' = Current
      BY <2>3 DEF C!vars, C!queueVars, C!pointerVars, Current
    <3>2. Pointers'
      BY <3>1 DEF Own, Pointers
    <3>3. Gone'
      BY <3>1 DEF Own, Gone
    <3>4. Links'
      BY <3>1 DEF Own, Links
    <3>5. Takes'
      BY <3>1 DEF Own, Takes
    <3>6. Destroys'
      BY <3>1 DEF Own, Destroys
    <3>7. DestroyedOnce'
      BY <3>1 DEF Own, DestroyedOnce
    <3> QED BY <3>2, <3>3, <3>4, <3>5, <3>6, <3>7 DEF Own
  <2> QED BY <2>2, <2>3
<1> QED BY <1>1, <1>2, ListedInvariant, PTL DEF Calling

-----------------------------------------------------------------------------
\* What the lists are worth after a step.
LEMMA ChainedContentsNext ==
  (\A S : Core /\ Chained(S) => \A q \in C!Queues : C!Chain(head[q]) = S[q] /\ C!Contents(q) = InQueue(S, q))'
BY ChainedContents, PTL

\* What the lists are worth before and after a step.
LEMMA ContentsAre ==
  ASSUME Core, NEW S, Chained(S), Core', NEW T, Chained(T)'
  PROVE  \A q \in C!Queues : C!Contents(q) = InQueue(S, q) /\ C!Contents(q)' = InQueue(T, q)'
BY ChainedContents, ChainedContentsNext

\* A step that leaves the lists worth what they were.
LEMMA SameContents ==
  ASSUME Core, NEW S, Chained(S), Core', NEW T, Chained(T)', \A q \in C!Queues : InQueue(T, q)' = InQueue(S, q)
  PROVE  [q \in C!Queues |-> C!Contents(q)]' = [q \in C!Queues |-> C!Contents(q)]
BY ContentsAre

\* At first the queues are empty fifos.
LEMMA InitFifos == C!Init => C!Abstract!Init
<1> SUFFICES ASSUME C!Init PROVE C!Abstract!Init
  OBVIOUS
<1>1. PICK S : S = [q \in C!Queues |-> <<>>]
  OBVIOUS
<1>2. Core /\ Chained(S)
  BY <1>1, InitCore, InitChains
<1>3. \A q \in C!Queues : C!Contents(q) = <<>>
  <2> SUFFICES ASSUME NEW q \in C!Queues PROVE C!Contents(q) = <<>>
    OBVIOUS
  <2>1. C!Contents(q) = InQueue(S, q)
    BY <1>2, ChainedContents
  <2>2. S[q] = <<>> /\ 1..Len(S[q]) = {}
    BY <1>1
  <2> QED BY <2>1, <2>2 DEF InQueue
<1>4. [q \in C!Queues |-> C!Contents(q)] = [q \in C!Queues |-> <<>>]
  BY <1>3
<1>5. pointer = C!FirstActions /\ destroyed = {} /\ queues = NEvents + 1
  BY DEF C!Init
<1>6. 1..queues = {C!Ready} \cup {pointer[e] : e \in C!Events}
  <2>1. NEvents \in Nat /\ \A e \in C!Events : pointer[e] = e + 1
    BY <1>5, ContainersAssumption DEF C!Assumptions, C!FirstActions
  <2>2. ASSUME NEW x \in 1..queues, x # C!Ready PROVE \E e \in C!Events : x = pointer[e]
    <3>1. x - 1 \in C!Events /\ x = (x - 1) + 1
      BY <1>5, <2>1, <2>2 DEF C!Events, C!Ready
    <3> QED BY <2>1, <3>1
  <2>3. \A e \in C!Events : pointer[e] \in 1..queues
    BY <1>5, <2>1 DEF C!Events
  <2>4. C!Ready \in 1..queues
    BY <1>5, <2>1 DEF C!Ready
  <2> QED BY <2>2, <2>3, <2>4
<1> QED BY <1>4, <1>5, <1>6 DEF C!Abstract!Init, C!Abstract!CurrentQueues

\* Every step is one of the fifos, or none.
LEMMA StepFifos ==
  ASSUME Core, NEW S, Chained(S), Own, NEW th \in Threads, C!Step(th)
  PROVE  C!Abstract!Next \/ UNCHANGED C!Abstract!vars
<1>c. Core'
  BY CoreKept
<1>1. CASE C!DoLink(th)
  <2>1. PICK r : r = C!Op(th).queue
    OBVIOUS
  <2>2. PICK v : v = C!Op(th).value
    OBVIOUS
  <2>3. r \in C!Queues /\ v \in C!Values /\ C!IsNext(th, "link")
    BY <1>1, <2>1, <2>2, ShapeLink DEF Does
  <2>4. PICK T : /\ Chained(T)'
                 /\ \A q \in C!Queues : InQueue(T, q)' = IF q = r THEN Append(InQueue(S, r), v) ELSE InQueue(S, q)
    BY <1>1, <2>1, <2>2, LinkChains
  <2>5. \A q \in C!Queues : C!Contents(q)' = IF q = r THEN Append(C!Contents(r), v) ELSE C!Contents(q)
    BY <1>c, <2>3, <2>4, ContentsAre
  <2>6. r \in {C!Ready} \cup Current
    BY <2>1, <2>3, OwnFirst
  <2>7. pointer' = pointer /\ queues' = queues /\ destroyed' = destroyed
    BY <1>1 DEF C!DoLink, C!pointerVars
  <2>8. [q \in C!Queues |-> C!Contents(q)]' = [[q \in C!Queues |-> C!Contents(q)] EXCEPT ![r] = Append(@, v)]
    BY <2>3, <2>5
  <2>9. C!Abstract!Add(r, v)
    BY <2>6, <2>7, <2>8 DEF C!Abstract!Add, C!Abstract!CurrentQueues, Current
  <2> QED BY <2>3, <2>9 DEF C!Abstract!Next
<1>d. ASSUME NEW r \in C!Queues, r \notin Current, S[r] # <<>>, NEW T, Chained(T)', pointer' = pointer, queues' = queues, destroyed' = destroyed,
             \A q \in C!Queues : InQueue(T, q)' = IF q = r THEN Tail(InQueue(S, r)) ELSE InQueue(S, q)
      PROVE  C!Abstract!Next
  <2>1. \A q \in C!Queues : C!Contents(q)' = IF q = r THEN Tail(C!Contents(r)) ELSE C!Contents(q)
    BY <1>c, <1>d, ContentsAre
  <2>2. C!Contents(r) # <<>>
    <3>1. 1 \in 1..Len(S[r])
      BY <1>d, ListFacts
    <3>2. InQueue(S, r) # <<>>
      BY <3>1 DEF InQueue
    <3> QED BY <1>d, <3>2, ChainedContents
  <2>3. [q \in C!Queues |-> C!Contents(q)]' = [[q \in C!Queues |-> C!Contents(q)] EXCEPT ![r] = Tail(@)]
    BY <1>d, <2>1
  <2>4. [q \in C!Queues |-> C!Contents(q)][r] # <<>>
    BY <1>d, <2>2
  <2>5. C!Abstract!Take(r)
    BY <1>d, <2>3, <2>4 DEF C!Abstract!Take, C!Abstract!CurrentQueues, Current
  <2> QED BY <2>5 DEF C!Abstract!Next
<1>2. CASE C!DoSwapHead(th)
  <2>1. PICK r : r = C!Op(th).queue
    OBVIOUS
  <2>2. r \in C!Queues /\ S[r] # <<>>
    BY <1>2, <2>1, SwapHeadChains
  <2>3. PICK T : /\ Chained(T)'
                 /\ \A q \in C!Queues : InQueue(T, q)' = IF q = r THEN Tail(InQueue(S, r)) ELSE InQueue(S, q)
    BY <1>2, <2>1, SwapHeadChains
  <2>4. r \notin Current /\ pointer' = pointer /\ queues' = queues /\ destroyed' = destroyed
    BY <1>2, <2>1, OwnFirst DEF C!DoSwapHead, C!pointerVars
  <2> QED BY <1>d, <2>2, <2>3, <2>4
<1>3. CASE C!DoDecide(th)
  <2>1. PICK r : r = C!Op(th).queue
    OBVIOUS
  <2>2. r \in C!Queues /\ S[r] # <<>>
    BY <1>3, <2>1, DecideChains
  <2>3. PICK T : /\ Chained(T)'
                 /\ \/ \A q \in C!Queues : InQueue(T, q)' = InQueue(S, q)
                    \/ \A q \in C!Queues : InQueue(T, q)' = IF q = r THEN Tail(InQueue(S, r)) ELSE InQueue(S, q)
    BY <1>3, <2>1, DecideChains
  <2>4. r \notin Current /\ pointer' = pointer /\ queues' = queues /\ destroyed' = destroyed
    BY <1>3, <2>1, OwnFirst DEF C!DoDecide, C!pointerVars
  <2>5. CASE \A q \in C!Queues : InQueue(T, q)' = InQueue(S, q)
    <3>1. [q \in C!Queues |-> C!Contents(q)]' = [q \in C!Queues |-> C!Contents(q)]
      BY <1>c, <2>3, <2>5, SameContents
    <3> QED BY <2>4, <3>1 DEF C!Abstract!vars
  <2> QED BY <1>d, <2>2, <2>3, <2>4, <2>5
<1>s. ASSUME \/ C!DoLock(th) \/ C!DoUnlock(th) \/ C!DoMoveTail(th) \/ C!DoTake(th) \/ C!DoRun(th) \/ C!DoPeak(th)
             \/ C!DoLockShared(th) \/ C!DoEmplaceCurrent(th) \/ C!DoLockUnique(th) \/ C!DoExchange(th) \/ C!DoRelease(th) \/ C!DoDestroy(th)
      PROVE  [q \in C!Queues |-> C!Contents(q)]' = [q \in C!Queues |-> C!Contents(q)]
  <2>1. Chained(S)' /\ \A q \in C!Queues : InQueue(S, q)' = InQueue(S, q)
    <3>1. CASE C!DoMoveTail(th) \/ C!DoTake(th) \/ C!DoPeak(th)
      BY <3>1, MoveTailChains, TakeChains, PeakChains
    <3>2. CASE ~(C!DoMoveTail(th) \/ C!DoTake(th) \/ C!DoPeak(th))
      BY <1>s, <3>2, OtherSteps
    <3> QED BY <3>1, <3>2
  <2> QED BY <1>c, <2>1, SameContents
<1>4. CASE \/ C!DoLock(th) \/ C!DoUnlock(th) \/ C!DoMoveTail(th) \/ C!DoTake(th) \/ C!DoRun(th) \/ C!DoPeak(th)
           \/ C!DoLockShared(th) \/ C!DoEmplaceCurrent(th) \/ C!DoLockUnique(th) \/ C!DoRelease(th)
  <2>1. pointer' = pointer /\ queues' = queues /\ destroyed' = destroyed
    BY <1>4 DEF C!DoLock, C!DoUnlock, C!DoMoveTail, C!DoTake, C!DoRun, C!DoPeak, C!DoLockShared, C!DoEmplaceCurrent, C!DoLockUnique,
                C!DoRelease, C!pointerVars
  <2> QED BY <1>4, <1>s, <2>1 DEF C!Abstract!vars
<1>5. CASE C!DoExchange(th)
  <2>1. PICK e : e = C!Op(th).event
    OBVIOUS
  <2>2. e \in C!Events /\ queues + 1 \in C!Queues
    BY <1>5, <2>1, ShapeExchange
  <2>3. pointer' = [pointer EXCEPT ![e] = queues + 1] /\ queues' = queues + 1 /\ destroyed' = destroyed
    BY <1>5, <2>1 DEF C!DoExchange
  <2>4. queues \in Nat
    BY DEF Core, PointerTypes
  <2>5. queues + 1 \notin 1..queues /\ 1..queues' = 1..queues \cup {queues + 1}
    BY <2>3, <2>4
  <2>6. C!Abstract!Exchange(e, queues + 1)
    BY <1>5, <1>s, <2>3, <2>5 DEF C!Abstract!Exchange
  <2> QED BY <2>2, <2>6 DEF C!Abstract!Next
<1>6. CASE C!DoDestroy(th)
  <2>1. PICK r : r = C!Op(th).queue
    OBVIOUS
  <2>2. C!IsNext(th, "destroy") /\ destroyed' = destroyed \cup {r} /\ pointer' = pointer /\ queues' = queues
    BY <1>6, <2>1 DEF C!DoDestroy, C!pointerVars
  <2>3. r \in C!Queues
    BY <2>1, <2>2, NextStep, StepKinds
  <2>4. Doomed(r) /\ head[r] = C!Null
    BY <2>1, <2>2, OwnFirst
  <2>5. r \in 1..queues \ ({C!Ready} \cup Current \cup destroyed)
    BY <2>3, <2>4, BoundTypes DEF Doomed, C!Queues
  <2>6. [q \in C!Queues |-> C!Contents(q)][r] = <<>>
    <3>1. S[r] = <<>>
      BY <2>3, <2>4, ListFacts
    <3>2. InQueue(S, r) = <<>>
      BY <3>1 DEF InQueue
    <3> QED BY <2>3, <3>2, ChainedContents
  <2>7. C!Abstract!Destroy(r)
    BY <1>6, <1>s, <2>2, <2>5, <2>6 DEF C!Abstract!Destroy, C!Abstract!CurrentQueues, Current
  <2> QED BY <2>3, <2>7 DEF C!Abstract!Next
<1> QED BY <1>1, <1>2, <1>3, <1>4, <1>5, <1>6 DEF C!Step

\* ImplementsFifos, for any threads, queues, nodes and scenarios: what threads do
\* to the containers under their locks behaves as single steps on queues that are
\* first in, first out, and of which none is destroyed that is in use or not empty.
THEOREM FirstInFirstOut == ContainersSpec => ImplementsFifos
<1>1. C!Init => C!Abstract!Init
  BY InitFifos
<1>2. Listed /\ Own /\ [C!Next]_(C!vars) => [C!Abstract!Next]_(C!Abstract!vars)
  <2> SUFFICES ASSUME Listed, Own, [C!Next]_(C!vars) PROVE [C!Abstract!Next]_(C!Abstract!vars)
    OBVIOUS
  <2>1. PICK S : Chained(S)
    BY DEF Listed
  <2>2. CASE C!Next
    BY <2>1, <2>2, StepFifos DEF C!Next, Listed
  <2>3. CASE UNCHANGED C!vars
    <3>1. [q \in C!Queues |-> C!Contents(q)]' = [q \in C!Queues |-> C!Contents(q)]
      BY <2>3 DEF C!vars, C!queueVars, C!Contents, C!Chain, C!ChainFrom, C!ValueIn, C!IsNext, C!Op
    <3> QED BY <2>3, <3>1 DEF C!Abstract!vars, C!vars, C!pointerVars
  <2> QED BY <2>2, <2>3
<1> QED BY <1>1, <1>2, ContainersCall, ListedInvariant, OwnInvariant, PTL DEF Calling, ImplementsFifos, C!ImplementsFifos, C!Abstract!Spec
=============================================================================
