------------------------------ MODULE TryLock ------------------------------
(***************************************************************************)
(* try_lock of util.hpp over ranges of lockables, while other threads try  *)
(* overlapping ranges.  A frame of the recursion keeps the lock of the     *)
(* element before its own (prev_ulock) until the rest has been tried.      *)
(***************************************************************************)
EXTENDS Integers, Sequences, SequencesExt

CONSTANTS Threads, Nobody, Lockables, Ranges

VARIABLES owner,    \* of a lockable
          range,    \* what a thread tries to lock
          depth,    \* the frames on its stack; frame k tries element k
          returns,  \* whether they are being unwound
          result    \* the value they return

vars == <<owner, range, depth, returns, result>>

TryLockSuccess == -1

\* A thread that locks a std::mutex twice is outside its contract.
Init ==
  /\ owner = [l \in Lockables |-> Nobody]
  /\ range \in [Threads -> {r \in Ranges : IsInjective(r)}]
  /\ depth = [th \in Threads |-> 1]
  /\ returns = [th \in Threads |-> FALSE]
  /\ result = [th \in Threads |-> 0]

Return(th, rv) ==
  /\ returns' = [returns EXCEPT ![th] = TRUE]
  /\ result' = [result EXCEPT ![th] = rv]
  /\ UNCHANGED <<owner, range, depth>>

\* std::unique_lock with std::try_to_lock: own the element and recurse, or fail.
Try(th) ==
  LET k == depth[th] IN
  /\ depth[th] > 0 /\ ~returns[th]
  /\ IF k > Len(range[th]) THEN Return(th, TryLockSuccess)
     ELSE IF owner[range[th][k]] # Nobody THEN Return(th, 0)
     ELSE /\ owner' = [owner EXCEPT ![range[th][k]] = th]
          /\ depth' = [depth EXCEPT ![th] = k + 1]
          /\ UNCHANGED <<range, returns, result>>

\* Mutant: a failure gives back the last lock only.
UnwindLastOnly(th) ==
  LET k == depth[th]
      failed == result[th] # TryLockSuccess
  IN
  /\ depth[th] > 0 /\ returns[th]
  /\ owner' = IF result[th] = 0 /\ k > 1 THEN [owner EXCEPT ![range[th][k - 1]] = Nobody] ELSE owner
  /\ result' = [result EXCEPT ![th] = IF failed /\ k > 2 THEN @ + 1 ELSE @]
  /\ depth' = [depth EXCEPT ![th] = k - 1]
  /\ UNCHANGED <<range, returns>>

\* A frame returns: prev_ulock lets go of its lock (release) or gives it back,
\* and its caller, if it is a frame of _try_lock_impl, adds 1 to a failure.
Unwind(th) ==
  LET k == depth[th]
      failed == result[th] # TryLockSuccess
  IN
  /\ depth[th] > 0 /\ returns[th]
  /\ owner' = IF failed /\ k > 1 THEN [owner EXCEPT ![range[th][k - 1]] = Nobody] ELSE owner
  /\ result' = [result EXCEPT ![th] = IF failed /\ k > 2 THEN @ + 1 ELSE @]
  /\ depth' = [depth EXCEPT ![th] = k - 1]
  /\ UNCHANGED <<range, returns>>

\* The thread that locked them all unlocks them; one that failed may try again.
UnlockAll(th) ==
  /\ depth[th] = 0 /\ result[th] = TryLockSuccess
  /\ owner' = [l \in Lockables |-> IF owner[l] = th THEN Nobody ELSE owner[l]]
  /\ result' = [result EXCEPT ![th] = 0]
  /\ UNCHANGED <<range, depth, returns>>

TryAgain(th) ==
  /\ depth[th] = 0 /\ result[th] # TryLockSuccess
  /\ \A l \in Lockables : owner[l] # th
  /\ depth' = [depth EXCEPT ![th] = 1]
  /\ returns' = [returns EXCEPT ![th] = FALSE]
  /\ result' = [result EXCEPT ![th] = 0]
  /\ UNCHANGED <<owner, range>>

Next == \E th \in Threads : Try(th) \/ Unwind(th) \/ UnlockAll(th) \/ TryAgain(th)

Spec == Init /\ [][Next]_vars

\* When try_lock has returned, the thread owns the whole range, or nothing of
\* it although other threads have locked and unlocked parts of it meanwhile.
AllOrNothing ==
  \A th \in Threads : depth[th] = 0 =>
    {l \in Lockables : owner[l] = th} =
      IF result[th] = TryLockSuccess THEN ToSet(range[th]) ELSE {}
=============================================================================
