------------------------------- MODULE Latch -------------------------------
(***************************************************************************)
(* What an event with a join counter promises to the rest of the backend.  *)
(*                                                                         *)
(* Somebody always holds the latch until the last hold is given up; then   *)
(* the latch opens, once and for good.  An action attached to the latch is *)
(* run exactly once, and only when the latch is open.  Nothing is said of  *)
(* threads, of queues or of the order in which actions run: the backend    *)
(* relies on none of them.  JoinCounter.tla is shown to implement this.    *)
(***************************************************************************)
EXTENDS Naturals

CONSTANTS Tokens,         \* the holds that can be taken on the latch
          InitialTokens,  \* the holds that exist when the latch is created
          Actions         \* the actions that can be attached

VARIABLES holds,    \* the holds not given up yet
          open,     \* whether the latch has opened
          pending,  \* the actions attached and not run yet
          done      \* the actions that have run

latchVars == <<holds, open, pending, done>>

Init ==
  /\ holds = InitialTokens
  /\ open = FALSE
  /\ pending = {}
  /\ done = {}

\* Under a hold that exists, more of them are taken.
Acquire(S) ==
  /\ holds # {}
  /\ S \subseteq Tokens \ holds
  /\ holds' = holds \cup S
  /\ UNCHANGED <<open, pending, done>>

Release(k) ==
  /\ k \in holds
  /\ holds' = holds \ {k}
  /\ UNCHANGED <<open, pending, done>>

Open ==
  /\ holds = {}
  /\ ~open
  /\ open' = TRUE
  /\ UNCHANGED <<holds, pending, done>>

Attach(a) ==
  /\ a \notin pending \cup done
  /\ pending' = pending \cup {a}
  /\ UNCHANGED <<holds, open, done>>

Run(a) ==
  /\ open
  /\ a \in pending
  /\ pending' = pending \ {a}
  /\ done' = done \cup {a}
  /\ UNCHANGED <<holds, open>>

Next ==
  \/ \E S \in SUBSET Tokens : Acquire(S)
  \/ \E k \in Tokens : Release(k)
  \/ Open
  \/ \E a \in Actions : Attach(a) \/ Run(a)

SafeSpec == Init /\ [][Next]_latchVars

Spec ==
  /\ SafeSpec
  /\ WF_latchVars(Open)
  /\ \A a \in Actions : WF_latchVars(Run(a))
=============================================================================
