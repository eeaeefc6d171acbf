------------------------------- MODULE Fifos -------------------------------
(***************************************************************************)
(* What the containers of the backend promise: first in, first out queues  *)
(* that change in single steps.  One belongs to a worker.  The others are  *)
(* the queues of actions of events, of which attach_action only ever sees  *)
(* the current ones; a queue that is exchanged for a new one is not added  *)
(* to any more, is emptied by whoever took it, and then destroyed.         *)
(***************************************************************************)
EXTENDS Sequences, Naturals

CONSTANTS Events, Queues, Ready, FirstActions, Values

VARIABLES contents,  \* of a queue
          current,   \* of an event: the action queue it points to
          made,      \* the queues made so far
          destroyed  \* and those that are gone

vars == <<contents, current, made, destroyed>>

CurrentQueues == {current[e] : e \in Events}

Init ==
  /\ contents = [q \in Queues |-> <<>>]
  /\ current = FirstActions
  /\ made = {Ready} \cup CurrentQueues
  /\ destroyed = {}

Add(q, v) ==
  /\ q \in {Ready} \cup CurrentQueues
  /\ contents' = [contents EXCEPT ![q] = Append(@, v)]
  /\ UNCHANGED <<current, made, destroyed>>

Take(q) ==
  /\ q \notin CurrentQueues
  /\ contents[q] # <<>>
  /\ contents' = [contents EXCEPT ![q] = Tail(@)]
  /\ UNCHANGED <<current, made, destroyed>>

Exchange(e, q) ==
  /\ q \notin made
  /\ current' = [current EXCEPT ![e] = q]
  /\ made' = made \cup {q}
  /\ UNCHANGED <<contents, destroyed>>

Destroy(q) ==
  /\ q \in made \ ({Ready} \cup CurrentQueues \cup destroyed)
  /\ contents[q] = <<>>
  /\ destroyed' = destroyed \cup {q}
  /\ UNCHANGED <<contents, current, made>>

Next ==
  \E q \in Queues :
    \/ \E v \in Values : Add(q, v)
    \/ \E e \in Events : Exchange(e, q)
    \/ Take(q) \/ Destroy(q)

Spec == Init /\ [][Next]_vars
=============================================================================
