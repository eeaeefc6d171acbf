----------------------------- MODULE DataOrder -----------------------------
(***************************************************************************)
(* What the flows of one handle promise to the program: tasks run in       *)
(* parallel, but each of them sees the data as if the program had been run *)
(* from top to bottom.                                                     *)
(*                                                                         *)
(* A task is named by its place in the program: <<2, 1>> is the first      *)
(* subtask of the second task of the top level.  A task starts when all    *)
(* that come before it in this order and conflict with it are done, their  *)
(* subtasks included.  Flows.tla is shown to implement this.               *)
(***************************************************************************)
EXTENDS Naturals, Sequences

CONSTANT Tasks

VARIABLES status,  \* of each task
          kind     \* how it uses the data: chosen when it is registered

orderVars == <<status, kind>>

Kinds == {"read", "write", "index"}

\* The program comes to p before it comes to q, which is no subtask of p's.
Before(p, q) ==
  \E k \in 1..Len(p) :
    /\ k <= Len(q)
    /\ p[k] < q[k]
    /\ \A i \in 1..(k - 1) : p[i] = q[i]

\* Two tasks of collections, one for each index, touch the data of their index.
Conflict(p, q) ==
  /\ kind[p] # "read" \/ kind[q] # "read"
  /\ kind[p] = "index" /\ kind[q] = "index" => p[Len(p)] = q[Len(q)]

Init ==
  /\ status = [t \in Tasks |-> "unregistered"]
  /\ kind = [t \in Tasks |-> "read"]

\* One task, or all of a collection, by the program or a task that runs.
Register(S, k) ==
  /\ S # {}
  /\ \A t \in S : status[t] = "unregistered"
  /\ status' = [t \in Tasks |-> IF t \in S THEN "registered" ELSE status[t]]
  /\ kind' = [t \in Tasks |-> IF t \in S THEN k ELSE kind[t]]

Start(t) ==
  /\ status[t] = "registered"
  /\ \A p \in Tasks :
       Before(p, t) /\ status[p] # "unregistered" /\ Conflict(p, t) => status[p] = "done"
  /\ status' = [status EXCEPT ![t] = "running"]
  /\ UNCHANGED kind

Finish(t) ==
  /\ status[t] = "running"
  /\ status' = [status EXCEPT ![t] = "done"]
  /\ UNCHANGED kind

\* No task is registered where one that has started should have waited for it.
InOrder(S, k) ==
  \A t \in S, q \in Tasks :
    /\ Before(t, q)
    /\ status[q] \in {"running", "done"}
    => k = "read" /\ kind[q] = "read"

Next ==
  \/ \E S \in SUBSET Tasks, k \in Kinds : Register(S, k) /\ InOrder(S, k)
  \/ \E t \in Tasks : Start(t) \/ Finish(t)

Spec ==
  /\ Init /\ [][Next]_orderVars
  /\ \A t \in Tasks : WF_orderVars(Start(t)) /\ WF_orderVars(Finish(t))

-----------------------------------------------------------------------------
Types ==
  /\ status \in [Tasks -> {"unregistered", "registered", "running", "done"}]
  /\ kind \in [Tasks -> Kinds]

\* Whoever has started has found everything before it that it conflicts with
\* done, and nothing of the kind has been registered since: sequential semantics.
StartedInOrder ==
  \A p, t \in Tasks :
    /\ Before(p, t) /\ Conflict(p, t)
    /\ status[t] \in {"running", "done"}
    /\ status[p] # "unregistered"
    => status[p] = "done"

\* Two tasks that conflict and are not task and subtask never run at once.
NoOverlap ==
  \A p, t \in Tasks :
    status[p] = "running" /\ status[t] = "running" /\ Before(p, t) => ~Conflict(p, t)
=============================================================================
