---------------------------- MODULE MCScheduler ----------------------------
(* Instances of Scheduler for TLC. *)
EXTENDS Scheduler

CONSTANTS root, a, a1, b, x1, x2

\* The program registers a, then b that needs a's data, then the collection
\* {x1, x2} whose index 2 also needs b's; a passes its data on to its subtask a1.
MCTasks == {root, a, a1, b, x1, x2}
MCParentOf == [t \in MCTasks |-> IF t = a1 THEN a ELSE root]
MCCollections == {{x1, x2}}
MCDependsOn == [t \in MCTasks |-> CASE t \in {b, x1} -> {a}
                                     [] t = x2 -> {a, b}
                                     [] OTHER -> {}]
MCAlias == [t \in MCTasks |-> IF t = a THEN a1 ELSE NoTask]
=============================================================================
