-------------------------- MODULE ReduceCollection --------------------------
(***************************************************************************)
(* Runtime::reduce_collection_use of collectives.cpp: the data of every    *)
(* index of a collection is reduced into the data of one other handle.     *)
(*                                                                         *)
(* The call leaves an action on the in flow of the collection, which       *)
(* leaves another on the anti-in flow of the output, which does it all; so *)
(* one thing is done at a time, in whatever thread, and `stage` says   *)
(* which is next.  The tasks before and after are the environment: they    *)
(* write the indices, use the output, and make the two flows ready.        *)
(* Indices start with 0 here as there.                                     *)
(***************************************************************************)
EXTENDS Naturals

CONSTANTS NIndices,  \* n_indices of the collection control block
          Earlier    \* tasks before the reduction that use the output

VARIABLES stage,      \* of the reduction
          next_index, \* idx, the next to be combined
          data,       \* of an index: what wrote it last
          in_ready, anti_in_ready,  \* the ready triggers waited for
          using,      \* the earlier tasks that still use the output
          out_data,   \* what was combined into the output, or that there is nothing there
          released    \* the uses released

vars == <<stage, next_index, data, in_ready, anti_in_ready, using, out_data, released>>

Idx == 0..(NIndices - 1)

Previous == [kind |-> "previous"]
Destroyed == [kind |-> "destroyed"]
Reduction(sum) == [kind |-> "reduction", sum |-> sum]
One(i) == [j \in Idx |-> IF j = i THEN 1 ELSE 0]

Init ==
  /\ stage = "uncalled" /\ next_index = 0
  /\ data = [i \in Idx |-> "old"]
  /\ in_ready = FALSE /\ anti_in_ready = FALSE
  /\ using = Earlier
  /\ out_data = Previous
  /\ released = {}

-----------------------------------------------------------------------------
(* The tasks around it, ordered by the flows (Flows.tla)                    *)

WriteIndex(i) ==
  /\ data[i] = "old"
  /\ data' = [data EXCEPT ![i] = "new"]
  /\ UNCHANGED <<stage, next_index, in_ready, anti_in_ready, using, out_data, released>>

MakeInReady ==
  /\ ~in_ready
  /\ \A i \in Idx : data[i] = "new"
  /\ in_ready' = TRUE
  /\ UNCHANGED <<stage, next_index, data, anti_in_ready, using, out_data, released>>

FinishUsing(t) ==
  /\ t \in using
  /\ using' = using \ {t}
  /\ UNCHANGED <<stage, next_index, data, in_ready, anti_in_ready, out_data, released>>

\* The anti-in flow waits for whoever wrote the output before, too.
MakeAntiInReady ==
  /\ ~anti_in_ready
  /\ using = {}
  /\ anti_in_ready' = TRUE
  /\ UNCHANGED <<stage, next_index, data, in_ready, using, out_data, released>>

\* A later task that was waiting for the collection's anti-flow.
Overwrite(i) ==
  /\ "in" \in released
  /\ data[i] = "new"
  /\ data' = [data EXCEPT ![i] = "newer"]
  /\ UNCHANGED <<stage, next_index, in_ready, anti_in_ready, using, out_data, released>>

-----------------------------------------------------------------------------
Call ==
  /\ stage = "uncalled"
  /\ stage' = "in_flow"
  /\ UNCHANGED <<next_index, data, in_ready, anti_in_ready, using, out_data, released>>

\* Mutant: the output is taken for free when the collection is there.
InFlowReadyAtOnce ==
  /\ stage = "in_flow" /\ in_ready
  /\ stage' = "destroy"
  /\ UNCHANGED <<next_index, data, in_ready, anti_in_ready, using, out_data, released>>

InFlowReady ==
  /\ stage = "in_flow" /\ in_ready
  /\ stage' = "anti_in_flow"
  /\ UNCHANGED <<next_index, data, in_ready, anti_in_ready, using, out_data, released>>

AntiInFlowReady ==
  /\ stage = "anti_in_flow" /\ anti_in_ready
  /\ stage' = "destroy"
  /\ UNCHANGED <<next_index, data, in_ready, anti_in_ready, using, out_data, released>>

Destroy ==
  /\ stage = "destroy"
  /\ out_data' = Destroyed
  /\ stage' = "copy"
  /\ UNCHANGED <<next_index, data, in_ready, anti_in_ready, using, released>>

\* copy_data of index 0: packed there, unpacked where nothing is constructed.
CopyFirst ==
  /\ stage = "copy"
  /\ out_data' = Reduction(One(0))
  /\ next_index' = 1
  /\ stage' = "combine"
  /\ UNCHANGED <<data, in_ready, anti_in_ready, using, released>>

Combine ==
  /\ stage = "combine" /\ next_index < NIndices
  /\ out_data' = [out_data EXCEPT !.sum[next_index] = @ + 1]
  /\ next_index' = next_index + 1
  /\ UNCHANGED <<stage, data, in_ready, anti_in_ready, using, released>>

\* Mutant: the use of the output is forgotten.
ReleaseInOnly ==
  /\ stage = "combine" /\ next_index >= NIndices
  /\ released' = released \cup {"in"}
  /\ stage' = "done"
  /\ UNCHANGED <<next_index, data, in_ready, anti_in_ready, using, out_data>>

ReleaseIn ==
  /\ stage = "combine" /\ next_index >= NIndices
  /\ released' = released \cup {"in"}
  /\ stage' = "release_out"
  /\ UNCHANGED <<next_index, data, in_ready, anti_in_ready, using, out_data>>

ReleaseOut ==
  /\ stage = "release_out"
  /\ released' = released \cup {"out"}
  /\ stage' = "done"
  /\ UNCHANGED <<next_index, data, in_ready, anti_in_ready, using, out_data>>

Proceed ==
  \/ InFlowReady \/ AntiInFlowReady \/ Destroy \/ CopyFirst \/ Combine \/ ReleaseIn \/ ReleaseOut

Environment ==
  \/ \E i \in Idx : WriteIndex(i) \/ Overwrite(i)
  \/ MakeInReady
  \/ \E t \in Earlier : FinishUsing(t)
  \/ MakeAntiInReady

Next == Call \/ Proceed \/ Environment

\* Whoever makes a flow ready goes on with the reduction; the rest need not happen.
Spec == Init /\ [][Next]_vars /\ WF_vars(Proceed)

-----------------------------------------------------------------------------
\* From the copy of the first index to the last reduction into the output, no
\* earlier task uses the output and no task writes an index; what is released
\* is the reduction of every index, each of them once.
ResultComplete ==
  /\ stage \in {"copy", "combine"} =>
       using = {} /\ \A i \in Idx : i >= next_index => data[i] = "new"
  /\ "out" \in released => out_data = Reduction([i \in Idx |-> 1])

\* What keeps the reduction from going on is nothing but its two flows.
BothReleased ==
  stage # "uncalled" /\ in_ready /\ anti_in_ready ~> released = {"in", "out"}
=============================================================================
