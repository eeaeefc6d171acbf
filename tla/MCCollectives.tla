--------------------------- MODULE MCCollectives ---------------------------
(* An allreduce and a reduction of a collection, which share nothing. *)
EXTENDS AllReduce

CONSTANTS NIndices, Earlier

VARIABLES stage, next_index, data, in_ready, anti_in_ready, using, out_data, reduced

R == INSTANCE ReduceCollection WITH released <- reduced

reduceVars == <<stage, next_index, data, in_ready, anti_in_ready, using, out_data, reduced>>
mcVars == <<vars, reduceVars>>

MCInit == Init /\ R!Init

\* The reduction comes when the allreduce is over, which adds their states up.
Over == released = Indices /\ ~in_map

MCReduce == Over /\ R!Next /\ UNCHANGED vars

MCNext == (Next /\ UNCHANGED reduceVars) \/ MCReduce

MCSpec ==
  /\ MCInit /\ [][MCNext]_mcVars
  /\ \A th \in Threads : WF_mcVars(Step(th) /\ UNCHANGED reduceVars)
  /\ WF_mcVars(Over /\ R!Proceed /\ UNCHANGED vars)

ResultComplete == R!ResultComplete
BothReleased == R!BothReleased
=============================================================================
