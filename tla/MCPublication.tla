---------------------------- MODULE MCPublication ----------------------------
(* Three indices: two fetch from each other, and two from the same one; and  *)
(* the control blocks that the flows of any such program share.              *)
EXTENDS Publication

CONSTANTS i1, i2, i3, NBlocks, NFlows, NIndices

VARIABLES made, kind, status, block_data, owns_data, parent_collection, flows,
          constructed, destroyed, deleted

B == INSTANCE ControlBlocks WITH data <- block_data

blockVars == <<made, kind, status, block_data, owns_data, parent_collection, flows,
               constructed, destroyed, deleted>>
mcVars == <<vars, blockVars>>

MCIndices == {i1, i2, i3}
MCFetches == {<<i1, i2>>, <<i2, i1>>, <<i3, i1>>}

\* Nobody has to wait for what the third index fetches.
MCHeld == {<<i1, i2>>, <<i2, i1>>}

MCInit == Init /\ B!Init

\* One or the other, so that their states add up.
Publishing == made = 0 /\ UNCHANGED blockVars
NonePublished == entry = {} /\ in_ready = {} /\ UNCHANGED vars

MCNext == (Publishing /\ Next) \/ (NonePublished /\ B!Next)

MCSpec ==
  /\ MCInit /\ [][MCNext]_mcVars
  /\ \A th \in Threads : WF_mcVars(Publishing /\ Step(th))
  /\ \A q \in Fetches : WF_mcVars(Publishing /\ (Read(q) \/ Drop(q)))

DataOutlivesFlows == B!DataOutlivesFlows
=============================================================================
