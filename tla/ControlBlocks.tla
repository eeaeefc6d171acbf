--------------------------- MODULE ControlBlocks ---------------------------
(***************************************************************************)
(* flow/control_block.hpp: who owns the user's data.  Flows hold control   *)
(* blocks by shared pointers, the block of an index points into the data   *)
(* of its collection, and that of a fetching use into a published copy.    *)
(*                                                                         *)
(* A flow never changes the block it holds, so flows are counted for each  *)
(* block.  Data is a cell <<b, i>>: the i-th object in what block b        *)
(* allocated.  Blocks without a handle or data of their own, made for the  *)
(* out flows of indices, are left out: nobody reads through them.          *)
(***************************************************************************)
EXTENDS Naturals, FiniteSets

CONSTANTS NBlocks, NFlows,  \* bounds: how many blocks are made, and flows share one
          NIndices          \* of a collection

Blocks == 1..NBlocks
Idx == 0..(NIndices - 1)
Cells == Blocks \X Idx
NoData == <<0, 0>>
NoBlock == 0

VARIABLES made,         \* how many blocks were made
          kind,         \* how a block was made
          status,       \* "held", "base": ~ControlBlock comes next, or "gone"
          data, owns_data, parent_collection,
          flows,        \* how many flows hold it
          constructed,  \* the cells that ever were
          destroyed,    \* how often a cell was destroyed
          deleted       \* how often what a block allocated was deleted

memoryVars == <<constructed, destroyed, deleted>>
vars == <<made, kind, status, data, owns_data, parent_collection, flows, memoryVars>>

Init ==
  /\ made = 0
  /\ kind = [b \in Blocks |-> "none"] /\ status = [b \in Blocks |-> "none"]
  /\ data = [b \in Blocks |-> NoData]
  /\ owns_data = [b \in Blocks |-> FALSE]
  /\ parent_collection = [b \in Blocks |-> NoBlock]
  /\ flows = [b \in Blocks |-> 0]
  /\ constructed = {}
  /\ destroyed = [c \in Cells |-> 0] /\ deleted = [b \in Blocks |-> 0]

-----------------------------------------------------------------------------
(* The constructors, each for a flow that is made with it                   *)

Make(k, cell, owns, parent, cells) ==
  LET b == made + 1 IN
  /\ made < NBlocks
  /\ made' = b
  /\ kind' = [kind EXCEPT ![b] = k]
  /\ status' = [status EXCEPT ![b] = "held"]
  /\ data' = [data EXCEPT ![b] = cell]
  /\ owns_data' = [owns_data EXCEPT ![b] = owns]
  /\ parent_collection' = [parent_collection EXCEPT ![b] = parent]
  /\ flows' = [flows EXCEPT ![b] = 1]
  /\ constructed' = constructed \cup cells
  /\ UNCHANGED <<destroyed, deleted>>

MakeInitial == Make("initial", <<made + 1, 0>>, TRUE, NoBlock, {<<made + 1, 0>>})

MakeInitialCollection ==
  Make("collection", <<made + 1, 0>>, TRUE, NoBlock, {made + 1} \X Idx)

\* Mutant: the collection that the data belongs to is not kept.
MakeIndexedAlone(b, i) ==
  /\ kind[b] = "collection" /\ flows[b] > 0
  /\ Make("indexed", <<b, i>>, FALSE, NoBlock, {})

\* register_use, IndexedLocal
MakeIndexed(b, i) ==
  /\ kind[b] = "collection" /\ flows[b] > 0
  /\ Make("indexed", <<b, i>>, FALSE, b, {})

\* publish_use: a copy for the entry, of what the published flow holds.
MakeCopy(b) ==
  /\ kind[b] = "indexed" /\ flows[b] > 0
  /\ Make("copy", <<made + 1, 0>>, TRUE, NoBlock, {<<made + 1, 0>>})

\* register_use, IndexedFetching, which gets its data later.
MakeFetching ==
  /\ \E b \in Blocks : kind[b] = "collection" /\ flows[b] > 0
  /\ Make("fetching", NoData, FALSE, NoBlock, {})

Deliver(b, copy) ==
  /\ kind[b] = "fetching" /\ status[b] = "held" /\ data[b] = NoData
  /\ kind[copy] = "copy" /\ flows[copy] > 0
  /\ data' = [data EXCEPT ![b] = data[copy]]
  /\ UNCHANGED <<made, kind, status, owns_data, parent_collection, flows, memoryVars>>

\* Another flow for the same data: the next, or an out flow; or a copy of the pointer.
Share(b) ==
  /\ flows[b] \in 1..(NFlows - 1)
  /\ kind[b] # "copy"
  /\ flows' = [flows EXCEPT ![b] = @ + 1]
  /\ UNCHANGED <<made, kind, status, data, owns_data, parent_collection, memoryVars>>

\* The token keeps the entries; whoever fetches keeps the token (external).
InUse(copy) == \E b \in Blocks : kind[b] = "fetching" /\ flows[b] > 0 /\ data[b] = data[copy]

DropFlow(b) ==
  /\ flows[b] > 0
  /\ kind[b] = "copy" => ~InUse(b)
  /\ flows' = [flows EXCEPT ![b] = @ - 1]
  /\ UNCHANGED <<made, kind, status, data, owns_data, parent_collection, memoryVars>>

-----------------------------------------------------------------------------
(* The destructors, run by whoever drops the last reference                 *)

Unreferenced(b) ==
  flows[b] = 0 /\ \A c \in Blocks : parent_collection[c] = b => status[c] = "gone"

DestroyData(b, cells) ==
  /\ destroyed' = [c \in Cells |-> IF c \in cells THEN destroyed[c] + 1 ELSE destroyed[c]]
  /\ deleted' = [deleted EXCEPT ![b] = @ + 1]

\* Mutant: the base class finds that the data is its own.
DestroyCollectionTwice(b) ==
  /\ status[b] = "held" /\ kind[b] = "collection"
  /\ Unreferenced(b)
  /\ DestroyData(b, {b} \X Idx)
  /\ status' = [status EXCEPT ![b] = "base"]
  /\ UNCHANGED <<made, kind, data, owns_data, parent_collection, flows, constructed>>

DestroyCollection(b) ==
  /\ status[b] = "held" /\ kind[b] = "collection"
  /\ Unreferenced(b)
  /\ DestroyData(b, {b} \X Idx)
  /\ owns_data' = [owns_data EXCEPT ![b] = FALSE]
  /\ status' = [status EXCEPT ![b] = "base"]
  /\ UNCHANGED <<made, kind, data, parent_collection, flows, constructed>>

\* ~ControlBlock; with the block goes its pointer to the collection's.
DestroyBlock(b) ==
  /\ \/ status[b] = "held" /\ kind[b] # "collection" /\ Unreferenced(b)
     \/ status[b] = "base"
  /\ IF owns_data[b] THEN DestroyData(b, {data[b]}) ELSE UNCHANGED <<destroyed, deleted>>
  /\ status' = [status EXCEPT ![b] = "gone"]
  /\ UNCHANGED <<made, kind, data, owns_data, parent_collection, flows, constructed>>

Next ==
  \/ MakeInitial \/ MakeInitialCollection \/ MakeFetching
  \/ \E b \in Blocks : \/ \E i \in Idx : MakeIndexed(b, i)
                       \/ \E copy \in Blocks : Deliver(b, copy)
                       \/ MakeCopy(b) \/ Share(b) \/ DropFlow(b)
                       \/ DestroyCollection(b) \/ DestroyBlock(b)

Spec == Init /\ [][Next]_vars

-----------------------------------------------------------------------------
\* Whatever a flow leads to is data that was constructed and is neither
\* destroyed nor deleted, in whatever order the flows that share it and, once no
\* fetcher of theirs is left (InUse), the copies of tables go; and nothing is
\* destroyed or deleted twice.
DataOutlivesFlows ==
  /\ \A b \in Blocks : flows[b] > 0 /\ data[b] # NoData =>
       data[b] \in constructed /\ destroyed[data[b]] = 0 /\ deleted[data[b][1]] = 0
  /\ \A c \in Cells : destroyed[c] <= 1
  /\ \A b \in Blocks : deleted[b] <= 1
=============================================================================
