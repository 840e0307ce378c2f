---------------------------- MODULE BatchProblem ----------------------------
(***************************************************************************)
(* The batches a batched engine receives, one BatchDeviceDescription       *)
(* (src/include/bfnew/batch_layout.hpp) after the other, on one resident   *)
(* graph.  Each lane of a batch is a query of its own: its tiles, sources  *)
(* and targets.  A lane mask of the code is a set of lanes.                *)
(***************************************************************************)
EXTENDS Integers, Sequences, FiniteSets, GpuApi

CONSTANTS
  VertexCount, EdgeCount,
  Source, Destination, Weight,   \* CSR order
  OwnerTile, Infinity,
  Batches     \* the descriptions, in the order the host runs them

Vertices  == 0 .. VertexCount - 1
Edges     == 1 .. EdgeCount
Distances == 0 .. Infinity
BatchIds  == 1 .. Len(Batches)

\* validate_device_graph_layout32, and OwnerTile as every graph has it.
ASSUME GraphAssumption ==
  /\ VertexCount \in Nat \ {0}
  /\ EdgeCount \in Nat
  /\ Infinity \in Nat \ {0}
  /\ Source \in [Edges -> Vertices]
  /\ Destination \in [Edges -> Vertices]
  /\ Weight \in [Edges -> 0 .. Infinity - 1]
  /\ \A e, f \in Edges : e < f => Source[e] <= Source[f]
  /\ DOMAIN OwnerTile = Vertices

\* The host prepares a finite list of batches.
ASSUME BatchListAssumption == Len(Batches) \in Nat

\* What validate_batch_description_shape requires of every batch.
ASSUME BatchAssumption ==
  \A b \in BatchIds :
    LET batch == Batches[b]
    IN /\ batch.valid_lane_mask # {}
       /\ batch.valid_lane_mask \subseteq Lanes
       /\ \A l \in batch.valid_lane_mask :
            /\ \E i \in 1 .. Len(batch.sources) : batch.sources[i].lane = l
            /\ batch.targets[l] \in (SUBSET Vertices) \ {{}}
            /\ \A v \in batch.targets[l] : OwnerTile[v] \in batch.tiles[l]
       /\ \A l \in Lanes \ batch.valid_lane_mask :
            batch.tiles[l] = {} /\ batch.targets[l] = {}
       /\ batch.sources \in Seq([lane : Lanes, vertex : Vertices])
       /\ \A i \in 1 .. Len(batch.sources) :
            /\ batch.sources[i].lane \in batch.valid_lane_mask
            /\ OwnerTile[batch.sources[i].vertex]
                 \in batch.tiles[batch.sources[i].lane]
       /\ \A i, j \in 1 .. Len(batch.sources) : i < j =>
            \/ batch.sources[i].lane < batch.sources[j].lane
            \/ /\ batch.sources[i].lane = batch.sources[j].lane
               /\ batch.sources[i].vertex < batch.sources[j].vertex

\* tile_lane_masks[owner_tiles[v]], which is also the lane_mask of v's range.
VertexLanes(b, v) == {l \in Lanes : OwnerTile[v] \in Batches[b].tiles[l]}

\* The vertices of selected_vertex_ranges.
UnionVertices(b) == {v \in Vertices : VertexLanes(b, v) # {}}

\* The prepared mask of the run that holds edge e.
RunLaneMask(b, e) ==
  VertexLanes(b, Source[e]) \intersect VertexLanes(b, Destination[e])

DistinctSourceVertices(b) ==
  {Batches[b].sources[i].vertex : i \in 1 .. Len(Batches[b].sources)}

LaneSources(b, l) ==
  LET entries == SelectSeq(Batches[b].sources, LAMBDA s : s.lane = l)
  IN [i \in 1 .. Len(entries) |-> entries[i].vertex]

(***************************************************************************)
(* Lane l of batch b as a query of its own: what RoutingProblem defines    *)
(* with SelectedTiles <- Batches[b].tiles[l] and the lane's sources, with  *)
(* the batch and the lane as parameters.                                   *)
(***************************************************************************)
\* binary32 addition, as in RoutingProblem.
Plus(a, b) == IF a + b >= Infinity THEN Infinity ELSE a + b

LaneAdmitted(b, l) == {e \in Edges : l \in RunLaneMask(b, e)}

LaneInitial ==
  [b \in BatchIds |-> [l \in Lanes |-> [v \in Vertices |->
     IF [lane |-> l, vertex |-> v] \in
          {Batches[b].sources[i] : i \in 1 .. Len(Batches[b].sources)}
       THEN 0 ELSE Infinity]]]

Lowest(S) == CHOOSE x \in S : \A y \in S : x <= y

LaneRound(b, l, d) ==
  [v \in Vertices |->
     Lowest({d[v]} \union
            {Plus(d[Source[e]], Weight[e]) :
               e \in {f \in LaneAdmitted(b, l) : Destination[f] = v}})]

\* The distances after each round of synchronous_bellman_ford.
LaneRounds(b, l) ==
  LET rounds[k \in Nat] ==
        IF k = 0 THEN LaneInitial[b][l] ELSE LaneRound(b, l, rounds[k - 1])
  IN rounds

LaneReference ==
  [b \in BatchIds |-> [l \in Lanes |-> LaneRounds(b, l)[VertexCount - 1]]]

\* The distances of one lane in an image of all; the words of vertices the
\* lane does not select are stale, and the host reads them as unreached.
LaneDistances(b, l, image) ==
  [v \in Vertices |-> IF l \in VertexLanes(b, v) THEN image[v][l]
                                                 ELSE Infinity]

LaneReached(b, l, image) ==
  \A v \in Batches[b].targets[l] : image[v][l] # Infinity
=============================================================================
