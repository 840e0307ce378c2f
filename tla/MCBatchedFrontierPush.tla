----------------------- MODULE MCBatchedFrontierPush -----------------------
(***************************************************************************)
(* Small instances of BatchedFrontierPush for TLC.                         *)
(***************************************************************************)
EXTENDS BatchedFrontierPush

RunOptions(modes, chunks, limits, early) ==
  [engine : {"frontier_push"}, control_mode : modes, rounds_per_chunk : chunks,
   maximum_rounds : limits, enable_per_lane_convergence : early]

(***************************************************************************)
(* The sources of two lanes share vertex 1 and contend for 3 and 4.  Tile  *)
(* 1 (vertex 5) belongs to lane 0 alone and tile 2 (vertex 6) to lane 1.   *)
(* The queues have room for three vertices.  The second round queues 2, 4  *)
(* and 6, and 5 as well when 3 lowers 4 before 4 relaxes 5.  Lane 1 is     *)
(* done a round before lane 0.                                             *)
(***************************************************************************)
MCSource      == <<0, 0, 1, 1, 2, 2, 3, 3, 4, 4>>
MCDestination == <<3, 5, 3, 4, 3, 4, 4, 6, 2, 5>>
MCWeight      == <<2, 2, 1, 3, 0, 2, 0, 0, 0, 0>>
MCTiles       == <<0, 0, 0, 0, 0, 1, 2>>
MCOwnerTile   == [v \in 0 .. 6 |-> MCTiles[v + 1]]

Both == [valid_lane_mask |-> {0, 1},
         tiles   |-> [l \in 0 .. 1 |-> IF l = 0 THEN {0, 1} ELSE {0, 2}],
         sources |-> <<[lane |-> 0, vertex |-> 0], [lane |-> 0, vertex |-> 1],
                       [lane |-> 1, vertex |-> 1], [lane |-> 1, vertex |-> 2]>>,
         targets |-> [l \in 0 .. 1 |-> IF l = 0 THEN {5} ELSE {4, 0}]]

Padded == [valid_lane_mask |-> {1},
           tiles   |-> [l \in 0 .. 1 |-> IF l = 0 THEN {} ELSE {0, 1}],
           sources |-> <<[lane |-> 1, vertex |-> 4]>>,
           targets |-> [l \in 0 .. 1 |-> IF l = 0 THEN {} ELSE {3}]]

MCBatches == <<Both, Padded>>

MCOptions == RunOptions({"persistent_cooperative"}, {1}, {5}, {1})
               \union RunOptions({"chunked_host_poll"}, {2}, {2}, {0})
=============================================================================
