--------------------------- MODULE MCBatchedSweep ---------------------------
(***************************************************************************)
(* Small instances of BatchedSweep for TLC.                                *)
(***************************************************************************)
EXTENDS BatchedSweep

RunOptions(engine, modes, chunks, limits, early) ==
  [engine : {engine}, control_mode : modes, rounds_per_chunk : chunks,
   maximum_rounds : limits, enable_per_lane_convergence : early]

(***************************************************************************)
(* Lane 0 goes 0 -> 2 -> 3 -> 4 in three tiles and needs a round for every *)
(* hop; lane 1 starts at 1, has 2 and 3 alone and is done two rounds       *)
(* earlier.  Row 2 has a run to its own tile and one to the next.  In the  *)
(* second batch lane 1 has lost the tile of 1 and cannot reach 2.          *)
(***************************************************************************)
MCSource      == <<0, 0, 1, 1, 2, 2, 3>>
MCDestination == <<2, 3, 2, 3, 3, 4, 4>>
MCWeight      == <<1, 4, 2, 3, 1, 4, 1>>
MCTiles       == <<0, 0, 1, 1, 2>>
MCOwnerTile   == [v \in 0 .. 4 |-> MCTiles[v + 1]]

Both == [valid_lane_mask |-> {0, 1},
         tiles   |-> [l \in 0 .. 1 |-> IF l = 0 THEN {0, 1, 2} ELSE {0, 1}],
         sources |-> <<[lane |-> 0, vertex |-> 0], [lane |-> 1, vertex |-> 1]>>,
         targets |-> [l \in 0 .. 1 |-> IF l = 0 THEN {4} ELSE {3, 0}]]

Padded == [valid_lane_mask |-> {1},
           tiles   |-> [l \in 0 .. 1 |-> IF l = 0 THEN {} ELSE {1, 2}],
           sources |-> <<[lane |-> 1, vertex |-> 3]>>,
           targets |-> [l \in 0 .. 1 |-> IF l = 0 THEN {} ELSE {2, 4}]]

MCBatches == <<Both, Padded>>

MCOptions ==
  UNION {RunOptions(engine, {"persistent_cooperative"}, {1}, {5}, {0, 1})
           \union RunOptions(engine, {"chunked_host_poll"}, {2}, {2}, {1}) :
         engine \in {"jacobi_pull", "dense_chaotic_push"}}
=============================================================================
