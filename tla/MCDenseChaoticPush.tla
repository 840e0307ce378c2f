------------------------- MODULE MCDenseChaoticPush -------------------------
(***************************************************************************)
(* Small instances of DenseChaoticPush for TLC.                            *)
(***************************************************************************)
EXTENDS DenseChaoticPush

RunOptions(modes, chunks, limits, early) ==
  [engine : {"dense_chaotic_push"}, control_mode : modes,
   rounds_per_chunk : chunks, maximum_rounds : limits,
   enable_per_lane_convergence : early]

(***************************************************************************)
(* Two sources compete for 1 and 3, which lower each other over a cycle of *)
(* zero-weight edges; what 3 gains in a late round, 4 and 5 gain later     *)
(* still.  Nothing reaches 6.                                              *)
(***************************************************************************)
ContestSource      == <<0, 1, 2, 2, 3, 3, 4>>
ContestDestination == <<1, 3, 1, 3, 1, 4, 5>>
ContestWeight      == <<2, 0, 3, 3, 0, 1, 0>>
ContestTiles       == [v \in 0 .. 6 |-> 0]
ContestTargets     == {3, 6}
ContestOptions     == RunOptions({"persistent_cooperative"}, {1}, {7}, {1})
                        \union RunOptions({"chunked_host_poll"}, {3}, {2}, {0})
FromTwo            == <<0, 2>>
TileZero           == {0}
=============================================================================
