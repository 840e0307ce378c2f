---------------------------- MODULE MCJacobiPull ----------------------------
(***************************************************************************)
(* Small instances of JacobiPull for TLC.                                  *)
(***************************************************************************)
EXTENDS JacobiPull

RunOptions(modes, chunks, limits) ==
  [engine : {"jacobi_pull"}, control_mode : modes, rounds_per_chunk : chunks,
   maximum_rounds : limits, enable_per_lane_convergence : Slots]

(***************************************************************************)
(* Two sources over a graph with a zero-weight cycle 2, 3.  The late offer *)
(* of 5 lowers 2, then 3 alone in a round of its own, then 4, then 6.      *)
(* Nothing reaches 7.                                                      *)
(***************************************************************************)
WebSource      == <<0, 0, 0, 1, 1, 2, 3, 3, 4, 5, 7>>
WebDestination == <<2, 4, 5, 2, 3, 3, 2, 4, 6, 2, 6>>
WebWeight      == <<4, 2, 1, 3, 4, 0, 0, 0, 0, 0, 1>>
WebTiles       == [v \in 0 .. 7 |-> 0]
WebTargets     == {6, 7}
WebOptions     ==
  RunOptions({"persistent_cooperative"}, {1}, {8})
    \union RunOptions({"chunked_host_poll"}, {4}, {3, 6})
FromTwo        == <<0, 1>>
TileZero       == {0}
=============================================================================
