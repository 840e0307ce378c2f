--------------------------- MODULE MCFrontierPush ---------------------------
(***************************************************************************)
(* Small instances of FrontierPush for TLC.                                *)
(***************************************************************************)
EXTENDS FrontierPush

RunOptions(modes, chunks, limits) ==
  [engine : {"frontier_push"}, control_mode : modes, rounds_per_chunk : chunks,
   maximum_rounds : limits, enable_per_lane_convergence : {1}]

(***************************************************************************)
(* The vertices 1, 2, 3 of the second frontier race: they queue 2, 4 and 5 *)
(* in every order, and 3 only when 1 lowers 2 before 2 relaxes 3, so that  *)
(* a queue of three overflows in some orders alone.  5 is lowered by 1, 2  *)
(* and 4.  The sum of 3 -> 4 exceeds the largest finite distance.  7 lies  *)
(* in a tile outside the bounding box: it would be a shortcut to 2, and is *)
(* the only way to 6.                                                      *)
(*                                                                         *)
(* Two rounds end in an overflow or with vertices left, four rounds in     *)
(* convergence: a limit of 2 meets the one, a limit of 4 the other, and    *)
(* chunks of three go on after both.                                       *)
(***************************************************************************)
RaceSource      == <<0, 0, 0, 0, 1, 1, 1, 2, 2, 3, 4, 7, 7>>
RaceDestination == <<1, 2, 3, 7, 2, 5, 4, 3, 5, 4, 5, 2, 6>>
RaceWeight      == <<1, 3, 4, 0, 0, 3, 0, 2, 2, 2, 0, 0, 0>>
RaceTiles       == [v \in 0 .. 7 |-> IF v = 7 THEN 1 ELSE 0]
RaceTargets     == {4, 5}
RaceOptions     == RunOptions({"persistent_cooperative"}, {1}, {2, 4})
                     \union RunOptions({"chunked_host_poll"}, {3}, {8})

(***************************************************************************)
(* The vertices 3 and 4 are reached early over a dear edge and lowered     *)
(* again by a longer, cheaper way, so that each is queued twice.  The      *)
(* fifth round finds nothing: the limits stop the run early, in that round *)
(* and not at all.                                                         *)
(***************************************************************************)
RequeueSource      == <<0, 0, 1, 2, 3>>
RequeueDestination == <<1, 3, 2, 3, 4>>
RequeueWeight      == <<0, 3, 0, 0, 1>>
RequeueTiles       == [v \in 0 .. 4 |-> 0]
RequeueOptions     == RunOptions(ControlModes, {3}, {2, 5, 6})
RequeueTargets     == {2, 4}

FromZero == <<0>>
TileZero == {0}
=============================================================================
