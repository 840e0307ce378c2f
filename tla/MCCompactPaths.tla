--------------------------- MODULE MCCompactPaths ---------------------------
(***************************************************************************)
(* A small instance of CompactPaths for TLC.                               *)
(*                                                                         *)
(* In tile 0, vertex 3 is reached through 1 and through 2 at the same      *)
(* cost, and 3 and 4 form a cycle without cost whose edge into 3 has the   *)
(* lowest id, so the walk back from 3 first goes into the cycle and must   *)
(* come back.  Vertex 5 is in tile 1: for a lane without that tile its     *)
(* stale word looks like a way to 4, and with it there is a shorter one.   *)
(***************************************************************************)
EXTENDS CompactPaths

MCSource      == <<0, 0, 0, 1, 2, 2, 3, 4, 5>>
MCDestination == <<1, 2, 5, 3, 3, 5, 4, 3, 4>>
MCWeight      == <<1, 1, 2, 2, 2, 0, 0, 0, 1>>
MCEdgeId      == <<8, 7, 6, 5, 4, 3, 1, 0, 2>>
MCTiles       == <<0, 0, 0, 0, 0, 1>>
MCOwnerTile   == [v \in 0 .. 5 |-> MCTiles[v + 1]]

SourceRecords(l, S) == [i \in 1 .. Cardinality(S) |->
                          [lane |-> l, vertex |-> InOrder(S, LAMBDA x, y : x < y)[i]]]

\* Lane 0 routes within tile 0 to each of its vertices, lane 1 everywhere.
Pair(S, T) ==
  [valid_lane_mask |-> {0, 1},
   tiles   |-> [l \in 0 .. 1 |-> IF l = 0 THEN {0} ELSE {0, 1}],
   sources |-> SourceRecords(0, S) \o SourceRecords(1, T),
   targets |-> [l \in 0 .. 1 |-> IF l = 0 THEN 0 .. 4 ELSE {1, 3, 5}]]

Padded == [valid_lane_mask |-> {1},
           tiles   |-> [l \in 0 .. 1 |-> IF l = 0 THEN {} ELSE {0}],
           sources |-> SourceRecords(1, {0, 1}),
           targets |-> [l \in 0 .. 1 |-> IF l = 0 THEN {} ELSE {4}]]

MCSourceSets == <<{0}, {1}, {2}, {1, 2}, {2, 4}>>
MCOtherSets  == <<{2}, {3, 5}>>

MCBatches ==
  <<Padded>> \o [i \in 1 .. 10 |-> Pair(MCSourceSets[((i - 1) \div 2) + 1],
                                        MCOtherSets[((i - 1) % 2) + 1])]
=============================================================================
