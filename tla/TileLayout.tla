------------------------------ MODULE TileLayout ------------------------------
(***************************************************************************)
(* The tile runs of the resident graph (src/src/device_layout.cpp) and     *)
(* the index that prices a set of tiles without looking at its vertices    *)
(* (src/src/selected_region_index.cpp).                                    *)
(*                                                                         *)
(* A run is a stretch of one row (or column) whose other endpoints share   *)
(* a tile.  The engines decide once per run which lanes may use its edges. *)
(***************************************************************************)
EXTENDS WeightedGraph, FiniteSetsExt

CONSTANTS CsrRuns, CscRuns  \* BuildRuns of SpatialGraph

\* validate_tile_run_layout, of either orientation.
ValidRuns(runs, local, remote) ==
  /\ UNION {runs[n].positions : n \in DOMAIN runs} = Edges
  /\ \A n \in DOMAIN runs :
       LET run == runs[n]
       IN /\ run.positions # {}
          /\ run.tile \in Tiles
          /\ \A p \in run.positions : /\ local[p] = run.local
                                      /\ OwnerTile[remote[p]] = run.tile
          /\ n > 1 =>
               /\ Min(run.positions) = Max(runs[n - 1].positions) + 1
               /\ \/ run.local > runs[n - 1].local
                  \/ /\ run.local = runs[n - 1].local
                     /\ run.tile # runs[n - 1].tile

ValidTileRunLayout ==
  /\ ValidWeightedGraph
  /\ ValidRuns(CsrRuns, CsrSource, CsrDestination)
  /\ ValidRuns(CscRuns, CscDestination, CscSource)

-----------------------------------------------------------------------------
(***************************************************************************)
(* Lane masks of the runs                                                  *)
(***************************************************************************)
\* compute_tile_run_lane_masks
TileRunLaneMasks(runs, tileMasks) ==
  [n \in DOMAIN runs |->
     tileMasks[OwnerTile[runs[n].local]] \intersect tileMasks[runs[n].tile]]

\* prove_run_admission_equivalence, of either orientation: the mask of a run
\* is what the endpoints of each of its edges admit.
AdmissionIsExact(runs, runMasks, remote, tileMasks) ==
  /\ DOMAIN runMasks = DOMAIN runs
  /\ \A n \in DOMAIN runs : \A p \in runs[n].positions :
       runMasks[n] = tileMasks[OwnerTile[runs[n].local]]
                       \intersect tileMasks[OwnerTile[remote[p]]]

RunAdmissionEquivalence(tileMasks, csrMasks, cscMasks) ==
  /\ ValidTileRunLayout
  /\ AdmissionIsExact(CsrRuns, csrMasks, CsrDestination, tileMasks)
  /\ AdmissionIsExact(CscRuns, cscMasks, CscSource, tileMasks)

-----------------------------------------------------------------------------
(***************************************************************************)
(* SelectedRegionIndex                                                     *)
(***************************************************************************)
TileVertexCount ==
  [t \in Tiles |-> TileVertexOffsets[t + 1] - TileVertexOffsets[t]]

\* outgoing_: the edges from a tile to another, coalesced over its rows.
OutgoingEdges ==
  [t, u \in Tiles |->
     MapThenSumSet(LAMBDA n : Cardinality(CsrRuns[n].positions),
                   {n \in DOMAIN CsrRuns : /\ OwnerTile[CsrRuns[n].local] = t
                                           /\ CsrRuns[n].tile = u})]

SelectedVertexCount(tiles) ==
  MapThenSumSet(LAMBDA t : TileVertexCount[t], tiles)

SelectedEdgeCount(tiles) ==
  MapThenSumSet(LAMBDA pair : OutgoingEdges[pair], tiles \X tiles)

\* The vertices of a tile, which are numbered in one stretch.
VertexRange(t) == TileVertexOffsets[t] .. TileVertexOffsets[t + 1] - 1
=============================================================================
