---------------------------- MODULE TileDirectory ----------------------------
(***************************************************************************)
(* The TileDirectory of a resident graph (src/src/tiled_graph.cpp): by     *)
(* tile, the neighbouring tiles, the edges within it, the edges that leave *)
(* and enter it, and its halo, the foreign vertices its edges touch.       *)
(*                                                                         *)
(* Groups are kept the way the code keeps them, flattened into one         *)
(* sequence of values with the offset at which each tile's group begins.   *)
(***************************************************************************)
EXTENDS TileLayout, SequencesExt

\* flatten_groups; groups maps every tile to a sequence.
FlattenGroups(groups) ==
  [offsets |-> [t \in 0 .. TileCount |->
                  MapThenSumSet(LAMBDA u : Len(groups[u]), 0 .. t - 1)],
   values  |-> FlattenSeq([n \in 1 .. TileCount |-> groups[n - 1]])]

Group(flat, t) == SubSeq(flat.values, flat.offsets[t] + 1, flat.offsets[t + 1])

SourceTile(e)      == OwnerTile[NewSource[e]]
DestinationTile(e) == OwnerTile[NewDestination[e]]
CrossEdges         == {e \in Edges : SourceTile(e) # DestinationTile(e)}

\* expected_neighbor_groups.  A coordinate at the end of its word has no
\* neighbour beyond it, and no tile lies there.
TileNeighbors(t) ==
  LET At(x, y) == {u \in LocatedTiles : TileX[u] = x /\ TileY[u] = y}
      geometric ==
        IF t = SpillTile THEN {}
        ELSE UNION {At(TileX[t] + d[1], TileY[t] + d[2]) :
                      d \in ((-1 .. 1) \X (-1 .. 1)) \ {<<0, 0>>}}
      byEdge == {u \in Tiles : \E e \in CrossEdges :
                   /\ {SourceTile(e), DestinationTile(e)} = {t, u}
                   /\ SpillTile \in {t, u}}
      Key(u) == <<u>>
  IN SortedBy(geometric \union (byEdge \ {t}), Key)

\* expected_halo_groups
TileHalo(t) ==
  LET Key(v) == <<OwnerTile[v], v>>
  IN SortedBy({NewDestination[e] : e \in {f \in CrossEdges : SourceTile(f) = t}}
                \union
              {NewSource[e] : e \in {f \in CrossEdges : DestinationTile(f) = t}},
              Key)

\* The three edge lists of a tile, in the order of the rows and the columns.
InternalEdges(t) ==
  SelectSeq(CsrEdges, LAMBDA e : {SourceTile(e), DestinationTile(e)} = {t})
OutgoingCrossEdges(t) ==
  SelectSeq(CsrEdges, LAMBDA e : e \in CrossEdges /\ SourceTile(e) = t)
IncomingCrossEdges(t) ==
  SelectSeq(CscEdges, LAMBDA e : e \in CrossEdges /\ DestinationTile(e) = t)

BuildTileDirectory ==
  [spill_tile           |-> SpillTile,
   neighbor_tiles       |-> FlattenGroups([t \in Tiles |-> TileNeighbors(t)]),
   internal_edges       |-> FlattenGroups([t \in Tiles |-> InternalEdges(t)]),
   outgoing_cross_edges |->
     FlattenGroups([t \in Tiles |-> OutgoingCrossEdges(t)]),
   incoming_cross_edges |->
     FlattenGroups([t \in Tiles |-> IncomingCrossEdges(t)]),
   halo_vertices        |-> FlattenGroups([t \in Tiles |-> TileHalo(t)])]

-----------------------------------------------------------------------------
(***************************************************************************)
(* validate_tile_directory                                                 *)
(***************************************************************************)
\* valid_group_offsets
ValidGroupOffsets(flat) ==
  /\ DOMAIN flat.offsets = 0 .. TileCount
  /\ flat.offsets[0] = 0
  /\ flat.offsets[TileCount] = Len(flat.values)
  /\ \A t \in Tiles : flat.offsets[t] <= flat.offsets[t + 1]

\* Sorted, mutual, and the ones the graph says.
ValidNeighbors(flat) ==
  \A t \in Tiles :
    LET group == Group(flat, t)
    IN /\ \A n \in DOMAIN group :
            /\ group[n] \in Tiles \ {t}
            /\ n > 1 => group[n - 1] < group[n]
            /\ t \in Range(Group(flat, group[n]))
       /\ group = TileNeighbors(t)

\* index_graph_edges: the position of an edge in its row or column.
CsrRank(e) == CHOOSE p \in Edges : CsrEdges[p] = e
CscRank(e) == CHOOSE p \in Edges : CscEdges[p] = e

\* validate_source_list: the right edges, each once, in the order of the rows.
ValidSourceList(flat, internal) ==
  \A t \in Tiles :
    LET group == Group(flat, t)
    IN \A n \in DOMAIN group :
         /\ group[n] \in Edges
         /\ SourceTile(group[n]) = t
         /\ internal <=> group[n] \notin CrossEdges
         /\ n > 1 => CsrRank(group[n - 1]) < CsrRank(group[n])

ValidIncomingList(flat) ==
  \A t \in Tiles :
    LET group == Group(flat, t)
    IN \A n \in DOMAIN group :
         /\ group[n] \in CrossEdges
         /\ DestinationTile(group[n]) = t
         /\ n > 1 => CscRank(group[n - 1]) < CscRank(group[n])

\* Every edge is classified by its source, and seen from its destination just
\* when it crosses.
EveryEdgeClassified(directory) ==
  /\ Range(directory.internal_edges.values)
       \union Range(directory.outgoing_cross_edges.values) = Edges
  /\ Range(directory.incoming_cross_edges.values) = CrossEdges

ValidHalos(flat) ==
  \A t \in Tiles :
    LET group == Group(flat, t)
    IN /\ \A n \in DOMAIN group :
            /\ group[n] \in Vertices
            /\ OwnerTile[group[n]] # t
            /\ n > 1 => TupleLess(<<OwnerTile[group[n - 1]], group[n - 1]>>,
                                  <<OwnerTile[group[n]], group[n]>>)
       /\ group = TileHalo(t)

ValidTileDirectory(directory) ==
  /\ ValidWeightedGraph
  /\ directory.spill_tile = SpillTile
  /\ \A flat \in {directory.neighbor_tiles, directory.internal_edges,
                  directory.outgoing_cross_edges,
                  directory.incoming_cross_edges, directory.halo_vertices} :
       ValidGroupOffsets(flat)
  /\ ValidNeighbors(directory.neighbor_tiles)
  /\ ValidSourceList(directory.internal_edges, TRUE)
  /\ ValidSourceList(directory.outgoing_cross_edges, FALSE)
  /\ ValidIncomingList(directory.incoming_cross_edges)
  /\ EveryEdgeClassified(directory)
  /\ ValidHalos(directory.halo_vertices)
=============================================================================
