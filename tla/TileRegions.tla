----------------------------- MODULE TileRegions -----------------------------
(***************************************************************************)
(* Bounding boxes over the tiled graph: the tile directory of              *)
(* src/src/tiled_graph.cpp, the tiles a new query selects                  *)
(* (src/src/query.cpp) and the tiles a retry selects                       *)
(* (src/src/batched_expansion.cpp).  A tile has a coordinate, except the   *)
(* last, the spill tile, which owns the vertices without a location.       *)
(*                                                                         *)
(* The int64 saturation of a box is not modelled: a bound past every tile  *)
(* coordinate admits the same tiles wherever it lies.                      *)
(***************************************************************************)
EXTENDS Integers, FiniteSets, FiniteSetsExt

CONSTANTS
  VertexCount, EdgeCount,
  Source, Destination,      \* endpoints of the edges
  OwnerTile,                \* owner_tiles
  TileCount,
  TileX, TileY              \* coordinates of the located tiles

Vertices == 0 .. VertexCount - 1
Edges    == 1 .. EdgeCount
Tiles    == 0 .. TileCount - 1

SpillTile    == TileCount - 1
LocatedTiles == Tiles \ {SpillTile}

ASSUME TileAssumption ==
  /\ VertexCount \in Nat \ {0}
  /\ EdgeCount \in Nat
  /\ TileCount \in Nat \ {0}
  /\ Source \in [Edges -> Vertices]
  /\ Destination \in [Edges -> Vertices]
  /\ OwnerTile \in [Vertices -> Tiles]
  /\ TileX \in [LocatedTiles -> Int]
  /\ TileY \in [LocatedTiles -> Int]
  /\ \A t, u \in LocatedTiles :
       TileX[t] = TileX[u] /\ TileY[t] = TileY[u] => t = u

\* expected_neighbor_groups: the eight geometric neighbours of a located tile;
\* the spill tile is adjacent to the tiles it shares an edge with.
NeighborTiles(t) ==
  LET Touch(u) == /\ {t, u} \subseteq LocatedTiles
                  /\ TileX[u] - TileX[t] \in -1 .. 1
                  /\ TileY[u] - TileY[t] \in -1 .. 1
      Share(u) == /\ SpillTile \in {t, u}
                  /\ \E e \in Edges : {OwnerTile[Source[e]],
                                       OwnerTile[Destination[e]]} = {t, u}
  IN {u \in Tiles \ {t} : Touch(u) \/ Share(u)}

\* located_bounds
NoBounds == [present |-> FALSE]

LocatedBounds(tiles) ==
  LET located == tiles \intersect LocatedTiles
  IN IF located = {} THEN NoBounds
     ELSE [present   |-> TRUE,
           minimum_x |-> Min({TileX[t] : t \in located}),
           minimum_y |-> Min({TileY[t] : t \in located}),
           maximum_x |-> Max({TileX[t] : t \in located}),
           maximum_y |-> Max({TileY[t] : t \in located})]

\* The located tiles of a rectangle, with a margin around it.
BoxTiles(bounds, margin) ==
  {t \in LocatedTiles :
     /\ TileX[t] \in bounds.minimum_x - margin .. bounds.maximum_x + margin
     /\ TileY[t] \in bounds.minimum_y - margin .. bounds.maximum_y + margin}

\* select_tiles: the box of a new query.
SelectTiles(terminals, padding) ==
  LET owners  == {OwnerTile[v] : v \in terminals}
      located == LocatedBounds(owners)
  IN (IF located.present THEN BoxTiles(located, padding) ELSE {})
       \union (owners \intersect {SpillTile})

\* The end of expanded_tiles: the spill tile enters by adjacency to a selected
\* located tile, and stays.
AdmitSpill(tiles) ==
  IF \E t \in tiles \intersect LocatedTiles : SpillTile \in NeighborTiles(t)
    THEN tiles \union {SpillTile}
    ELSE tiles

\* What the engines' relaxation reaches from the sources within the tiles.
ReachableWithin(sources, tiles) ==
  LET selected == {e \in Edges : {OwnerTile[Source[e]],
                                  OwnerTile[Destination[e]]} \subseteq tiles}
      Step(from) ==
        from \union {Destination[e] : e \in {f \in selected : Source[f] \in from}}
      reached[k \in 0 .. VertexCount] ==
        IF k = 0 THEN sources ELSE Step(reached[k - 1])
  IN reached[VertexCount]
=============================================================================
