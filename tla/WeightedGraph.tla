---------------------------- MODULE WeightedGraph ----------------------------
(***************************************************************************)
(* A WeightedGraph (src/include/bfnew/graph.hpp): the vertices in spatial  *)
(* order, with their tiles, and the two adjacency arrays.  SpatialGraph    *)
(* says how build_weighted_graph fills it; here are the arrays as the      *)
(* other parts find them, and the validator they are given to.             *)
(*                                                                         *)
(* An array is a function on its indices.  Vertices and tiles count from   *)
(* 0, as in the code; edge identities and positions count from 1.          *)
(***************************************************************************)
EXTENDS Integers, Sequences, FiniteSets

CONSTANTS
  VertexCount, EdgeCount, TileCount,
  OldToNew, NewToOld,
  OwnerTile, TileVertexOffsets,
  TileX, TileY,                       \* tile_coordinates
  NewSource, NewDestination, Weight,  \* by edge identity
  Provenance,
  CsrEdges, CscEdges,                 \* edge identities by position
  Infinity                            \* positive_infinity_bits

\* std::tuple's order on integers.
TupleLess(s, t) ==
  \E i \in 1 .. Len(s) : s[i] < t[i] /\ \A j \in 1 .. i - 1 : s[j] = t[j]

\* std::sort by a key no two elements of S share.
SortedBy(S, Key(_)) ==
  [n \in 1 .. Cardinality(S) |->
     CHOOSE x \in S :
       Cardinality({y \in S : TupleLess(Key(y), Key(x))}) = n - 1]

-----------------------------------------------------------------------------
Vertices     == 0 .. VertexCount - 1
Edges        == 1 .. EdgeCount
Distances    == 0 .. Infinity
Tiles        == 0 .. TileCount - 1
SpillTile    == TileCount - 1
LocatedTiles == Tiles \ {SpillTile}

CsrSource      == [p \in Edges |-> NewSource[CsrEdges[p]]]
CsrDestination == [p \in Edges |-> NewDestination[CsrEdges[p]]]
CsrWeight      == [p \in Edges |-> Weight[CsrEdges[p]]]
CscSource      == [p \in Edges |-> NewSource[CscEdges[p]]]
CscDestination == [p \in Edges |-> NewDestination[CscEdges[p]]]
CscWeight      == [p \in Edges |-> Weight[CscEdges[p]]]

-----------------------------------------------------------------------------
(***************************************************************************)
(* validate_weighted_graph                                                 *)
(***************************************************************************)
ValidPermutation ==
  \A v \in Vertices : /\ OldToNew[v] \in Vertices
                      /\ NewToOld[OldToNew[v]] = v
                      /\ OldToNew[NewToOld[v]] = v

ValidTiles ==
  /\ \A t \in LocatedTiles \ {0} :
       TupleLess(<<TileY[t - 1], TileX[t - 1]>>, <<TileY[t], TileX[t]>>)
  /\ TileVertexOffsets[0] = 0
  /\ TileVertexOffsets[TileCount] = VertexCount
  /\ \A t \in Tiles :
       /\ TileVertexOffsets[t] <= TileVertexOffsets[t + 1]
       /\ \A v \in TileVertexOffsets[t] .. TileVertexOffsets[t + 1] - 1 :
            OwnerTile[v] = t

\* Rows (columns) in order and, within one, the tile, the vertex and the
\* identity of the other endpoint; every edge once.
ValidAdjacency(edges, Local(_), Remote(_)) ==
  /\ {edges[p] : p \in Edges} = Edges
  /\ \A p \in Edges \ {1} :
       LET e == edges[p - 1]
           f == edges[p]
       IN \/ Local(e) < Local(f)
          \/ /\ Local(e) = Local(f)
             /\ TupleLess(<<OwnerTile[Remote(e)], Remote(e), e>>,
                          <<OwnerTile[Remote(f)], Remote(f), f>>)

\* Identities follow the canonical order of the original endpoints.
ValidIdentities ==
  \A e \in Edges \ {1} :
    LET Key(f) == <<NewToOld[NewSource[f]], NewToOld[NewDestination[f]],
                    Weight[f], Provenance[f]>>
    IN ~TupleLess(Key(e), Key(e - 1))

ValidWeightedGraph ==
  /\ ValidPermutation
  /\ ValidTiles
  /\ LET From(e) == NewSource[e]
         To(e)   == NewDestination[e]
     IN ValidAdjacency(CsrEdges, From, To) /\ ValidAdjacency(CscEdges, To, From)
  /\ ValidIdentities
=============================================================================
