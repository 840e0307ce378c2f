--------------------------- MODULE RoutingProblem ---------------------------
(***************************************************************************)
(* One routing query on the resident graph, as every shortest-path engine  *)
(* receives it: the CSR image of src/include/bfnew/device_layout.hpp and   *)
(* the canonical query of src/src/query.cpp.  A bounding box is a set of   *)
(* tiles, and an edge takes part when both its endpoints' tiles are in it. *)
(*                                                                         *)
(* A distance is a non-negative binary32.  Only its order, the saturation  *)
(* of addition at +infinity and the monotonicity of addition matter to     *)
(* the engines, so it is a number of 0..Infinity.                          *)
(***************************************************************************)
EXTENDS Integers, Sequences, FiniteSets

CONSTANTS
  VertexCount, EdgeCount,
  Source, Destination, Weight,  \* CSR order: the edges of a row are adjacent
  OwnerTile, SelectedTiles,
  SourceList,                   \* query.sources, sorted and without repeats
  Targets,                      \* query.targets
  Infinity                      \* positive_infinity_bits

Vertices  == 0 .. VertexCount - 1
Edges     == 1 .. EdgeCount
Distances == 0 .. Infinity

\* validate_route_query: the vertex is owned by a tile of the bounding box.
InSelectedTile(v) == OwnerTile[v] \in SelectedTiles

\* The sets of targets validate_route_query accepts.
TargetSets == {S \in SUBSET {v \in Vertices : InSelectedTile(v)} : S # {}}

ASSUME GraphAssumption ==
  /\ VertexCount \in Nat \ {0}
  /\ EdgeCount \in Nat
  /\ Infinity \in Nat \ {0}
  /\ Source \in [Edges -> Vertices]
  /\ Destination \in [Edges -> Vertices]
  /\ Weight \in [Edges -> 0 .. Infinity - 1]
  /\ \A e, f \in Edges : e < f => Source[e] <= Source[f]
  /\ DOMAIN OwnerTile = Vertices

ASSUME QueryAssumption ==
  /\ SourceList \in Seq(Vertices)
  /\ Len(SourceList) # 0
  /\ \A i, j \in 1 .. Len(SourceList) :
       i < j => SourceList[i] < SourceList[j]
  /\ \A i \in 1 .. Len(SourceList) : InSelectedTile(SourceList[i])
  /\ Targets \in TargetSets

Sources == {SourceList[i] : i \in 1 .. Len(SourceList)}

\* Fault variant, which no specification uses: the sum does not saturate.
FaultUnsaturated(a, b) == a + b

\* binary32 addition of non-negative numbers.
Plus(a, b) == IF a + b >= Infinity THEN Infinity ELSE a + b

\* The edges admitted by the bounding box (build_induced_query_graph keeps
\* exactly these).
Admitted == {e \in Edges : InSelectedTile(Source[e])
                             /\ InSelectedTile(Destination[e])}

\* estimate_selected_vertex_count
SelectedVertexCount == Cardinality({v \in Vertices : InSelectedTile(v)})

InitialDistance == [v \in Vertices |-> IF v \in Sources THEN 0 ELSE Infinity]

(***************************************************************************)
(* What a shortest distance is, without speaking of paths: the distances   *)
(* from the sources are the greatest assignment that is 0 on the sources   *)
(* and that no admitted edge can lower.                                    *)
(***************************************************************************)
Relaxed(d, e) == d[Destination[e]] <= Plus(d[Source[e]], Weight[e])

Potentials ==
  {p \in [Vertices -> Distances] :
     /\ \A v \in Sources : p[v] = 0
     /\ \A e \in Admitted : Relaxed(p, e)}

IsShortest(d) ==
  /\ d \in Potentials
  /\ \A p \in Potentials : \A v \in Vertices : p[v] <= d[v]

(***************************************************************************)
(* synchronous_bellman_ford on the induced graph: the distances after k    *)
(* rounds.                                                                 *)
(***************************************************************************)
Lowest(S) == CHOOSE x \in S : \A y \in S : x <= y

BellmanFordRound(d) ==
  [v \in Vertices |->
     Lowest({d[v]} \union
            {Plus(d[Source[e]], Weight[e]) :
               e \in {f \in Admitted : Destination[f] = v}})]

BellmanFord[k \in Nat] ==
  IF k = 0 THEN InitialDistance ELSE BellmanFordRound(BellmanFord[k - 1])

ReferenceDistance == BellmanFord[VertexCount - 1]
=============================================================================
