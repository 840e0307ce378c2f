---------------------------- MODULE SpatialGraph ----------------------------
(***************************************************************************)
(* How an input becomes the resident graph: the canonical edge identities  *)
(* of build_weighted_graph (src/src/graph_builder.cpp), the spatial order  *)
(* of build_spatially_ordered_graph (src/src/reorder.cpp), which numbers   *)
(* the vertices tile after tile and sorts every row and column by the tile *)
(* of the other endpoint, and the tile runs of the two adjacency arrays    *)
(* (build_tile_run_layout, src/src/device_layout.cpp).                     *)
(*                                                                         *)
(* An input is a record of located (vertex -> [has_location, x, y]),       *)
(* resource_class and edges, a sequence of [source, destination, weight,   *)
(* provenance].  A config is a SpatialOrderConfig.  Vertices and tiles     *)
(* count from 0, as in the code; edge identities and positions from 1.     *)
(***************************************************************************)
EXTENDS WeightedGraph

InputVertices(input) == DOMAIN input.located

\* validate_graph_input and the tests of the configuration.
ValidInput(input, config, infinity) ==
  /\ InputVertices(input) = 0 .. Cardinality(InputVertices(input)) - 1
  /\ DOMAIN input.resource_class = InputVertices(input)
  /\ \A n \in DOMAIN input.edges :
       /\ {input.edges[n].source, input.edges[n].destination}
            \subseteq InputVertices(input)
       /\ input.edges[n].weight \in 0 .. infinity - 1
  /\ {config.tile_width, config.tile_height} \subseteq Nat \ {0}
  /\ {config.origin_x, config.origin_y} \subseteq Int

\* The records by canonical_edge_key: an edge's identity is its place.  Records
\* that agree in it are the same, and their positions only count the copies.
CanonicalEdges(input) ==
  LET Key(n) == LET edge == input.edges[n]
                IN <<edge.source, edge.destination, edge.weight,
                     edge.provenance, n>>
      order  == SortedBy(DOMAIN input.edges, Key)
  IN [e \in DOMAIN order |-> input.edges[order[e]]]

-----------------------------------------------------------------------------
\* floor_divide_positive; \div rounds towards minus infinity.
FloorDivide(numerator, denominator) == numerator \div denominator

\* derive_location
TileOf(place, config) ==
  [y |-> FloorDivide(place.y - config.origin_y, config.tile_height),
   x |-> FloorDivide(place.x - config.origin_x, config.tile_width)]

\* spread_morton_bits
SpreadBits[n \in Nat] == IF n = 0 THEN 0 ELSE (n % 2) + 4 * SpreadBits[n \div 2]

\* MortonLocalityPolicy, of the coordinates within the tile.
LocalityKey(place, config) ==
  SpreadBits[place.x - (config.origin_x
                          + TileOf(place, config).x * config.tile_width)]
    + 2 * SpreadBits[place.y - (config.origin_y
                          + TileOf(place, config).y * config.tile_height)]

\* tile_coordinates: the tiles that hold a vertex, by y and x.  The spill tile,
\* which has no coordinate, comes after them.
TileTable(input, config) ==
  LET located   == {v \in InputVertices(input) : input.located[v].has_location}
      Key(tile) == <<tile.y, tile.x>>
  IN SortedBy({TileOf(input.located[v], config) : v \in located}, Key)

\* The order of order_records, as new_to_old.
VertexOrder(input, config) ==
  LET Key(v) ==
        LET place == input.located[v]
            tile  == TileOf(place, config)
        IN IF place.has_location
             THEN <<0, tile.y, tile.x, input.resource_class[v],
                    LocalityKey(place, config), v>>
             ELSE <<1, 0, 0, input.resource_class[v], 0, v>>
      order == SortedBy(InputVertices(input), Key)
  IN [new \in InputVertices(input) |-> order[new + 1]]

\* record.owner_tile of an input vertex.
OwnerOf(place, table, config) ==
  IF place.has_location
    THEN (CHOOSE n \in DOMAIN table : table[n] = TileOf(place, config)) - 1
    ELSE Len(table)

-----------------------------------------------------------------------------
\* The positions of one orientation: rows (columns) in order, and within one
\* the tile, the vertex and the identity of the other endpoint.
AdjacencyOrder(local, remote, owner) ==
  LET Key(e) == <<local[e], owner[remote[e]], remote[e], e>>
  IN SortedBy(DOMAIN local, Key)

\* Where the two inner loops of build_tile_run_layout start a run.
RunBegins(local, remote, owner) ==
  {p \in DOMAIN local : p > 1 => \/ local[p - 1] # local[p]
                                 \/ owner[remote[p - 1]] # owner[remote[p]]}

\* build_tile_run_layout, of either orientation: local is the row (column) of
\* a position, remote the other endpoint.  Run offsets are the runs' locals.
BuildRuns(local, remote, owner) ==
  LET Key(p) == <<p>>
      order  == SortedBy(RunBegins(local, remote, owner), Key)
      End(n) == IF n = Len(order) THEN Len(local) ELSE order[n + 1] - 1
  IN [n \in DOMAIN order |->
        [local     |-> local[order[n]],
         tile      |-> owner[remote[order[n]]],
         positions |-> order[n] .. End(n)]]

\* The WeightedGraph and its TileRunLayout.
BuildGraph(input, config) ==
  LET table    == TileTable(input, config)
      newToOld == VertexOrder(input, config)
      oldToNew == [old \in InputVertices(input) |->
                     CHOOSE new \in InputVertices(input) : newToOld[new] = old]
      owner    == [new \in InputVertices(input) |->
                     OwnerOf(input.located[newToOld[new]], table, config)]
      edges    == CanonicalEdges(input)
      source   == [e \in DOMAIN edges |-> oldToNew[edges[e].source]]
      target   == [e \in DOMAIN edges |-> oldToNew[edges[e].destination]]
      csr      == AdjacencyOrder(source, target, owner)
      csc      == AdjacencyOrder(target, source, owner)
      At(ends, order) == [p \in DOMAIN order |-> ends[order[p]]]
  IN [new_to_old  |-> newToOld,
      old_to_new  |-> oldToNew,
      owner_tile  |-> owner,
      tile_vertex_offsets |->
        [t \in 0 .. Len(table) + 1 |->
           Cardinality({v \in DOMAIN owner : owner[v] < t})],
      tiles       |-> table,
      edges       |-> edges,
      source      |-> source,
      destination |-> target,
      csr_edges   |-> csr,
      csc_edges   |-> csc,
      csr_runs    |-> BuildRuns(At(source, csr), At(target, csr), owner),
      csc_runs    |-> BuildRuns(At(target, csc), At(source, csc), owner)]
=============================================================================
