--------------------------- MODULE MCHostExpansion ---------------------------
(***************************************************************************)
(* A small instance of HostExpansion for TLC.                              *)
(***************************************************************************)
EXTENDS NoCongestionPipeline, SpatialGraph, TileDirectory, DeviceLayout, TLC

(***************************************************************************)
(* The input names its vertices in no order.  Tiles are two by two, from   *)
(* x = -1: tiles 0 .. 4 lie in a row with two vertices in most of them,    *)
(* tile 5 is an island, tile 6 lies above tile 2 and tile 7 takes vertex   *)
(* 2, which has no location.                                               *)
(***************************************************************************)
At(x, y) == [has_location |-> TRUE, x |-> x, y |-> y]
Nowhere  == [has_location |-> FALSE, x |-> 0, y |-> 0]

WebLocated ==
  [v \in 0 .. 11 |->
     <<At(5, 0), At(0, 1), Nowhere, At(3, 0), At(1, 0), At(7, 1),
       At(-1, 0), At(23, 0), At(4, 1), At(3, 2), At(2, 1), At(6, 1)>>[v + 1]]
WebClass == [v \in 0 .. 11 |-> IF v = 3 THEN 1 ELSE 0]

Record(source, destination, weight, provenance) ==
  [source |-> source, destination |-> destination, weight |-> weight,
   provenance |-> provenance]

\* 6 -> 0 is there twice, and 8 <-> 9 is a cycle.
WebEdges ==
  <<Record(8, 9, 1, 0), Record(3, 10, 2, 0), Record(6, 0, 5, 1),
    Record(0, 3, 1, 0), Record(9, 5, 1, 0),  Record(6, 1, 1, 0),
    Record(1, 4, 1, 0), Record(4, 8, 1, 0),  Record(8, 3, 1, 0),
    Record(6, 0, 2, 0), Record(2, 9, 1, 0),  Record(9, 8, 1, 0),
    Record(8, 11, 3, 0), Record(5, 7, 1, 0)>>

WebInput  == [located |-> WebLocated, resource_class |-> WebClass,
              edges |-> WebEdges]
WebConfig == [tile_width |-> 2, tile_height |-> 2,
              origin_x |-> -1, origin_y |-> 0]

(***************************************************************************)
(* The graph that is made of it, array by array; WebIsBuilt has TLC make   *)
(* it.  (A CONSTANT of the run stands for a value, and TLC keeps the       *)
(* costs of everything an action refers to: a definition by BuildGraph     *)
(* would be unfolded at every use of an array.)                            *)
(***************************************************************************)
FromZero(array) == [i \in 0 .. Len(array) - 1 |-> array[i + 1]]

WebOldToNew       == FromZero(<<6, 1, 11, 5, 2, 8, 0, 9, 4, 10, 3, 7>>)
WebNewToOld       == FromZero(<<6, 1, 4, 10, 8, 3, 0, 11, 5, 7, 9, 2>>)
WebOwnerTile      == FromZero(<<0, 0, 1, 1, 2, 2, 3, 3, 4, 5, 6, 7>>)
WebVertexOffsets  == FromZero(<<0, 2, 4, 6, 8, 9, 10, 11, 12>>)
WebTileX          == FromZero(<<0, 1, 2, 3, 4, 12, 2>>)
WebTileY          == FromZero(<<0, 0, 0, 0, 0, 0, 1>>)
WebNewSource      == <<6, 1, 11, 5, 2, 8, 0, 0, 0, 4, 4, 4, 10, 10>>
WebNewDestination == <<5, 2, 10, 3, 4, 9, 6, 6, 1, 5, 10, 7, 8, 4>>
WebWeight         == <<1, 1, 1, 2, 1, 1, 2, 5, 1, 1, 1, 3, 1, 1>>
WebProvenance     == <<0, 0, 0, 0, 0, 0, 0, 1, 0, 0, 0, 0, 0, 0>>
WebCsrEdges       == <<9, 7, 8, 2, 5, 10, 12, 11, 4, 1, 6, 14, 13, 3>>
WebCscEdges       == <<9, 2, 4, 5, 14, 10, 1, 7, 8, 12, 13, 6, 11, 3>>

Run(local, tile, positions) ==
  [local |-> local, tile |-> tile, positions |-> positions]
WebCsrRuns ==
  <<Run(0, 0, {1}), Run(0, 3, {2, 3}), Run(1, 1, {4}), Run(2, 2, {5}),
    Run(4, 2, {6}), Run(4, 3, {7}), Run(4, 6, {8}), Run(5, 1, {9}),
    Run(6, 2, {10}), Run(8, 5, {11}), Run(10, 2, {12}), Run(10, 4, {13}),
    Run(11, 6, {14})>>
WebCscRuns ==
  <<Run(1, 0, {1}), Run(2, 0, {2}), Run(3, 2, {3}), Run(4, 1, {4}),
    Run(4, 6, {5}), Run(5, 2, {6}), Run(5, 3, {7}), Run(6, 0, {8, 9}),
    Run(7, 2, {10}), Run(8, 6, {11}), Run(9, 4, {12}), Run(10, 2, {13}),
    Run(10, 7, {14})>>

Resident(built) ==
  /\ built.old_to_new = OldToNew /\ built.new_to_old = NewToOld
  /\ built.owner_tile = OwnerTile
  /\ built.tile_vertex_offsets = TileVertexOffsets
  /\ Len(built.tiles) = TileCount - 1
  /\ \A t \in LocatedTiles : built.tiles[t + 1] = [x |-> TileX[t],
                                                   y |-> TileY[t]]
  /\ built.source = NewSource /\ built.destination = NewDestination
  /\ \A e \in Edges : /\ built.edges[e].weight = Weight[e]
                       /\ built.edges[e].provenance = Provenance[e]
  /\ built.csr_edges = CsrEdges /\ built.csc_edges = CscEdges
  /\ built.csr_runs = CsrRuns /\ built.csc_runs = CscRuns

\* The order of the input's records leaves no trace.
ASSUME WebIsBuilt ==
  \A edges \in {WebEdges, Reverse(WebEdges)} :
    LET input == [WebInput EXCEPT !.edges = edges]
    IN /\ ValidInput(input, WebConfig, Infinity)
       /\ Resident(BuildGraph(input, WebConfig))

\* In the input's names: 6 to 10 needs a box of three tiles and is shorter in
\* one of four; the spill vertex 2 finds 11 through tile 6, and 4 one of its
\* two targets; nothing leads from 5 to 6.
Renamed(vertices) == {OldToNew[v] : v \in vertices}
WebFrom == <<Renamed({6}), Renamed({2}), Renamed({4}), Renamed({5})>>
WebTo   == <<Renamed({10}), Renamed({11}), Renamed({3, 5}), Renamed({6})>>
WebQueries == 1 .. 4
WebGenerations == <<0, 3, 0, 1>>

Fraction(n, d) == [numerator |-> n, denominator |-> d]
Strict  == [jaccard |-> Fraction(2, 5), inflation |-> Fraction(3, 2)]
Lenient == [jaccard |-> Fraction(1, 8), inflation |-> Fraction(9, 4)]

Masks       == "retained_per_run_masks"
Descriptors == "compact_nonzero_descriptors"

Host(engine, representation, policy, perLane, schedule, capacity, rounds) ==
  [engine |-> engine, representation |-> representation, policy |-> policy,
   enable_per_lane_convergence |-> perLane, schedule |-> schedule,
   queue_capacity |-> capacity, maximum_rounds |-> rounds,
   control_mode |-> "persistent_cooperative", rounds_per_chunk |-> 1,
   transfer |-> "host", instrumentation |-> "none"]

Polled(mode, chunk, campaign) ==
  [campaign EXCEPT !.control_mode = mode, !.rounds_per_chunk = chunk]

Expansion(kind, ring, limit, policy, compact) ==
  [kind |-> kind, fixed_ring_size |-> ring, hybrid_small_expansion_count |-> 0,
   maximum_expansions |-> limit, terminal_policy |-> policy,
   enable_compact_paths |-> compact]

Ring    == Expansion("one_geometric_ring", 0, 3, "full_region_fallback", FALSE)
GiveUp  == Expansion("fixed_larger_ring", 2, 3, "explicit_failure", FALSE)
Compact == Expansion("doubling_xy_margins", 0, 1, "full_region_fallback", TRUE)

\* The executor's engines, which choose the representation themselves.
Device(engine, transfer, instrumentation, policy, perLane, rounds) ==
  [Host(engine, Masks, policy, perLane, "csr_forward", 0, rounds) EXCEPT
     !.transfer = transfer, !.instrumentation = instrumentation]

\* Each engine on either storage; the last two fail in some batch.
HostCampaigns ==
  {Ring    @@ Host("jacobi_pull", Masks, Lenient, 1, "csr_forward", 0, 20),
   GiveUp  @@ Host("jacobi_pull", Descriptors, Strict, 0, "csr_forward", 0, 20),
   Ring    @@ Host("dense_chaotic_push", Descriptors, Lenient, 1,
                   "alternating", 0, 20),
   Compact @@ Host("dense_chaotic_push", Masks, Strict, 0, "csr_reverse", 0, 20),
   Ring    @@ Polled("chunked_host_poll", 2,
                Host("frontier_push", Masks, Lenient, 1, "csr_forward", 0, 20)),
   Compact @@ Host("frontier_push", Descriptors, Lenient, 0, "csr_forward", 0,
                   20),
   GiveUp  @@ Host("frontier_push", Masks, Strict, 0, "csr_forward", 1, 20),
   Compact @@ Host("jacobi_pull", Masks, Strict, 1, "csr_forward", 0, 4)}

\* The same of the executor, in each of its transfer modes.
DeviceCampaigns ==
  {GiveUp  @@ Device("jacobi_pull", "status_and_work_evidence", "light",
                     Lenient, 1, 20),
   Compact @@ Polled("chunked_host_poll", 3,
                Device("jacobi_pull", "compact_paths", "none", Lenient, 0, 6)),
   GiveUp  @@ Polled("chunked_host_poll", 2,
                Device("dense_chaotic_push", "status_and_work_evidence", "none",
                       Lenient, 1, 20)),
   Compact @@ Device("dense_chaotic_push", "compact_paths", "none", Strict, 1,
                     20),
   Compact @@ Polled("per_round_host_poll", 1,
                Device("frontier_push", "compact_paths", "none", Lenient, 1,
                       20)),
   GiveUp  @@ Device("frontier_push", "status_and_work_evidence", "debug",
                     Lenient, 0, 20),
   GiveUp  @@ Polled("per_round_host_poll", 1,
                Device("frontier_push", "compact_status", "none", Strict, 1,
                       20))}

\* Only the portable callback returns an image of the distances.
WebCampaigns ==
  {c @@ [returns_distances |-> c.transfer = "host" /\ ~c.enable_compact_paths] :
     c \in HostCampaigns \union DeviceCampaigns}

-----------------------------------------------------------------------------
(***************************************************************************)
(* The directory and the device image of the web                           *)
(***************************************************************************)
\* A sequence with one element lost, exchanged with its neighbour or changed.
Damaged(s, values) ==
  ({RemoveAt(s, n) : n \in DOMAIN s}
     \union {ReplaceAt(s, n, v) : n \in DOMAIN s, v \in values}
     \union {ReplaceAt(ReplaceAt(s, n, s[n + 1]), n + 1, s[n]) :
               n \in 1 .. Len(s) - 1})
    \ {s}

DamagedGroups(flat, values) ==
  {[flat EXCEPT !.values = s] : s \in Damaged(flat.values, values)}
    \union ({[flat EXCEPT !.offsets[t] = @ + 1] : t \in 1 .. TileCount - 1})

\* The directory agrees with the neighbours the expansion loop goes by, and
\* its validator refuses whatever differs from it in one place.
ASSUME DirectoryIsFaithful ==
  LET directory == BuildTileDirectory
  IN /\ ValidTileDirectory(directory)
     /\ \A t \in Tiles :
          Range(Group(directory.neighbor_tiles, t)) = BE!NeighborTiles(t)
     /\ \A name \in DOMAIN directory \ {"spill_tile"} :
          \A flat \in DamagedGroups(directory[name], {0, 5, 7, 14}) :
            ~ValidTileDirectory([directory EXCEPT ![name] = flat])

\* The smallest word the web fits in, and one it does not fit in.
ASSUME DeviceImageIsFaithful ==
  LET limit  == 15
      layout == BuildDeviceLayout(limit)
  IN /\ ~DeviceLayoutThrows(limit) /\ DeviceLayoutThrows(13)
     /\ \A n \in 13 .. 20 : DeviceRepresentable(n) => EveryOffsetFits(n)
     /\ ValidDeviceLayout(layout, limit)
     /\ LayoutFingerprint(layout, limit) = SourceFingerprint(limit)
     /\ DeviceGraphBytes(layout) = 4 * 188
     /\ \A name \in DOMAIN layout.arrays :
          \A words \in Damaged(layout.arrays[name], {0, 15}) :
            LET other == [layout EXCEPT !.arrays[name] = words]
            IN /\ ~ValidDeviceLayout(other, limit)
               /\ ~DeepEqual(layout, other)
               /\ LayoutFingerprint(other, limit) # SourceFingerprint(limit)
=============================================================================
