------------------------------ MODULE BatchLayout ------------------------------
(***************************************************************************)
(* BatchDeviceDescription (src/src/batch_layout.cpp): what an engine gets  *)
(* to know of a batch.  One description is reused for every batch of a     *)
(* campaign.  Its dense arrays are not cleared: ledgers name the entries   *)
(* the previous batch wrote, and only those are reset.                     *)
(*                                                                         *)
(* A run's lanes are kept in one of three forms: a mask for every run of   *)
(* the graph, a list of the runs with a nonempty mask, or nothing at all,  *)
(* when the device works them out.  The sizes the code counts along the    *)
(* way are left out, and so is the packed vertex mapping, which only tests *)
(* prepare.                                                                *)
(***************************************************************************)
EXTENDS BatchPlanner

Representations == {"retained_per_run_masks", "compact_nonzero_descriptors",
                    "device_materialized_run_masks"}

\* The run storage of one orientation.
NoRunStorage ==
  [run_lane_masks |-> <<>>, touched_runs |-> <<>>, run_descriptors |-> <<>>,
   descriptor_offsets_by_union_vertex |-> <<>>]

\* BatchDeviceDescription{}
EmptyDescription ==
  [run_representation_initialized  |-> FALSE,
   run_representation              |-> "retained_per_run_masks",
   valid_lane_mask                 |-> {},
   query_ids_by_lane               |-> <<>>,
   expansion_generations_by_lane   |-> <<>>,
   sources_by_lane                 |-> <<>>,
   targets_by_lane                 |-> <<>>,
   selected_vertex_counts_by_lane  |-> <<>>,
   selected_edge_estimates_by_lane |-> <<>>,
   union_tiles                     |-> {},
   tile_lane_masks                 |-> <<>>,
   csr                             |-> NoRunStorage,
   csc                             |-> NoRunStorage]

-----------------------------------------------------------------------------
(***************************************************************************)
(* validate_batch_inputs: queries are the RouteQuerys of the pass.         *)
(***************************************************************************)
\* validate_route_query
ValidRouteQuery(query) ==
  /\ query.sources # {} /\ query.sources \subseteq Vertices
  /\ query.targets # {} /\ query.targets \subseteq Vertices
  /\ query.selected_tiles # {} /\ query.selected_tiles \subseteq Tiles
  /\ TerminalTiles(query.sources \union query.targets)
       \subseteq query.selected_tiles

ValidLane(queries, features, entry, l) ==
  LET q == entry.query_ids_by_lane[l]
  IN /\ q \in DOMAIN features /\ q \in DOMAIN queries
     /\ ValidRouteQuery(queries[q])
     /\ entry.expansion_generations_by_lane[l]
          = features[q].expansion_generation
     /\ queries[q].expansion_generation = features[q].expansion_generation
     /\ queries[q].selected_tiles = features[q].selected_tiles
     /\ TerminalTiles(queries[q].sources) = features[q].source_tiles
     /\ TerminalTiles(queries[q].targets) = features[q].target_tiles
     /\ features[q].source_count = Cardinality(queries[q].sources)
     /\ features[q].target_count = Cardinality(queries[q].targets)
     /\ features[q].selected_vertex_count
          = SelectedVertexCount(queries[q].selected_tiles)

\* expected_tile_lane_mask
ExpectedTileLaneMask(features, entry, t) ==
  {l \in entry.valid_lane_mask :
     t \in features[entry.query_ids_by_lane[l]].selected_tiles}

ValidBatchInputs(queries, features, entry) ==
  LET ids == entry.query_ids_by_lane
      VertexShare(f) == f.selected_vertex_count
      EdgeShare(f)   == f.selected_edge_estimate
  IN /\ entry.valid_lane_mask # {} /\ entry.valid_lane_mask \subseteq Lanes
     /\ \A l \in entry.valid_lane_mask :
          /\ 0 .. l \subseteq entry.valid_lane_mask
          /\ ValidLane(queries, features, entry, l)
          /\ \A k \in entry.valid_lane_mask : ids[k] = ids[l] => k = l
          /\ features[ids[l]].selected_tiles \subseteq entry.union_tiles
     /\ entry.union_tiles # {} /\ entry.union_tiles \subseteq Tiles
     /\ \A t \in entry.union_tiles :
          /\ entry.union_tile_lane_masks[t] # {}
          /\ entry.union_tile_lane_masks[t]
               = ExpectedTileLaneMask(features, entry, t)
     /\ entry.union_vertex_count = SelectedVertexCount(entry.union_tiles)
     /\ entry.selected_lane_vertex_count
          = SumOver(features, EntryQueries(entry), VertexShare)
     /\ entry.selected_lane_edge_estimate
          = SumOver(features, EntryQueries(entry), EdgeShare)

-----------------------------------------------------------------------------
(***************************************************************************)
(* The run storage, of either orientation.                                 *)
(***************************************************************************)
\* The union vertices of selected_vertex_ranges, in their packed order.
UnionVertices(tiles) ==
  LET Key(v) == <<v>>
  IN SortedBy(UNION {VertexRange(t) : t \in tiles}, Key)

\* The runs record_run keeps, in the order build_run_storage meets them.
ActiveRuns(runs, tileMasks) ==
  LET masks == TileRunLaneMasks(runs, tileMasks)
      Key(n) == <<n>>
  IN SortedBy({n \in DOMAIN runs : masks[n] # {}}, Key)

\* build_run_storage, for masks that nothing touched before.
WriteMasks(storage, runs, tileMasks) ==
  LET masks  == TileRunLaneMasks(runs, tileMasks)
      active == ActiveRuns(runs, tileMasks)
  IN [storage EXCEPT
        !.run_lane_masks = [n \in DOMAIN runs |->
                              IF \E m \in DOMAIN active : active[m] = n
                                THEN masks[n] ELSE storage.run_lane_masks[n]],
        !.touched_runs   = active]

\* build_run_storage, descriptors.
WriteDescriptors(runs, tileMasks, unionTiles) ==
  LET masks    == TileRunLaneMasks(runs, tileMasks)
      active   == ActiveRuns(runs, tileMasks)
      vertices == UnionVertices(unionTiles)
  IN [NoRunStorage EXCEPT
        !.run_descriptors =
           [m \in DOMAIN active |->
              [run_id |-> active[m], lane_mask |-> masks[active[m]]]],
        !.descriptor_offsets_by_union_vertex =
           [k \in 0 .. Len(vertices) |->
              Cardinality({m \in DOMAIN active : \E j \in 1 .. k :
                             runs[active[m]].local = vertices[j]})]]

\* Fault variant, which no specification uses: the ledger is
\* cleared and the masks it names are not.
FaultClearTouched(storage) == [storage EXCEPT !.touched_runs = <<>>]

\* clear_prior_touched
ClearTouched(storage) ==
  LET touched == {storage.touched_runs[m] : m \in DOMAIN storage.touched_runs}
  IN [storage EXCEPT
        !.run_lane_masks = [n \in DOMAIN storage.run_lane_masks |->
                              IF n \in touched THEN {}
                              ELSE storage.run_lane_masks[n]],
        !.touched_runs   = <<>>]

\* The masks are assigned anew in a description's first use.
RetainedStorage(storage, runs, initialized) ==
  IF ~initialized \/ DOMAIN storage.run_lane_masks # DOMAIN runs
    THEN [NoRunStorage EXCEPT !.run_lane_masks = [n \in DOMAIN runs |-> {}]]
    ELSE [NoRunStorage EXCEPT !.run_lane_masks = storage.run_lane_masks]

RunStorage(d, storage, runs, tileMasks, unionTiles, representation) ==
  CASE representation = "retained_per_run_masks" ->
         WriteMasks(RetainedStorage(ClearTouched(storage), runs,
                                    d.run_representation_initialized),
                    runs, tileMasks)
    [] representation = "compact_nonzero_descriptors" ->
         WriteDescriptors(runs, tileMasks, unionTiles)
    [] representation = "device_materialized_run_masks" -> NoRunStorage

\* clear_prior_touched throws when the ledger and the masks disagree.
LedgerConsistent(storage) ==
  \A m \in DOMAIN storage.touched_runs :
    LET run == storage.touched_runs[m]
    IN /\ run \in DOMAIN storage.run_lane_masks
       /\ storage.run_lane_masks[run] # {}
       /\ m > 1 => storage.touched_runs[m - 1] < run

-----------------------------------------------------------------------------
(***************************************************************************)
(* prepare_batch_device_description                                        *)
(***************************************************************************)
\* The tile masks: those of the old union are reset, those of the new written.
TileLaneMasks(d, entry) ==
  [t \in Tiles |->
     IF t \in entry.union_tiles THEN entry.union_tile_lane_masks[t]
     ELSE IF DOMAIN d.tile_lane_masks # Tiles \/ t \in d.union_tiles THEN {}
     ELSE d.tile_lane_masks[t]]

ByLane(entry, Value(_)) ==
  [l \in entry.valid_lane_mask |-> Value(entry.query_ids_by_lane[l])]

PreparedDescription(d, queries, features, entry, representation) ==
  LET masks          == TileLaneMasks(d, entry)
      SourcesOf(q)   == queries[q].sources
      TargetsOf(q)   == queries[q].targets
      VertexShare(q) == features[q].selected_vertex_count
      EdgeShare(q)   == features[q].selected_edge_estimate
  IN [run_representation_initialized  |-> TRUE,
      run_representation              |-> representation,
      valid_lane_mask                 |-> entry.valid_lane_mask,
      query_ids_by_lane               |-> entry.query_ids_by_lane,
      expansion_generations_by_lane   |-> entry.expansion_generations_by_lane,
      sources_by_lane                 |-> ByLane(entry, SourcesOf),
      targets_by_lane                 |-> ByLane(entry, TargetsOf),
      selected_vertex_counts_by_lane  |-> ByLane(entry, VertexShare),
      selected_edge_estimates_by_lane |-> ByLane(entry, EdgeShare),
      union_tiles                     |-> entry.union_tiles,
      tile_lane_masks                 |-> masks,
      csr |-> RunStorage(d, d.csr, CsrRuns, masks, entry.union_tiles,
                         representation),
      csc |-> RunStorage(d, d.csc, CscRuns, masks, entry.union_tiles,
                         representation)]

\* RunCoverage: the edges build_run_storage finds in the union and per lane.
CoveredEdges(runs, tileMasks, Covers(_)) ==
  MapThenSumSet(LAMBDA n : Cardinality(runs[n].positions),
                {n \in DOMAIN runs : Covers(n)})

CoverageMatches(runs, entry, d) ==
  LET masks    == d.tile_lane_masks
      runMasks == TileRunLaneMasks(runs, masks)
      InUnion(n) == {OwnerTile[runs[n].local], runs[n].tile}
                      \subseteq entry.union_tiles
  IN /\ CoveredEdges(runs, masks, InUnion) = entry.union_edge_estimate
     /\ \A l \in entry.valid_lane_mask :
          LET OfLane(n) == l \in runMasks[n]
          IN CoveredEdges(runs, masks, OfLane)
               = d.selected_edge_estimates_by_lane[l]

\* The tests that end in an exception; d is the description of before, and
\* prepared the one build_run_storage has filled.
PreparationThrows(d, queries, features, entry, representation, prepared) ==
  \/ ~ValidBatchInputs(queries, features, entry)
  \/ d.run_representation_initialized /\ d.run_representation # representation
  \/ ~LedgerConsistent(d.csr) \/ ~LedgerConsistent(d.csc)
  \/ /\ representation # "device_materialized_run_masks"
     /\ ~ /\ CoverageMatches(CsrRuns, entry, prepared)
          /\ CoverageMatches(CscRuns, entry, prepared)

-----------------------------------------------------------------------------
(***************************************************************************)
(* validate_batch_device_description and prove_batch_endpoint_admission    *)
(***************************************************************************)
\* validate_retained_shape
ValidRetainedShape(storage, runs) ==
  /\ DOMAIN storage.run_lane_masks = DOMAIN runs
  /\ storage.run_descriptors = <<>>
  /\ storage.descriptor_offsets_by_union_vertex = <<>>
  /\ {storage.touched_runs[m] : m \in DOMAIN storage.touched_runs}
       = {n \in DOMAIN runs : storage.run_lane_masks[n] # {}}
  /\ \A m \in DOMAIN storage.touched_runs :
       m > 1 => storage.touched_runs[m - 1] < storage.touched_runs[m]

\* validate_descriptor_shape
ValidDescriptorShape(storage, runs, unionVertexCount) ==
  LET stored  == storage.run_descriptors
      offsets == storage.descriptor_offsets_by_union_vertex
  IN /\ storage.run_lane_masks = <<>> /\ storage.touched_runs = <<>>
     /\ \A m \in DOMAIN stored :
          /\ stored[m].run_id \in DOMAIN runs /\ stored[m].lane_mask # {}
          /\ m > 1 => stored[m - 1].run_id < stored[m].run_id
     /\ DOMAIN offsets = 0 .. unionVertexCount
     /\ offsets[0] = 0 /\ offsets[unionVertexCount] = Len(stored)
     /\ \A k \in 1 .. unionVertexCount : offsets[k - 1] <= offsets[k]

\* The masks of all runs, whatever their form; device_materialized_run_masks
\* leaves them to the device.
ExpandedRunMasks(d, storage, runs) ==
  LET stored == storage.run_descriptors
  IN CASE d.run_representation = "retained_per_run_masks" ->
            storage.run_lane_masks
       [] d.run_representation = "compact_nonzero_descriptors" ->
            [n \in DOMAIN runs |->
               UNION {stored[m].lane_mask :
                        m \in {k \in DOMAIN stored : stored[k].run_id = n}}]
       [] d.run_representation = "device_materialized_run_masks" ->
            TileRunLaneMasks(runs, d.tile_lane_masks)

\* The shape of one orientation's storage.
ValidStorageShape(d, storage, runs, entry) ==
  CASE d.run_representation = "retained_per_run_masks" ->
         ValidRetainedShape(storage, runs)
    [] d.run_representation = "compact_nonzero_descriptors" ->
         ValidDescriptorShape(storage, runs, entry.union_vertex_count)
    [] d.run_representation = "device_materialized_run_masks" ->
         storage = NoRunStorage

\* validate_runs_and_coverage: every union vertex finds its own runs.
ValidDescriptorRows(storage, runs, entry) ==
  LET vertices == UnionVertices(entry.union_tiles)
      offsets  == storage.descriptor_offsets_by_union_vertex
  IN \A k \in DOMAIN vertices :
       \A m \in offsets[k - 1] + 1 .. offsets[k] :
         runs[storage.run_descriptors[m].run_id].local = vertices[k]

ValidRunsAndCoverage(d, storage, runs, entry) ==
  /\ ExpandedRunMasks(d, storage, runs)
       = TileRunLaneMasks(runs, d.tile_lane_masks)
  /\ d.run_representation = "compact_nonzero_descriptors" =>
       ValidDescriptorRows(storage, runs, entry)
  /\ CoverageMatches(runs, entry, d)

\* The lanes and tiles of the description are those of the plan.
DescribesEntry(d, queries, features, entry) ==
  /\ d.run_representation_initialized
  /\ d.valid_lane_mask = entry.valid_lane_mask
  /\ d.query_ids_by_lane = entry.query_ids_by_lane
  /\ d.expansion_generations_by_lane = entry.expansion_generations_by_lane
  /\ \A l \in entry.valid_lane_mask :
       LET q == entry.query_ids_by_lane[l]
       IN /\ d.sources_by_lane[l] = queries[q].sources
          /\ d.targets_by_lane[l] = queries[q].targets
          /\ d.selected_vertex_counts_by_lane[l]
               = features[q].selected_vertex_count
          /\ d.selected_edge_estimates_by_lane[l]
               = features[q].selected_edge_estimate
  /\ d.union_tiles = entry.union_tiles
  /\ DOMAIN d.tile_lane_masks = Tiles
  /\ \A t \in Tiles :
       d.tile_lane_masks[t] = IF t \in entry.union_tiles
                                THEN entry.union_tile_lane_masks[t] ELSE {}

ValidDescription(d, queries, features, entry) ==
  /\ ValidTileRunLayout
  /\ ValidBatchInputs(queries, features, entry)
  /\ DescribesEntry(d, queries, features, entry)
  /\ ValidStorageShape(d, d.csr, CsrRuns, entry)
  /\ ValidStorageShape(d, d.csc, CscRuns, entry)
  /\ ValidRunsAndCoverage(d, d.csr, CsrRuns, entry)
  /\ ValidRunsAndCoverage(d, d.csc, CscRuns, entry)

\* prove_batch_endpoint_admission
EndpointAdmission(d) ==
  RunAdmissionEquivalence(d.tile_lane_masks,
                          ExpandedRunMasks(d, d.csr, CsrRuns),
                          ExpandedRunMasks(d, d.csc, CscRuns))
=============================================================================
