---------------------------- MODULE DeviceEngines ----------------------------
(***************************************************************************)
(* What the batched HIP engines (src/src/hip/batched_jacobi.hip.cpp,       *)
(* src/src/hip/batched_dense_chaotic_push.hip.cpp and                      *)
(* src/src/hip/batched_frontier_push.hip.cpp) do on the host, around the   *)
(* rounds on the device: the tests a description must pass, the tests of   *)
(* what comes back, and the work they reconstruct from the round in which  *)
(* each lane converged.                                                    *)
(*                                                                         *)
(* The rounds are those of HostEngines, which stand for the kernels of     *)
(* BatchedSweep and BatchedFrontierPush; run.work is what they count.      *)
(***************************************************************************)
EXTENDS HostEngines

InstrumentationLevels == {"none", "light", "debug"}

\* The compact entry points leave all evidence on the device.
CompactTransfers == {"compact_status", "compact_paths"}

DeviceRepresentation(engine) ==
  IF engine = "jacobi_pull" THEN "device_materialized_run_masks"
                            ELSE "retained_per_run_masks"

-----------------------------------------------------------------------------
(***************************************************************************)
(* validate_batch_description_shape.  The engines know neither queries nor *)
(* plan: a description is judged by itself.                                *)
(***************************************************************************)
\* The low lanes are in use.
AcceptsLaneShape(d) ==
  /\ d.valid_lane_mask # {}
  /\ d.valid_lane_mask = 0 .. Cardinality(d.valid_lane_mask) - 1
  /\ d.valid_lane_mask \subseteq Lanes

\* A tile is in the union just when some valid lane selects it.
AcceptsTileShape(d) ==
  /\ d.run_representation_initialized
  /\ d.union_tiles # {}
  /\ DOMAIN d.tile_lane_masks = Tiles
  /\ \A t \in Tiles :
       /\ d.tile_lane_masks[t] \subseteq d.valid_lane_mask
       /\ t \in d.union_tiles <=> d.tile_lane_masks[t] # {}

\* Masks of runs: what both tiles admit in the union's rows (columns), and
\* nothing elsewhere.
AcceptsRetainedMasks(d, storage, runs) ==
  LET expected == TileRunLaneMasks(runs, d.tile_lane_masks)
  IN /\ DOMAIN storage.run_lane_masks = DOMAIN runs
     /\ \A n \in DOMAIN runs :
          storage.run_lane_masks[n] =
            IF OwnerTile[runs[n].local] \in d.union_tiles THEN expected[n]
            ELSE {}

\* Every terminal lies in a tile of its lane.
AcceptsTerminals(d) ==
  \A l \in d.valid_lane_mask :
    /\ d.sources_by_lane[l] # {} /\ d.targets_by_lane[l] # {}
    /\ \A v \in d.sources_by_lane[l] \union d.targets_by_lane[l] :
         v \in Vertices /\ l \in d.tile_lane_masks[OwnerTile[v]]

LaneVertexCount(d, l) ==
  SelectedVertexCount({t \in d.union_tiles : l \in d.tile_lane_masks[t]})

LaneEdgeCount(d, l) ==
  LET masks == TileRunLaneMasks(CscRuns, d.tile_lane_masks)
  IN MapThenSumSet(LAMBDA n : Cardinality(CscRuns[n].positions),
                   {n \in DOMAIN CscRuns : l \in masks[n]})

\* The pull engine takes masks the device is to make; the entry points that
\* will account for the edges recount the planner's estimates.
AcceptsJacobi(d, transfer) ==
  /\ AcceptsLaneShape(d) /\ AcceptsTileShape(d) /\ AcceptsTerminals(d)
  /\ \A l \in d.valid_lane_mask :
       d.selected_vertex_counts_by_lane[l] = LaneVertexCount(d, l)
  /\ CASE d.run_representation = "retained_per_run_masks" ->
            AcceptsRetainedMasks(d, d.csc, CscRuns)
       [] d.run_representation = "device_materialized_run_masks" ->
            /\ d.csr = NoRunStorage /\ d.csc = NoRunStorage
            /\ transfer \notin CompactTransfers =>
                 \A l \in d.valid_lane_mask :
                   d.selected_edge_estimates_by_lane[l] = LaneEdgeCount(d, l)
       [] OTHER -> FALSE

AcceptsDense(d) ==
  /\ AcceptsLaneShape(d) /\ AcceptsTileShape(d) /\ AcceptsTerminals(d)
  /\ d.run_representation = "retained_per_run_masks"
  /\ AcceptsRetainedMasks(d, d.csr, CsrRuns)

\* The frontier engine also wants every query once.
AcceptsFrontier(d) ==
  /\ AcceptsLaneShape(d) /\ AcceptsTileShape(d) /\ AcceptsTerminals(d)
  /\ d.run_representation = "retained_per_run_masks"
  /\ AcceptsRetainedMasks(d, d.csr, CsrRuns)
  /\ \A k, l \in d.valid_lane_mask :
       d.query_ids_by_lane[k] = d.query_ids_by_lane[l] => k = l

ValidDeviceBatch(d, options) ==
  CASE options.engine = "jacobi_pull" -> AcceptsJacobi(d, options.transfer)
    [] options.engine = "dense_chaotic_push" -> AcceptsDense(d)
    [] options.engine = "frontier_push" -> AcceptsFrontier(d)

-----------------------------------------------------------------------------
(***************************************************************************)
(* The tests of the status                                                 *)
(***************************************************************************)
Classified(status) ==
  status.reached_target_mask \union status.bounding_box_miss_mask

\* run_compact_status and run_compact_paths see nothing else of the run.
CompactStatusThrows(d, status) ==
  \/ ~ValidDeviceRunStatus(status)
  \/ status.valid_lane_mask # d.valid_lane_mask
  \/ Classified(status) # IF /\ status.stop_reason = "converged"
                             /\ status.error_bits = {}
                            THEN d.valid_lane_mask ELSE {}

\* The other entry points compare it with the controller.
FullStatusThrows(d, status, controller) ==
  \/ ~ValidDeviceController(controller) \/ ~ValidDeviceRunStatus(status)
  \/ status.final_distance_slot # controller.distance_read_slot
  \/ status.rounds_completed # controller.rounds_completed
  \/ status.valid_lane_mask # d.valid_lane_mask

-----------------------------------------------------------------------------
(***************************************************************************)
(* The work, reconstructed                                                 *)
(***************************************************************************)
\* lane_executed_rounds, frontier_rounds_by_lane.  A full scan goes on for a
\* lane that is done unless lanes converge by themselves.
LaneExecutedRounds(options, run, l) ==
  LET convergence == run.convergence_round_by_lane[l]
      stopped     == options.enable_per_lane_convergence = 1
                       \/ options.engine = "frontier_push"
  IN IF convergence # 0 /\ stopped THEN convergence
     ELSE run.controller.rounds_completed

ExecutedLaneRounds(d, options, run) ==
  MapThenSumSet(LAMBDA l : LaneExecutedRounds(options, run, l),
                d.valid_lane_mask)

\* Fault: the last lane of a run decides how often its edges were loaded.
FaultRunRounds(options, run, lanes) ==
  LaneExecutedRounds(options, run, Max(lanes))

\* A run is visited as long as one of its lanes executes.
RunRounds(options, run, lanes) ==
  Max({LaneExecutedRounds(options, run, l) : l \in lanes})

\* for_each_nonzero_csc_run and its CSR fellow.
NonzeroRuns(d, storage, runs) ==
  LET masks == ExpandedRunMasks(d, storage, runs)
  IN {[edges |-> Cardinality(runs[n].positions), lanes |-> masks[n], id |-> n] :
        n \in {m \in DOMAIN runs : masks[m] # {}}}

ScannedRuns(d, options) ==
  IF options.engine = "jacobi_pull" THEN NonzeroRuns(d, d.csc, CscRuns)
                                    ELSE NonzeroRuns(d, d.csr, CsrRuns)

\* csc_edge_records_loaded, ExactDenseWork.edge_records
ExactEdgeRecords(d, options, run) ==
  MapThenSumSet(LAMBDA r : r.edges * RunRounds(options, run, r.lanes),
                ScannedRuns(d, options))

\* admitted_lane_edge_pairs, ExactDenseWork.lane_edge_pairs
ExactLaneEdgePairs(d, options, run) ==
  MapThenSumSet(
    LAMBDA r : r.edges * MapThenSumSet(
                           LAMBDA l : LaneExecutedRounds(options, run, l),
                           r.lanes),
    ScannedRuns(d, options))

\* lane_edge_pairs_per_complete_batch_round
LaneEdgePairsPerRound(d, options) ==
  MapThenSumSet(LAMBDA r : r.edges * Cardinality(r.lanes),
                ScannedRuns(d, options))

BaselineLaneEdges(d, options, run) ==
  LaneEdgePairsPerRound(d, options) * run.controller.rounds_completed

\* The scans' evidence needs no counter of the device; where there is one, it
\* has to agree.
ScanEvidenceThrows(d, options, run) ==
  \/ ExactLaneEdgePairs(d, options, run) > BaselineLaneEdges(d, options, run)
  \/ /\ options.instrumentation # "none"
     /\ \/ run.work.edge_loads # ExactEdgeRecords(d, options, run)
        \/ run.work.lane_edge_relaxations # ExactLaneEdgePairs(d, options, run)
  \/ /\ options.engine = "dense_chaotic_push"
     /\ ExecutedLaneRounds(d, options, run) > ValidLaneRoundCapacity(d, run)

\* A worklist depends on the order of the updates: its counters are taken as
\* they are, after what they have to agree in.
FrontierEvidenceThrows(d, options, run) ==
  \/ \E l \in d.valid_lane_mask :
       run.convergence_round_by_lane[l] > run.controller.rounds_completed
  \/ /\ options.instrumentation # "none"
     /\ \/ ActiveLaneRounds(d, run) # ExecutedLaneRounds(d, options, run)
        \/ run.work.active_vertex_lane_pairs < run.work.frontier_vertex_entries
        \/ run.work.lane_edge_relaxations < run.work.edge_loads
        \/ options.instrumentation = "debug" /\
             run.work.unique_next_vertex_lane_activations
               < run.work.queue_claims
  \/ ExecutedLaneRounds(d, options, run) > ValidLaneRoundCapacity(d, run)

EvidenceThrows(d, options, run) ==
  IF options.engine = "frontier_push"
    THEN FrontierEvidenceThrows(d, options, run)
    ELSE ScanEvidenceThrows(d, options, run)

\* The tests between the last round and the answer.
DeviceFinishThrows(d, options, run) ==
  IF options.transfer \in CompactTransfers
    THEN CompactStatusThrows(d, RunStatus(d, run))
    ELSE \/ FullStatusThrows(d, RunStatus(d, run), run.controller)
         \/ EvidenceThrows(d, options, run)
=============================================================================
