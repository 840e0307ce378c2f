---------------------------- MODULE BatchedSweep ----------------------------
(***************************************************************************)
(* The two batched full-scan engines on the device                         *)
(* (src/src/hip/batched_jacobi.hip.cpp and                                 *)
(* src/src/hip/batched_dense_chaotic_push.hip.cpp).  A wave takes one      *)
(* selected vertex at a time and serves all lanes of the batch at once:    *)
(* its column from one distance slot into the other (Jacobi), or its row   *)
(* with atomic minima in one array (dense).  With per-lane convergence a   *)
(* lane that a whole round leaves alone drops out of the execute mask      *)
(* while the others go on, and the Jacobi slots go on swapping under it.   *)
(*                                                                         *)
(* The device counts its work run by run; the host computes the same       *)
(* counts from the rounds every lane executed, and returns nothing when    *)
(* they differ.  Batches follow each other in one workspace.               *)
(*                                                                         *)
(* One action is one vertex of one wave (Jacobi), one load or atomic       *)
(* minimum of all lanes of one edge (dense: the words of the lanes are     *)
(* disjoint, and DenseChaoticPush has the loop inside the minimum), or one *)
(* step of the whole grid or of the host.                                  *)
(***************************************************************************)
EXTENDS BatchProblem, SweepController, FiniteSetsExt

CONSTANTS
  WaveCount,          \* waves of the grid
  Options             \* the run options a batch may be started with

Waves == 0 .. WaveCount - 1

ASSUME EngineAssumption ==
  /\ WaveCount \in Nat \ {0}
  /\ \A options \in Options :
       /\ options.engine \in {"jacobi_pull", "dense_chaotic_push"}
       /\ options.control_mode \in ControlModes
       /\ options.rounds_per_chunk \in Nat \ {0}
       /\ options.maximum_rounds \in Nat \ {0}
       /\ options.enable_per_lane_convergence \in Slots

VARIABLES
  batch,                    \* the batch in the workspace, 0 before the first
  run_options,              \* GpuRunOptions of its run
  distances,                \* engine_scratch: slot, vertex, lane
  run_lane_masks,           \* the prepared mask of each edge's run
  lane_convergence_rounds,  \* batch.lane_convergence_rounds
  statistics,               \* what the device counted
  controller,               \* *workspace.controller
  status,                   \* *workspace.status
  stage,                    \* kernel, or part of the persistent kernel
  queued_pairs,             \* round pairs left in the chunk the host launched
  wave,                     \* the local variables of every wave
  outputs                   \* what the host returned for each batch

scratchVars == <<distances, run_lane_masks>>
deviceVars  == <<lane_convergence_rounds, statistics, controller, status>>
hostVars    == <<batch, run_options, queued_pairs, outputs>>

vars == <<scratchVars, deviceVars, stage, wave, hostVars>>

Pulls == run_options.engine = "jacobi_pull"

Persistent == run_options.control_mode = "persistent_cooperative"

\* chunk_rounds of run_impl
ChunkRounds(options) ==
  IF options.control_mode = "chunked_host_poll"
    THEN options.rounds_per_chunk ELSE 1

Valid == Batches[batch].valid_lane_mask

AtEntry == [pc |-> "enter", index |-> 0, edge |-> 0,
            candidate |-> [l \in Lanes |-> 0], changed |-> {}]

-----------------------------------------------------------------------------
(***************************************************************************)
(* The runs of a vertex: the edges of its column (Jacobi) or row (dense)   *)
(* whose far ends share a tile.  Both orders are sorted by that tile.      *)
(***************************************************************************)
Near(e) == IF Pulls THEN Destination[e] ELSE Source[e]
Far(e)  == IF Pulls THEN Source[e] ELSE Destination[e]

RunsOf(v) ==
  {{f \in Edges : Near(f) = v /\ OwnerTile[Far(f)] = OwnerTile[Far(e)]} :
     e \in {f \in Edges : Near(f) = v}}

RunMask(run) == run_lane_masks[CHOOSE e \in run : TRUE]

\* The i-th vertex of selected_vertex_ranges.
SelectedVertex(i) ==
  CHOOSE v \in UnionVertices(batch) :
    Cardinality({u \in UnionVertices(batch) : u < v}) = i

(***************************************************************************)
(* DeviceBatchJacobiStatistics and DeviceBatchDenseStatistics.             *)
(***************************************************************************)
Counters == {"runs_considered", "nonzero_runs_visited", "active_lanes",
             "edge_records_loaded", "admitted_lane_edge_pairs",
             "vertex_lane_evaluations", "active_lane_rounds", "full_edge_rounds"}

NoWork == [c \in Counters |-> 0]

Sum(a, b) == [c \in Counters |-> a[c] + b[c]]

\* What a wave counts at vertex v in a round that executes the lanes of a set.
VertexWork(v, execute) ==
  LET here == VertexLanes(batch, v) \intersect execute
      active(run) == RunMask(run) \intersect here
      visited == {run \in RunsOf(v) : active(run) # {}}
  IN IF here = {} THEN NoWork
     ELSE [NoWork EXCEPT
             !.runs_considered          = Cardinality(RunsOf(v)),
             !.nonzero_runs_visited     = Cardinality(visited),
             !.active_lanes             =
               MapThenSumSet(LAMBDA run : Cardinality(active(run)), visited),
             !.edge_records_loaded      = MapThenSumSet(Cardinality, visited),
             !.admitted_lane_edge_pairs =
               MapThenSumSet(LAMBDA run : Cardinality(run)
                                            * Cardinality(active(run)), visited),
             !.vertex_lane_evaluations  = Cardinality(here)]

-----------------------------------------------------------------------------
(***************************************************************************)
(* Init: the workspace has been reserved; what a fresh allocation holds is *)
(* overwritten where it is read.                                           *)
(***************************************************************************)
Init ==
  /\ batch = 0
  /\ run_options \in Options
  /\ distances = [slot \in Slots |-> [v \in Vertices |-> [l \in Lanes |-> 0]]]
  /\ run_lane_masks = [e \in Edges |-> Lanes]
  /\ lane_convergence_rounds = [l \in Lanes |-> 0]
  /\ statistics = NoWork
  /\ controller = InitializeDeviceController(run_options, Lanes, 0)
  /\ status = <<>>
  /\ stage = "idle"
  /\ queued_pairs = 0
  /\ wave = [w \in Waves |-> AtEntry]
  /\ outputs = [b \in BatchIds |-> [returned |-> FALSE]]

\* The head of run_impl and prepare_async: the description is uploaded, with
\* the run masks the dense engine reads, and the statistics are cleared.
StartBatch ==
  /\ stage = "idle"
  /\ batch < Len(Batches)
  /\ batch' = batch + 1
  /\ \E options \in Options :
       /\ options.engine = run_options.engine
       /\ run_options' = options
       /\ queued_pairs' = ChunkRounds(options)
       /\ controller' = InitializeDeviceController(
                          options, Batches[batch'].valid_lane_mask, 0)
  /\ run_lane_masks' =
       IF Pulls THEN run_lane_masks
                ELSE [e \in Edges |-> RunLaneMask(batch', e)]
  /\ status' = <<>>
  /\ statistics' = NoWork
  /\ stage' = "initialize"
  /\ UNCHANGED <<distances, lane_convergence_rounds, wave, outputs>>

\* Fault variants, here and below, break one definition the way a slip in the
\* code would; the specification uses none of them.
\* Fault: the masks of a new batch are added to those of the last.
FaultAddRunMasks ==
  [e \in Edges |-> IF Pulls /\ Destination[e] \in UnionVertices(batch)
                     THEN run_lane_masks[e] \union RunLaneMask(batch, e)
                     ELSE run_lane_masks[e]]

\* Jacobi: the masks of the runs of the selected columns are overwritten.
InitialRunMasks ==
  [e \in Edges |-> IF Pulls /\ Destination[e] \in UnionVertices(batch)
                     THEN RunLaneMask(batch, e)
                     ELSE run_lane_masks[e]]

\* initialize_batched_jacobi_state, initialize_batched_dense_state.  The waves
\* write disjoint words and read none of them, so the kernel is one step.
InitializeState ==
  /\ stage = "initialize"
  /\ distances' =
       [slot \in Slots |-> [v \in Vertices |-> [l \in Lanes |->
          IF l \in VertexLanes(batch, v) /\ (Pulls \/ slot = 0)
            THEN LaneInitial[batch][l][v]
            ELSE distances[slot][v][l]]]]
  /\ run_lane_masks' = InitialRunMasks
  /\ lane_convergence_rounds' = [l \in Lanes |-> 0]
  /\ controller' = InitializeDeviceController(run_options, Valid, 0)
  /\ stage' = "round"
  /\ UNCHANGED <<statistics, status, wave, hostVars>>

-----------------------------------------------------------------------------
(***************************************************************************)
(* perform_batched_jacobi_round, perform_batched_dense_round.  Wave w      *)
(* takes the selected vertices w, w + WaveCount, ...                       *)
(***************************************************************************)
AtOperation(w, operation) == stage = "round" /\ wave[w].pc = operation

Goto(w, operation) == wave' = [wave EXCEPT ![w].pc = operation]

Execute == ~controller.done /\ controller.execute_lane_mask # {}

EnterRound(w) ==
  /\ AtOperation(w, "enter")
  /\ wave' = [wave EXCEPT ![w].pc    = IF Execute THEN "vertex" ELSE "publish",
                          ![w].index = w]
  /\ UNCHANGED <<scratchVars, deviceVars, stage, hostVars>>

Current(w) == SelectedVertex(wave[w].index)

HasVertex(w) == wave[w].index < Cardinality(UnionVertices(batch))

ExecutedLanes(v) == VertexLanes(batch, v) \intersect controller.execute_lane_mask

Read == distances[controller.distance_read_slot]

\* The lowest of the vertex's own distance and those its runs offer the lane.
Best(v, l) ==
  Min({Read[v][l]} \union
      {Plus(Read[Source[e]][l], Weight[e]) :
         e \in {f \in Edges : /\ Destination[f] = v
                              /\ l \in run_lane_masks[f]}})

\* Fault: only improvements are written.
FaultWriteImprovements(v) ==
  [l \in Lanes |-> IF l \in ExecutedLanes(v) /\ Best(v, l) < Read[v][l]
                     THEN Best(v, l)
                     ELSE distances[controller.distance_write_slot][v][l]]

\* The words of the vertex in the write slot: an old value is written as well
\* as an improvement.
Written(v) ==
  [l \in Lanes |-> IF l \in ExecutedLanes(v)
                     THEN Best(v, l)
                     ELSE distances[controller.distance_write_slot][v][l]]

\* One vertex of the Jacobi wave.
PullVertex(w) ==
  LET v == Current(w)
  IN /\ AtOperation(w, "vertex")
     /\ Pulls
     /\ HasVertex(w)
     /\ distances' = [distances EXCEPT
                        ![controller.distance_write_slot][v] = Written(v)]
     /\ statistics' = Sum(statistics, VertexWork(v, controller.execute_lane_mask))
     /\ wave' = [wave EXCEPT
                   ![w].index   = @ + WaveCount,
                   ![w].changed = @ \union {l \in ExecutedLanes(v) :
                                              Best(v, l) < Read[v][l]}]
     /\ UNCHANGED <<run_lane_masks, lane_convergence_rounds, controller,
                    status, stage, hostVars>>

\* The edges of the row after the last one tried, in runs with an active lane.
Remaining(w) ==
  {e \in Edges : /\ Source[e] = Current(w)
                 /\ e > wave[w].edge
                 /\ ExecutedLanes(Current(w)) # {}
                 /\ run_lane_masks[e] \intersect controller.execute_lane_mask # {}}

ActiveRunLanes(e) == run_lane_masks[e] \intersect controller.execute_lane_mask

\* Dense: the lanes reload the source word for every edge, because another
\* wave may have lowered it during the same scan.
LoadSources(w) ==
  /\ AtOperation(w, "vertex")
  /\ ~Pulls
  /\ HasVertex(w)
  /\ Remaining(w) # {}
  /\ LET e == Min(Remaining(w))
     IN wave' = [wave EXCEPT
                   ![w].pc        = "minimum",
                   ![w].edge      = e,
                   ![w].candidate =
                     [l \in Lanes |->
                        IF l \in ActiveRunLanes(e)
                          THEN Plus(distances[0][Source[e]][l], Weight[e])
                          ELSE 0]]
  /\ UNCHANGED <<scratchVars, deviceVars, stage, hostVars>>

\* The lanes whose atomic minimum lowers the destination.
Lowered(w) ==
  {l \in ActiveRunLanes(wave[w].edge) :
     wave[w].candidate[l] < distances[0][Destination[wave[w].edge]][l]}

\* lane_changed = lane_changed || decreased
ChangedLanes(w) == wave[w].changed \union Lowered(w)

LowerDestinations(w) ==
  LET e == wave[w].edge
  IN /\ AtOperation(w, "minimum")
     /\ distances' = [distances EXCEPT
                        ![0][Destination[e]] =
                          [l \in Lanes |-> IF l \in Lowered(w)
                                             THEN wave[w].candidate[l]
                                             ELSE @[l]]]
     /\ wave' = [wave EXCEPT ![w].pc        = "vertex",
                             ![w].candidate = [l \in Lanes |-> 0],
                             ![w].changed   = ChangedLanes(w)]
     /\ UNCHANGED <<run_lane_masks, deviceVars, stage, hostVars>>

\* Dense: the row is finished and counted.
FinishRow(w) ==
  /\ AtOperation(w, "vertex")
  /\ ~Pulls
  /\ HasVertex(w)
  /\ Remaining(w) = {}
  /\ statistics' =
       Sum(statistics, VertexWork(Current(w), controller.execute_lane_mask))
  /\ wave' = [wave EXCEPT ![w].index = @ + WaveCount, ![w].edge = 0]
  /\ UNCHANGED <<scratchVars, lane_convergence_rounds, controller, status,
                 stage, hostVars>>

FinishShare(w) ==
  /\ AtOperation(w, "vertex")
  /\ ~HasVertex(w)
  /\ Goto(w, "publish")
  /\ UNCHANGED <<scratchVars, deviceVars, stage, hostVars>>

\* The ballot of the wave's changed lanes, joined to the controller's mask.
PublishChanged(w) ==
  /\ AtOperation(w, "publish")
  /\ controller' = [controller EXCEPT
                      !.changed_lane_mask = @ \union wave[w].changed]
  /\ wave' = [wave EXCEPT ![w] = [AtEntry EXCEPT !.pc = "sync"]]
  /\ UNCHANGED <<scratchVars, lane_convergence_rounds, statistics, status,
                 stage, hostVars>>

-----------------------------------------------------------------------------
(***************************************************************************)
(* advance_batched_jacobi_controller, advance_batched_dense_controller.    *)
(***************************************************************************)
RecordsARound ==
  /\ ~controller.done
  /\ controller.execute_lane_mask # {}
  /\ controller.error_bits = {}

UnchangedLanes ==
  controller.execute_lane_mask \ controller.changed_lane_mask

\* Fault: the round that ends is not counted.
FaultCompletedRounds ==
  [l \in Lanes |-> IF /\ RecordsARound
                      /\ l \in UnchangedLanes
                      /\ lane_convergence_rounds[l] = 0
                     THEN controller.rounds_completed
                     ELSE lane_convergence_rounds[l]]

\* A lane converges in the first round that leaves it alone.
ConvergenceRounds ==
  [l \in Lanes |-> IF /\ RecordsARound
                      /\ l \in UnchangedLanes
                      /\ lane_convergence_rounds[l] = 0
                     THEN controller.rounds_completed + 1
                     ELSE lane_convergence_rounds[l]]

AdvanceController ==
  /\ stage = "round"
  /\ \A w \in Waves : wave[w].pc = "sync"
  /\ controller' = IF Pulls THEN AdvanceJacobiController(controller)
                            ELSE AdvanceDenseController(controller)
  /\ lane_convergence_rounds' = ConvergenceRounds
  /\ statistics' =
       IF RecordsARound /\ controller'.error_bits = {}
         THEN [statistics EXCEPT
                 !.active_lane_rounds =
                    @ + Cardinality(controller.execute_lane_mask),
                 !.full_edge_rounds = @ + 1]
         ELSE statistics
  /\ IF Persistent
       THEN /\ stage' = IF controller'.done THEN "finalize" ELSE "round"
            /\ UNCHANGED queued_pairs
       ELSE /\ stage' = IF queued_pairs = 1 THEN "poll" ELSE "round"
            /\ queued_pairs' = queued_pairs - 1
  /\ wave' = [w \in Waves |-> AtEntry]
  /\ UNCHANGED <<scratchVars, status, batch, run_options, outputs>>

\* The host copies the controller, synchronizes the stream and goes on.
HostPoll ==
  /\ stage = "poll"
  /\ stage' = IF controller.done THEN "finalize" ELSE "round"
  /\ queued_pairs' = IF controller.done THEN 0 ELSE ChunkRounds(run_options)
  /\ UNCHANGED <<scratchVars, deviceVars, wave, batch, run_options, outputs>>

\* completed_batched_jacobi_status, completed_batched_dense_status.
CompletedStatus ==
  LET reached == {l \in Valid : LaneReached(batch, l, Read)}
  IN MakeRunStatus(controller, controller.distance_read_slot,
                   reached, Valid \ reached)

Finalize ==
  /\ stage = "finalize"
  /\ status' = CompletedStatus
  /\ stage' = "readback"
  /\ UNCHANGED <<scratchVars, lane_convergence_rounds, statistics, controller,
                 wave, hostVars>>

-----------------------------------------------------------------------------
(***************************************************************************)
(* The end of run_impl: the host downloads everything and throws when the  *)
(* controller, the status and the counts do not agree.                     *)
(***************************************************************************)
\* lane_executed_rounds
ExecutedRounds(l) ==
  IF run_options.enable_per_lane_convergence = 1 /\ lane_convergence_rounds[l] # 0
    THEN lane_convergence_rounds[l] ELSE controller.rounds_completed

MostRounds(lanes) == Max({ExecutedRounds(l) : l \in lanes} \union {0})
AllRounds(lanes)  == MapThenSumSet(ExecutedRounds, lanes)

\* reconstruct_exact_dense_work, and the loop over for_each_nonzero_csc_run.
\* The host takes the masks from the description, not from the device.
ExactVertexWork(v) ==
  LET here == VertexLanes(batch, v)
      mask(run) == RunLaneMask(batch, CHOOSE e \in run : TRUE)
  IN [NoWork EXCEPT
        !.runs_considered          = Cardinality(RunsOf(v)) * MostRounds(here),
        !.nonzero_runs_visited     =
          MapThenSumSet(LAMBDA run : MostRounds(mask(run)), RunsOf(v)),
        !.active_lanes             =
          MapThenSumSet(LAMBDA run : AllRounds(mask(run)), RunsOf(v)),
        !.edge_records_loaded      =
          MapThenSumSet(LAMBDA run : Cardinality(run) * MostRounds(mask(run)),
                        RunsOf(v)),
        !.admitted_lane_edge_pairs =
          MapThenSumSet(LAMBDA run : Cardinality(run) * AllRounds(mask(run)),
                        RunsOf(v)),
        !.vertex_lane_evaluations  = AllRounds(here)]

ExactWork ==
  [FoldSet(LAMBDA v, work : Sum(ExactVertexWork(v), work), NoWork,
           UnionVertices(batch))
     EXCEPT !.active_lane_rounds = AllRounds(Valid),
            !.full_edge_rounds   = controller.rounds_completed]

\* The counts both engines compare; dense compares all of them.
ComparedCounters ==
  IF Pulls THEN {"nonzero_runs_visited", "active_lanes", "edge_records_loaded",
                 "admitted_lane_edge_pairs"}
           ELSE Counters

RecordsAgree ==
  /\ ValidDeviceController(controller)
  /\ ValidDeviceRunStatus(status)
  /\ status.final_distance_slot = controller.distance_read_slot
  /\ status.rounds_completed = controller.rounds_completed
  /\ status.valid_lane_mask = Valid
  /\ \A l \in Valid : ~Pulls =>
       lane_convergence_rounds[l] <= controller.rounds_completed

DownloadIsConsistent ==
  RecordsAgree /\ \A c \in ComparedCounters : statistics[c] = ExactWork[c]

\* The compact readback asks this of the status it downloads on its own.
CompactStatusIsConsistent ==
  LET classified == status.reached_target_mask \union status.bounding_box_miss_mask
  IN /\ ValidDeviceRunStatus(status)
     /\ status.valid_lane_mask = Valid
     /\ classified = IF status.stop_reason = "converged" /\ status.error_bits = {}
                       THEN Valid ELSE {}

Readback ==
  /\ stage = "readback"
  /\ outputs' =
       [outputs EXCEPT
          ![batch] =
            [returned   |-> TRUE,
             consistent |-> DownloadIsConsistent /\ CompactStatusIsConsistent,
             status     |-> status,
             distances  |-> [l \in Lanes |->
                               LaneDistances(batch, l,
                                 distances[status.final_distance_slot])],
             rounds     |-> [l \in Lanes |-> IF l \in Valid
                                               THEN lane_convergence_rounds[l]
                                               ELSE 0]]]
  /\ stage' = "idle"
  /\ queued_pairs' = 0
  /\ UNCHANGED <<scratchVars, deviceVars, wave, batch, run_options>>

\* The host has no more batches.
Terminated == stage = "idle" /\ batch = Len(Batches) /\ UNCHANGED vars

WaveStep(w) ==
  \/ EnterRound(w) \/ PullVertex(w) \/ LoadSources(w) \/ LowerDestinations(w)
  \/ FinishRow(w) \/ FinishShare(w) \/ PublishChanged(w)

GridStep ==
  \/ StartBatch \/ InitializeState \/ AdvanceController \/ HostPoll
  \/ Finalize \/ Readback

Next == (\E w \in Waves : WaveStep(w)) \/ GridStep \/ Terminated

Spec == Init /\ [][Next]_vars

-----------------------------------------------------------------------------
(***************************************************************************)
(* Properties                                                              *)
(***************************************************************************)
RunStages == {"round", "poll", "finalize", "readback"}

\* Once a lane's convergence round is published, its distances are the
\* shortest ones, in both Jacobi slots, and stay so for the rest of the batch:
\* whichever slot the last swap leaves to be read, the lane's part is right.
ConvergedLaneIsShortest ==
  stage \in RunStages =>
    \A l \in Valid : lane_convergence_rounds[l] # 0 =>
      \A slot \in IF Pulls THEN Slots ELSE {0} :
        LaneDistances(batch, l, distances[slot]) = LaneReference[batch][l]

AtRoundBoundary ==
  stage = "round" /\ ~controller.done /\ \A w \in Waves : wave[w].pc = "enter"

LaneBellmanFord ==
  [b \in BatchIds |-> [l \in Lanes |-> [k \in 0 .. VertexCount |->
     LaneRounds(b, l)[k]]]]

\* Between rounds every lane is where its query would be on its own: exactly
\* after as many Bellman-Ford rounds under Jacobi, and between that and the
\* shortest distances under dense, whatever lanes and batches it shares the
\* workspace with.
LanesFollowBellmanFord ==
  AtRoundBoundary =>
    \A l \in Valid :
      LET image == LaneDistances(batch, l, Read)
          after == LaneBellmanFord[batch][l][
                     Min({controller.rounds_completed, VertexCount})]
      IN IF Pulls THEN image = after
         ELSE \A v \in Vertices :
                /\ image[v] <= after[v]
                /\ image[v] >= LaneReference[batch][l][v]

\* What the host returns for a lane agrees with the reference distances when
\* the batch converged, and nothing is classified otherwise.
ReturnedIsTrue(b) ==
  LET s     == outputs[b].status
      valid == Batches[b].valid_lane_mask
      near  == {l \in valid : \A v \in Batches[b].targets[l] :
                                LaneReference[b][l][v] # Infinity}
  IN IF s.stop_reason = "converged"
       THEN /\ s.reached_target_mask = near
            /\ s.bounding_box_miss_mask = valid \ near
            /\ \A l \in valid : outputs[b].distances[l] = LaneReference[b][l]
       ELSE s.reached_target_mask \union s.bounding_box_miss_mask = {}

\* The host never throws: what the device counted run by run is what the
\* host computes from the lanes' executed rounds.  And what it returns is true.
HostGetsTheTruth ==
  \A b \in BatchIds : outputs[b].returned =>
    outputs[b].consistent /\ ReturnedIsTrue(b)
=============================================================================
