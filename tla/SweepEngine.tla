----------------------------- MODULE SweepEngine -----------------------------
(***************************************************************************)
(* What the two full-scan engines (src/src/hip/dense_chaotic_push.hip.cpp, *)
(* src/src/hip/jacobi.hip.cpp) have in common: a grid of blocks whose      *)
(* threads stride over the vertices, the reduction of the threads' changed *)
(* flags to one atomic OR per block, the barrier with the controller       *)
(* advance, and the host that launches one persistent kernel or chunks of  *)
(* round/advance kernel pairs and polls.                                   *)
(***************************************************************************)
EXTENDS RoutingProblem, SweepController

CONSTANTS
  ThreadCount,        \* threads of the grid
  BlockSize,          \* threads of a block
  Options             \* the run options the engine may be started with

Threads == 0 .. ThreadCount - 1
Blocks  == {t \div BlockSize : t \in Threads}
Members(b) == {t \in Threads : t \div BlockSize = b}

ASSUME GridAssumption ==
  /\ ThreadCount \in Nat \ {0}
  /\ BlockSize \in 1 .. ThreadCount
  /\ ThreadCount % BlockSize = 0
  /\ LaneCount = 1
  /\ \A options \in Options :
       /\ options.engine \in {"dense_chaotic_push", "jacobi_pull"}
       /\ options.control_mode \in ControlModes
       /\ options.rounds_per_chunk \in Nat \ {0}
       /\ options.maximum_rounds \in Nat \ {0}
       /\ options.enable_per_lane_convergence \in Slots

VARIABLES
  run_options,          \* GpuRunOptions of this run
  run_lane_masks,       \* edges whose run is marked for the lane
  controller,           \* *workspace.controller
  status,               \* *workspace.status, <<>> until it is written
  stage,                \* kernel, or part of the persistent kernel
  queued_pairs,         \* round pairs left in the chunk the host launched
  pc,                   \* per thread: next operation
  vertex,               \* per thread: position in its stride
  changed               \* per thread: local.changed

hostVars == <<run_options, status, queued_pairs>>

Persistent == run_options.control_mode = "persistent_cooperative"

\* chunk_rounds of run_impl
ChunkRounds(options) ==
  IF options.control_mode = "chunked_host_poll"
    THEN options.rounds_per_chunk ELSE 1

FreshController == InitializeDeviceController(run_options, StandaloneLane, 0)

\* The host has leased a workspace, in which it cleared the run masks and the
\* engine scratch and put a fresh controller (run_impl, prepare_query_async).
GridInit ==
  /\ run_options \in Options
  /\ run_lane_masks = {}
  /\ controller = FreshController
  /\ status = <<>>
  /\ stage = "initialize"
  /\ queued_pairs = ChunkRounds(run_options)
  /\ pc = [t \in Threads |-> "enter"]
  /\ vertex = [t \in Threads |-> 0]
  /\ changed = [t \in Threads |-> FALSE]

Stride(t) == {v \in Vertices : v % ThreadCount = t}

\* The part of initialize_dense_state and initialize_jacobi_state the engines
\* share: thread 0 resets the controller.
InitializeController(t) ==
  /\ stage = "initialize"
  /\ pc[t] = "enter"
  /\ controller' = IF t = 0 THEN FreshController ELSE controller
  /\ pc' = [pc EXCEPT ![t] = "sync"]
  /\ UNCHANGED <<hostVars, stage, vertex, changed>>

\* The barrier (grid.sync(), or the end of the kernel) after initialization.
BarrierAfterInitialize ==
  /\ stage = "initialize"
  /\ \A t \in Threads : pc[t] = "sync"
  /\ stage' = "round"
  /\ pc' = [t \in Threads |-> "enter"]
  /\ UNCHANGED <<run_lane_masks, controller, hostVars, vertex, changed>>

AtOperation(t, operation) == stage = "round" /\ pc[t] = operation

Goto(t, operation) == pc' = [pc EXCEPT ![t] = operation]

Execute == ~controller.done /\ controller.execute_lane_mask # {}

\* A thread of the round kernel starts its stride, or has nothing to execute.
EnterSweep(t) ==
  /\ AtOperation(t, "enter")
  /\ Goto(t, IF Execute THEN "scan" ELSE "reduce")
  /\ vertex' = [vertex EXCEPT ![t] = IF Execute THEN t ELSE 0]
  /\ changed' = [changed EXCEPT ![t] = FALSE]
  /\ UNCHANGED <<run_lane_masks, controller, hostVars, stage>>

\* Fault: the first thread of a block reports its own flag alone.
FaultLeaderOnly(b) ==
  /\ stage = "round"
  /\ \A t \in Members(b) : pc[t] = "reduce"
  /\ controller' = [controller EXCEPT
                      !.changed_lane_mask =
                         IF changed[b * BlockSize]
                           THEN @ \union StandaloneLane ELSE @]
  /\ pc' = [t \in Threads |-> IF t \in Members(b) THEN "sync" ELSE pc[t]]
  /\ changed' = [t \in Threads |-> IF t \in Members(b) THEN FALSE
                                                       ELSE changed[t]]
  /\ UNCHANGED <<run_lane_masks, hostVars, stage, vertex>>

\* The flags of a block meet behind __syncthreads() in its first thread, which
\* raises the lane's changed bit once.
ReduceBlock(b) ==
  /\ stage = "round"
  /\ \A t \in Members(b) : pc[t] = "reduce"
  /\ controller' = [controller EXCEPT
                      !.changed_lane_mask =
                         IF \E t \in Members(b) : changed[t]
                           THEN @ \union StandaloneLane ELSE @]
  /\ pc' = [t \in Threads |-> IF t \in Members(b) THEN "sync" ELSE pc[t]]
  /\ changed' = [t \in Threads |-> IF t \in Members(b) THEN FALSE
                                                       ELSE changed[t]]
  /\ UNCHANGED <<run_lane_masks, hostVars, stage, vertex>>

\* All threads have reached the barrier; one advances the controller.  A
\* persistent grid then reads done; in a chunk the next pair runs whether or
\* not the controller is done, until the host polls.
AdvanceTo(next) ==
  /\ stage = "round"
  /\ \A t \in Threads : pc[t] = "sync"
  /\ controller' = next
  /\ IF Persistent
       THEN /\ stage' = IF next.done THEN "finalize" ELSE "round"
            /\ UNCHANGED queued_pairs
       ELSE /\ stage' = IF queued_pairs = 1 THEN "poll" ELSE "round"
            /\ queued_pairs' = queued_pairs - 1
  /\ pc' = [t \in Threads |-> "enter"]
  /\ UNCHANGED <<run_lane_masks, run_options, status, vertex, changed>>

\* Fault: the host never sees done.
FaultPollNever ==
  /\ stage = "poll"
  /\ stage' = "round"
  /\ queued_pairs' = ChunkRounds(run_options)
  /\ UNCHANGED <<run_lane_masks, controller, run_options, status, pc, vertex,
                 changed>>

\* The host copies the controller, synchronizes the stream and goes on.
HostPoll ==
  /\ stage = "poll"
  /\ IF controller.done
       THEN /\ stage' = "finalize"
            /\ UNCHANGED queued_pairs
       ELSE /\ stage' = "round"
            /\ queued_pairs' = ChunkRounds(run_options)
  /\ UNCHANGED <<run_lane_masks, controller, run_options, status, pc, vertex,
                 changed>>

\* completed_dense_status, completed_jacobi_status, which alone read the
\* targets of the query.  The dense engine's read slot is always 0, the slot
\* its status names.
CompletedStatus(distances, targets) ==
  LET reachedAll == \A v \in targets : distances[v] # Infinity
  IN MakeRunStatus(controller, controller.distance_read_slot,
                   IF reachedAll THEN StandaloneLane ELSE {},
                   IF reachedAll THEN {} ELSE StandaloneLane)

FinalizeWith(result) ==
  /\ stage = "finalize"
  /\ status' = result
  /\ stage' = "exit"
  /\ UNCHANGED <<run_lane_masks, controller, run_options, queued_pairs, pc,
                 vertex, changed>>

AtRoundBoundary ==
  stage = "round" /\ ~controller.done /\ \A t \in Threads : pc[t] = "enter"

\* A status for these targets tells a reached query from one the bounding box
\* cuts off, by the reference distances, and classifies nothing unless the run
\* converged.
Classifies(result, targets) ==
  /\ ValidDeviceRunStatus(result)
  /\ result.reached_target_mask # {} <=>
       /\ result.stop_reason = "converged"
       /\ \A v \in targets : ReferenceDistance[v] # Infinity
  /\ result.bounding_box_miss_mask # {} <=>
       /\ result.stop_reason = "converged"
       /\ \E v \in targets : ReferenceDistance[v] = Infinity

\* A run that reports convergence, in any state after it does, holds exactly
\* the shortest distances, and the status classifies the query.  No step
\* before the status reads the targets, so one run stands for all queries with
\* its sources.
StatusTruthful(distances) ==
  /\ stage # "initialize" /\ controller.stop_reason = "converged" =>
       IsShortest(distances)
  /\ stage = "exit" =>
       /\ Classifies(status, Targets)
       /\ \A targets \in TargetSets :
            Classifies(CompletedStatus(distances, targets), targets)

\* A full scan per round: a run takes at most one round per selected vertex, so
\* that such a limit is always enough, and the engine's own checks and the
\* host's validation never fail.
ControllerSound ==
  /\ controller.error_bits = {}
  /\ controller.rounds_completed <= SelectedVertexCount
  /\ stage \in {"poll", "finalize", "exit"} => ValidDeviceController(controller)
  /\ controller.stop_reason = "maximum_rounds" =>
       controller.maximum_rounds < SelectedVertexCount
=============================================================================
