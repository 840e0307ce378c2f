------------------------ MODULE BatchedFrontierPush ------------------------
(***************************************************************************)
(* The batched frontier-push engine on the device                          *)
(* (src/src/hip/batched_frontier_push.hip.cpp): the queries of a batch are *)
(* lanes of one run.  A vertex is queued once for all its lanes, and two   *)
(* mask words per vertex, one per queue, say which lanes are active there. *)
(* The lanes share the queues, the round limit and the fate of the run,    *)
(* but a lane that leaves the frontier is published as converged at once.  *)
(*                                                                         *)
(* The host runs one batch after the other in a workspace whose distances, *)
(* masks and queues keep what the previous batch left there, including one *)
(* that an overflow ended in the middle of a round.                        *)
(*                                                                         *)
(* One action is one atomic operation of one thread, or one step of the    *)
(* whole grid or of the host.  Two adjacent operations are one action only *)
(* when the second commutes with everything the other threads do.          *)
(***************************************************************************)
EXTENDS BatchProblem, FrontierController, FiniteSetsExt

CONSTANTS
  ThreadCount,        \* threads of the grid
  QueueCapacity,      \* entries of each of the two queues
  Options             \* the run options a batch may be started with

Threads == 0 .. ThreadCount - 1

ASSUME EngineAssumption ==
  /\ ThreadCount \in Nat \ {0}
  /\ QueueCapacity \in 1 .. VertexCount
  /\ \A options \in Options :
       /\ options.engine = "frontier_push"
       /\ options.control_mode \in ControlModes
       /\ options.rounds_per_chunk \in Nat \ {0}
       /\ options.maximum_rounds \in Nat \ {0}
       /\ options.enable_per_lane_convergence \in Slots

VARIABLES
  batch,                    \* the batch in the workspace, 0 before the first
  run_options,              \* GpuRunOptions of its run
  distance_bits,            \* scratch.distance_bits, vertex by lane
  vertex_lane_masks,        \* scratch.vertex_lane_masks[2]
  queues,                   \* scratch.queues[2]
  lane_convergence_rounds,  \* batch.lane_convergence_rounds
  statistics,               \* the rounds the device counted, per kind
  controller,               \* *workspace.controller
  status,                   \* *workspace.status
  stage,                    \* kernel, or part of the persistent kernel
  queued_pairs,             \* round pairs left in the chunk the host launched
  thread,                   \* the local variables of every thread
  outputs                   \* what the host returned for each batch

scratchVars == <<distance_bits, vertex_lane_masks, queues>>
deviceVars  == <<lane_convergence_rounds, statistics, controller,
                 status>>
hostVars    == <<batch, run_options, queued_pairs, outputs>>

vars == <<scratchVars, deviceVars, stage, thread, hostVars>>

Positions == 0 .. QueueCapacity - 1

Persistent == run_options.control_mode = "persistent_cooperative"

\* chunk_rounds of run_impl
ChunkRounds(options) ==
  IF options.control_mode = "chunked_host_poll"
    THEN options.rounds_per_chunk ELSE 1

NoRounds == [active_lane_rounds |-> 0, frontier_rounds |-> 0,
             empty_frontier_rounds |-> 0]

AtEntry == [pc |-> "enter", index |-> 0, vertex |-> 0, lanes |-> {},
            step |-> 0, candidate |-> 0, observed |-> 0, successful |-> {}]

-----------------------------------------------------------------------------
(***************************************************************************)
(* Init: the workspace has been reserved.  A fresh allocation may hold     *)
(* anything; dirty says whether every mask bit is set or clear.            *)
(***************************************************************************)
Init ==
  /\ batch = 0
  /\ run_options \in Options
  /\ distance_bits = [v \in Vertices |-> [l \in Lanes |-> 0]]
  /\ \E dirty \in {{}, Lanes} :
       vertex_lane_masks = [slot \in Slots |-> [v \in Vertices |-> dirty]]
  /\ queues = [slot \in Slots |-> [i \in Positions |-> 0]]
  /\ lane_convergence_rounds = [l \in Lanes |-> 0]
  /\ statistics = NoRounds
  /\ controller = InitializeDeviceController(run_options, Lanes, 1)
  /\ status = <<>>
  /\ stage = "idle"
  /\ queued_pairs = 0
  /\ thread = [t \in Threads |-> AtEntry]
  /\ outputs = [b \in BatchIds |-> [returned |-> FALSE]]

\* The head of run_impl: the workspace is prepared for the next batch
\* (prepare_async uploads the description, a controller for one queue entry
\* per distinct source, and cleared statistics) and the kernels are launched.
StartBatch ==
  /\ stage = "idle"
  /\ batch < Len(Batches)
  /\ batch' = batch + 1
  /\ \E options \in Options :
       /\ run_options' = options
       /\ queued_pairs' = ChunkRounds(options)
       /\ controller' = InitializeDeviceController(
                          options, Batches[batch'].valid_lane_mask,
                          Cardinality(DistinctSourceVertices(batch')))
  /\ status' = <<>>
  /\ statistics' = NoRounds
  /\ stage' = "storage"
  /\ UNCHANGED <<scratchVars, lane_convergence_rounds, thread, outputs>>

\* Fault variants, here and below, break one definition the way a slip in the
\* code would; the specification uses none of them.
\* Fault: only the masks of the first queue are reset.
FaultResetReadMasks(slot, v) ==
  IF slot = 0 /\ v \in UnionVertices(batch) THEN {}
                                            ELSE vertex_lane_masks[slot][v]

\* Both mask words of the vertices of the batch are cleared, and no others.
ResetMask(slot, v) ==
  IF v \in UnionVertices(batch) THEN {} ELSE vertex_lane_masks[slot][v]

\* initialize_batched_frontier_storage.  The threads write disjoint words and
\* read none, so the kernel is one step.
InitializeStorage ==
  /\ stage = "storage"
  /\ vertex_lane_masks' =
       [slot \in Slots |-> [v \in Vertices |-> ResetMask(slot, v)]]
  /\ distance_bits' =
       [v \in Vertices |-> [l \in Lanes |->
          IF l \in VertexLanes(batch, v) THEN Infinity
                                         ELSE distance_bits[v][l]]]
  /\ lane_convergence_rounds' = [l \in Lanes |-> 0]
  /\ controller' = InitializeDeviceController(
                     run_options, Batches[batch].valid_lane_mask, 0)
  /\ stage' = "seed"
  /\ UNCHANGED <<queues, statistics, status, thread, hostVars>>

-----------------------------------------------------------------------------
(***************************************************************************)
(* seed_batched_frontier_sources.  Thread t seeds the source positions t,  *)
(* t + ThreadCount, ...                                                    *)
(***************************************************************************)
Goto(t, operation) == thread' = [thread EXCEPT ![t].pc = operation]

RaiseError(bit) == [controller EXCEPT !.error_bits = @ \union {bit}]

SourceCount == Len(Batches[batch].sources)

FirstPosition(t) ==
  /\ stage = "seed"
  /\ thread[t].pc = "enter"
  /\ thread' = [thread EXCEPT ![t].pc = "seed", ![t].index = t]
  /\ UNCHANGED <<scratchVars, deviceVars, stage, hostVars>>

\* The distance word belongs to this position alone, so its store and the
\* atomicOr of the mask are one step.
SeedSource(t) ==
  LET entry == Batches[batch].sources[thread[t].index + 1]
  IN /\ thread[t].pc = "seed"
     /\ thread[t].index < SourceCount
     /\ distance_bits' = [distance_bits EXCEPT ![entry.vertex][entry.lane] = 0]
     /\ vertex_lane_masks' = [vertex_lane_masks EXCEPT
                                ![0][entry.vertex] = @ \union {entry.lane}]
     /\ IF vertex_lane_masks[0][entry.vertex] = {}
          THEN Goto(t, "seed_claim")
          ELSE thread' = [thread EXCEPT ![t].index = @ + ThreadCount]
     /\ UNCHANGED <<queues, deviceVars, stage, hostVars>>

\* reserve_queue_position and the store of the entry, or the overflow bit.
ClaimEntry(slot, v) ==
  LET claim   == controller.frontier_size[slot]
      claimed == [controller EXCEPT !.frontier_size[slot] = claim + 1]
  IN IF claim < QueueCapacity
       THEN /\ queues' = [queues EXCEPT ![slot][claim] = v]
            /\ controller' = claimed
       ELSE /\ controller' =
                 [claimed EXCEPT !.error_bits = @ \union {"queue_overflow"}]
            /\ UNCHANGED queues

SeedClaim(t) ==
  /\ thread[t].pc = "seed_claim"
  /\ ClaimEntry(0, Batches[batch].sources[thread[t].index + 1].vertex)
  /\ thread' = [thread EXCEPT ![t].pc = "seed", ![t].index = @ + ThreadCount]
  /\ UNCHANGED <<distance_bits, vertex_lane_masks, lane_convergence_rounds,
                 statistics, status, stage, hostVars>>

FinishPositions(t) ==
  /\ thread[t].pc = "seed"
  /\ thread[t].index >= SourceCount
  /\ Goto(t, "sync")
  /\ UNCHANGED <<scratchVars, deviceVars, stage, hostVars>>

\* finish_batched_frontier_seed, after the barrier.
FinishSeed ==
  /\ stage = "seed"
  /\ \A t \in Threads : thread[t].pc = "sync"
  /\ controller' =
       IF "queue_overflow" \in controller.error_bits
         THEN CanonicalizeFrontierError(controller, "queue_overflow")
       ELSE IF controller.frontier_size[0] = 0 \/ controller.error_bits # {}
         THEN CanonicalizeFrontierError(controller, "invalid_controller_state")
       ELSE controller
  /\ stage' = IF Persistent /\ controller'.done THEN "finalize" ELSE "round"
  /\ thread' = [t \in Threads |-> AtEntry]
  /\ UNCHANGED <<scratchVars, lane_convergence_rounds, statistics,
                 status, hostVars>>

-----------------------------------------------------------------------------
(***************************************************************************)
(* perform_batched_frontier_round                                          *)
(***************************************************************************)
ReadSlot    == controller.frontier_read_slot
WriteSlot   == controller.frontier_write_slot
CurrentSize == controller.frontier_size[ReadSlot]

Execute == ~controller.done /\ controller.execute_lane_mask # {}

ValidRound == ReadSlot # WriteSlot /\ CurrentSize \in 1 .. QueueCapacity

\* The thread reads the controller, and leaves at once when there is nothing
\* to execute or the round is not valid; thread 0 then reports it.
EnterRound(t) ==
  /\ stage = "round"
  /\ thread[t].pc = "enter"
  /\ thread' = IF Execute /\ ValidRound
                 THEN [thread EXCEPT ![t].pc = "fetch", ![t].index = t]
                 ELSE [thread EXCEPT ![t].pc = "sync"]
  /\ controller' = IF Execute /\ ~ValidRound /\ t = 0
                     THEN RaiseError("invalid_controller_state")
                     ELSE controller
  /\ UNCHANGED <<scratchVars, lane_convergence_rounds, statistics,
                 status, stage, hostVars>>

NextEntry(t) == [AtEntry EXCEPT !.pc    = "fetch",
                                !.index = thread[t].index + ThreadCount]

\* atomicExch takes the lanes of the queued vertex; they must all be lanes
\* that execute and select the vertex.
TakeVertex(t) ==
  /\ thread[t].pc = "fetch"
  /\ thread[t].index < CurrentSize
  /\ LET v       == queues[ReadSlot][thread[t].index]
         queued  == vertex_lane_masks[ReadSlot][v]
         current == queued \intersect controller.execute_lane_mask
                           \intersect VertexLanes(batch, v)
     IN /\ vertex_lane_masks' = [vertex_lane_masks EXCEPT ![ReadSlot][v] = {}]
        /\ IF queued # {} /\ queued = current
             THEN /\ thread' = [thread EXCEPT
                       ![t] = [@ EXCEPT !.pc = "relax", !.vertex = v,
                                        !.lanes = current, !.step = 0]]
                  /\ UNCHANGED controller
             ELSE /\ controller' = RaiseError("invalid_controller_state")
                  /\ thread' = [thread EXCEPT ![t] = NextEntry(t)]
  /\ UNCHANGED <<distance_bits, queues, lane_convergence_rounds,
                 statistics, status, stage, hostVars>>

FinishShare(t) ==
  /\ thread[t].pc = "fetch"
  /\ thread[t].index >= CurrentSize
  /\ thread' = [thread EXCEPT ![t] = [AtEntry EXCEPT !.pc = "sync"]]
  /\ UNCHANGED <<scratchVars, deviceVars, stage, hostVars>>

\* The thread walks the edges of the row in CSR order and, for each edge, the
\* lanes of its run in ascending order: one step per edge and lane.
Step(e, l)  == e * LaneCount + l
StepEdge(s) == s \div LaneCount
StepLane(s) == s % LaneCount

\* active_run_mask
ActiveRunLanes(t, e) == RunLaneMask(batch, e) \intersect thread[t].lanes
                          \intersect controller.execute_lane_mask

RemainingSteps(t) ==
  {s \in UNION {{Step(e, l) : l \in ActiveRunLanes(t, e)} :
                e \in {f \in Edges : Source[f] = thread[t].vertex}} :
     s > thread[t].step}

\* The lanes of the edge the thread is at have all been tried.
EdgeFinished(t) ==
  \A s \in RemainingSteps(t) : StepEdge(s) # StepEdge(thread[t].step)

\* atomic_load_nonnegative_float_bits of the source, for the next edge and
\* lane.  The load is repeated for every edge.
LoadSource(t) ==
  /\ thread[t].pc = "relax"
  /\ RemainingSteps(t) # {}
  /\ EdgeFinished(t) => thread[t].successful = {}
  /\ LET s == Min(RemainingSteps(t))
     IN thread' = [thread EXCEPT
          ![t] = [@ EXCEPT
             !.pc        = "load",
             !.step      = s,
             !.candidate = Plus(
                             distance_bits[thread[t].vertex][StepLane(s)],
                             Weight[StepEdge(s)])]]
  /\ UNCHANGED <<scratchVars, deviceVars, stage, hostVars>>

FinishVertex(t) ==
  /\ thread[t].pc = "relax"
  /\ RemainingSteps(t) = {}
  /\ thread[t].successful = {}
  /\ thread' = [thread EXCEPT ![t] = NextEntry(t)]
  /\ UNCHANGED <<scratchVars, deviceVars, stage, hostVars>>

Target(t)     == Destination[StepEdge(thread[t].step)]
TargetLane(t) == StepLane(thread[t].step)

LeaveLane(t, lanes) ==
  thread' = [thread EXCEPT ![t] = [@ EXCEPT !.pc         = "relax",
                                            !.candidate  = 0,
                                            !.observed   = 0,
                                            !.successful = @ \union lanes]]

\* The first load of atomic_min_nonnegative_float_bits.
LoadDestination(t) ==
  /\ thread[t].pc = "load"
  /\ LET value == distance_bits[Target(t)][TargetLane(t)]
     IN IF thread[t].candidate < value
          THEN thread' = [thread EXCEPT ![t].pc = "cas", ![t].observed = value]
          ELSE LeaveLane(t, {})
  /\ UNCHANGED <<scratchVars, deviceVars, stage, hostVars>>

\* Fault: a plain store takes the place of the compare-and-swap.
FaultBlindStore(t) ==
  /\ thread[t].pc = "cas"
  /\ distance_bits' = [distance_bits EXCEPT
                         ![Target(t)][TargetLane(t)] = thread[t].candidate]
  /\ LeaveLane(t, {TargetLane(t)})
  /\ UNCHANGED <<vertex_lane_masks, queues, deviceVars, stage, hostVars>>

\* One atomicCAS of atomic_min_nonnegative_float_bits.
CompareAndSwap(t) ==
  /\ thread[t].pc = "cas"
  /\ LET preceding == distance_bits[Target(t)][TargetLane(t)]
     IN \/ /\ preceding = thread[t].observed
           /\ distance_bits' = [distance_bits EXCEPT
                ![Target(t)][TargetLane(t)] = thread[t].candidate]
           /\ LeaveLane(t, {TargetLane(t)})
        \/ /\ preceding # thread[t].observed
           /\ thread[t].candidate < preceding
           /\ thread' = [thread EXCEPT ![t].observed = preceding]
           /\ UNCHANGED distance_bits
        \/ /\ preceding # thread[t].observed
           /\ thread[t].candidate >= preceding
           /\ LeaveLane(t, {})
           /\ UNCHANGED distance_bits
  /\ UNCHANGED <<vertex_lane_masks, queues, deviceVars, stage, hostVars>>

\* old_destination_mask == 0U: the thread that sets the first lanes of a
\* vertex queues it, for every lane that joins before the barrier.
MustClaim(before, lanes) == before = {}

\* Fault: only the thread that queues the vertex reports its lanes.
FaultReportOnClaim(before, lanes) == IF before = {} THEN lanes ELSE {}

\* The lanes a thread reports in next_frontier_lane_mask, also when another
\* thread has queued the vertex.
ReportedLanes(before, lanes) == lanes

\* The two atomicOr operations that follow the last lane of an edge.  The
\* word of the controller is only read after the barrier.
MergeLanes(t) ==
  /\ thread[t].pc = "relax"
  /\ EdgeFinished(t)
  /\ thread[t].successful # {}
  /\ LET before == vertex_lane_masks[WriteSlot][Target(t)]
         lanes  == thread[t].successful
     IN /\ vertex_lane_masks' = [vertex_lane_masks EXCEPT
                                   ![WriteSlot][Target(t)] = before \union lanes]
        /\ controller' = [controller EXCEPT
                            !.next_frontier_lane_mask =
                               @ \union ReportedLanes(before, lanes)]
        /\ thread' = [thread EXCEPT
                        ![t].successful = {},
                        ![t].pc = IF MustClaim(before, lanes) THEN "claim"
                                                              ELSE "relax"]
  /\ UNCHANGED <<distance_bits, queues, lane_convergence_rounds,
                 statistics, status, stage, hostVars>>

QueueDestination(t) ==
  /\ thread[t].pc = "claim"
  /\ ClaimEntry(WriteSlot, Target(t))
  /\ Goto(t, "relax")
  /\ UNCHANGED <<distance_bits, vertex_lane_masks, lane_convergence_rounds,
                 statistics, status, stage, hostVars>>

-----------------------------------------------------------------------------
(***************************************************************************)
(* Between rounds: advance_batched_frontier_and_count                      *)
(***************************************************************************)
\* Fault: the lanes are only looked at when the whole batch has converged.
FaultPublishAtEnd(before, after) ==
  IF after.stop_reason = "converged" THEN before.execute_lane_mask ELSE {}

\* The lanes whose convergence a round proves: they executed, lowered
\* nothing, and no thread raised an error.
ProvenLanes(before, after) ==
  IF before.done \/ before.error_bits # {}
                 \/ after.stop_reason = "invalid_controller_state"
    THEN {}
    ELSE before.execute_lane_mask \ before.next_frontier_lane_mask

\* A round that ends in an error is a round, but not an empty one.
CountRound(c) ==
  LET empty == c.error_bits = {} /\ c.frontier_size[WriteSlot] = 0
  IN [active_lane_rounds    |-> statistics.active_lane_rounds
                                  + Cardinality(c.execute_lane_mask),
      frontier_rounds       |-> statistics.frontier_rounds + 1,
      empty_frontier_rounds |-> statistics.empty_frontier_rounds
                                  + IF empty THEN 1 ELSE 0]

AdvanceController ==
  /\ stage = "round"
  /\ \A t \in Threads : thread[t].pc = "sync"
  /\ controller' = AdvanceBatchedFrontierController(controller)
  /\ lane_convergence_rounds' =
       [l \in Lanes |->
          IF l \in ProvenLanes(controller, controller')
               /\ lane_convergence_rounds[l] = 0
            THEN controller'.rounds_completed
            ELSE lane_convergence_rounds[l]]
  /\ statistics' =
       IF controller.done \/ controller'.stop_reason = "invalid_controller_state"
         THEN statistics ELSE CountRound(controller)
  /\ IF Persistent
       THEN /\ stage' = IF controller'.done THEN "finalize" ELSE "round"
            /\ UNCHANGED queued_pairs
       ELSE /\ stage' = IF queued_pairs = 1 THEN "poll" ELSE "round"
            /\ queued_pairs' = queued_pairs - 1
  /\ thread' = [t \in Threads |-> AtEntry]
  /\ UNCHANGED <<scratchVars, status, batch, run_options, outputs>>

\* The host copies the controller, synchronizes the stream and goes on.
HostPoll ==
  /\ stage = "poll"
  /\ stage' = IF controller.done THEN "finalize" ELSE "round"
  /\ queued_pairs' = IF controller.done THEN 0 ELSE ChunkRounds(run_options)
  /\ UNCHANGED <<scratchVars, deviceVars, thread, batch, run_options, outputs>>

\* completed_batched_frontier_status.
CompletedBatchedFrontierStatus ==
  LET valid   == Batches[batch].valid_lane_mask
      reached == {l \in valid : LaneReached(batch, l, distance_bits)}
  IN MakeRunStatus(controller, 0, reached, valid \ reached)

Finalize ==
  /\ stage = "finalize"
  /\ status' = CompletedBatchedFrontierStatus
  /\ stage' = "readback"
  /\ UNCHANGED <<scratchVars, lane_convergence_rounds, statistics,
                 controller, thread, hostVars>>

(***************************************************************************)
(* The end of run_impl: the host downloads the controller, the status, the *)
(* convergence rounds and the distances, retires the workspace, and throws *)
(* when they do not agree.                                                 *)
(***************************************************************************)
ExecutedRounds(l) ==
  IF lane_convergence_rounds[l] = 0 THEN controller.rounds_completed
                                    ELSE lane_convergence_rounds[l]

DownloadIsConsistent ==
  LET valid == Batches[batch].valid_lane_mask
  IN /\ ValidDeviceController(controller)
     /\ ValidDeviceRunStatus(status)
     /\ status.final_distance_slot = 0
     /\ status.rounds_completed = controller.rounds_completed
     /\ status.valid_lane_mask = valid
     /\ \A l \in valid :
          lane_convergence_rounds[l] <= controller.rounds_completed
     /\ statistics.active_lane_rounds = MapThenSumSet(ExecutedRounds, valid)
     /\ statistics.frontier_rounds = status.rounds_completed
     /\ statistics.empty_frontier_rounds =
          IF status.stop_reason = "converged" THEN 1 ELSE 0

Readback ==
  /\ stage = "readback"
  /\ outputs' =
       [outputs EXCEPT
          ![batch] =
            [returned   |-> TRUE,
             consistent |-> DownloadIsConsistent,
             status     |-> status,
             distances  |-> [l \in Lanes |->
                               LaneDistances(batch, l, distance_bits)],
             rounds     |-> [l \in Lanes |->
                               IF l \in Batches[batch].valid_lane_mask
                                 THEN lane_convergence_rounds[l] ELSE 0]]]
  /\ stage' = "idle"
  /\ queued_pairs' = 0
  /\ UNCHANGED <<scratchVars, deviceVars, thread, batch, run_options>>

\* The host has no more batches.
Terminated == stage = "idle" /\ batch = Len(Batches) /\ UNCHANGED vars

-----------------------------------------------------------------------------
ThreadStep(t) ==
  \/ FirstPosition(t) \/ SeedSource(t) \/ SeedClaim(t) \/ FinishPositions(t)
  \/ EnterRound(t) \/ TakeVertex(t) \/ FinishShare(t)
  \/ LoadSource(t) \/ FinishVertex(t)
  \/ LoadDestination(t) \/ CompareAndSwap(t)
  \/ MergeLanes(t) \/ QueueDestination(t)

GridStep ==
  \/ StartBatch \/ InitializeStorage \/ FinishSeed
  \/ AdvanceController \/ HostPoll \/ Finalize \/ Readback

Next == (\E t \in Threads : ThreadStep(t)) \/ GridStep \/ Terminated

Spec == Init /\ [][Next]_vars

-----------------------------------------------------------------------------
(***************************************************************************)
(* Properties                                                              *)
(***************************************************************************)
RunStages == {"round", "poll", "finalize", "readback"}

\* A lane whose convergence round is published has exactly its shortest
\* distances, and keeps them, while the other lanes of the batch run on, and
\* even when one of them overflows the queue they share.
PublishedLaneIsShortest ==
  stage \in RunStages =>
    \A l \in Batches[batch].valid_lane_mask :
      lane_convergence_rounds[l] # 0 =>
        LaneDistances(batch, l, distance_bits) = LaneReference[batch][l]

AtRoundBoundary ==
  /\ stage = "round"
  /\ ~controller.done
  /\ \A t \in Threads : thread[t].pc = "enter"

CurrentFrontier == {queues[ReadSlot][i] : i \in 0 .. CurrentSize - 1}

\* Between two rounds the queue and the masks tell one story: the vertices
\* with an active lane are queued, each once, their lanes select them and are
\* about to execute, and nothing is left in the other masks, whatever an
\* earlier batch left in the workspace.
MasksMatchQueue ==
  AtRoundBoundary =>
    /\ CurrentSize = Cardinality(CurrentFrontier)
    /\ \A v \in UnionVertices(batch) :
         /\ vertex_lane_masks[WriteSlot][v] = {}
         /\ v \in CurrentFrontier <=> vertex_lane_masks[ReadSlot][v] # {}
    /\ \A v \in CurrentFrontier :
         vertex_lane_masks[ReadSlot][v]
           \subseteq controller.execute_lane_mask \intersect VertexLanes(batch, v)
    /\ controller.execute_lane_mask
         = UNION {vertex_lane_masks[ReadSlot][v] : v \in CurrentFrontier}

\* Every lane of a batch implements Relaxation on its own query: its distances
\* only fall to justified values and it converges only when none of its edges
\* can lower one, and what the host returned for it stays so while the
\* workspace serves later batches.
Started(b)  == batch = b /\ stage \in RunStages
Returned(b) == outputs[b].returned

LaneOutcome(b, l) ==
  IF Returned(b)
    THEN IF outputs[b].rounds[l] # 0 THEN "converged" ELSE "stopped"
  ELSE IF ~Started(b) THEN "running"
  ELSE IF lane_convergence_rounds[l] # 0 THEN "converged"
  ELSE IF controller.done THEN "stopped" ELSE "running"

LaneImage(b, l) ==
  IF Returned(b) THEN outputs[b].distances[l]
  ELSE IF Started(b) THEN LaneDistances(b, l, distance_bits)
  ELSE LaneInitial[b][l]

R(b, l) == INSTANCE Relaxation
             WITH SelectedTiles <- Batches[b].tiles[l],
                  SourceList    <- LaneSources(b, l),
                  Targets       <- Batches[b].targets[l],
                  distances     <- LaneImage(b, l),
                  outcome       <- LaneOutcome(b, l)

LanesOfBatches ==
  {<<b, l>> \in BatchIds \X Lanes : l \in Batches[b].valid_lane_mask}

EveryLaneRelaxes ==
  /\ \A q \in LanesOfBatches : R(q[1], q[2])!Init
  /\ [][\A q \in LanesOfBatches :
          R(q[1], q[2])!Next \/ UNCHANGED R(q[1], q[2])!relaxationVars]_vars

\* What the host returns for a batch: never an inconsistent download (its lane
\* rounds add up to those the device counted, also when lanes leave early or
\* an error ends the last round); a lane is reached or missed as its reference
\* distances say, and only when every lane converged.
HostGetsTheTruth ==
  \A b \in BatchIds : Returned(b) =>
    /\ outputs[b].consistent
    /\ LET s     == outputs[b].status
           valid == Batches[b].valid_lane_mask
           near  == {l \in valid : \A v \in Batches[b].targets[l] :
                                     LaneReference[b][l][v] # Infinity}
       IN IF s.stop_reason = "converged"
            THEN /\ s.reached_target_mask = near
                 /\ s.bounding_box_miss_mask = valid \ near
                 /\ \A l \in valid :
                      outputs[b].distances[l] = LaneReference[b][l]
            ELSE s.reached_target_mask \union s.bounding_box_miss_mask = {}

=============================================================================
