---------------------------- MODULE FrontierPush ----------------------------
(***************************************************************************)
(* The standalone frontier-push engine on the device                       *)
(* (src/src/hip/frontier_push.hip.cpp).  A grid of threads relaxes the     *)
(* out-edges of the vertices queued in the current frontier with atomic    *)
(* operations, queues every vertex it lowers in the next frontier, and     *)
(* between rounds one thread advances the controller.  The host either     *)
(* launches one persistent cooperative kernel, whose grid.sync() separates *)
(* the stages, or launches chunks of round/advance kernel pairs in one     *)
(* stream and polls the controller after each chunk.                       *)
(*                                                                         *)
(* One action is one atomic operation of one thread (with the thread-local *)
(* work around it), or one step the whole grid or the host takes.          *)
(***************************************************************************)
EXTENDS RoutingProblem, FrontierController

CONSTANTS
  ThreadCount,        \* threads of the grid
  QueueCapacity,      \* entries of each of the two queues
  Options             \* the run options the engine may be started with

Threads == 0 .. ThreadCount - 1

ASSUME EngineAssumption ==
  /\ ThreadCount \in Nat \ {0}
  /\ QueueCapacity \in 1 .. VertexCount
  /\ LaneCount = 1
  /\ \A options \in Options :
       /\ options.engine = "frontier_push"
       /\ options.control_mode \in ControlModes
       /\ options.rounds_per_chunk \in Nat \ {0}
       /\ options.maximum_rounds \in Nat \ {0}
       /\ options.enable_per_lane_convergence \in Slots

VARIABLES
  run_options,          \* GpuRunOptions of this run
  distance_bits,        \* scratch.distance_bits
  enqueue_generation,   \* scratch.enqueue_generation
  frontiers,            \* scratch.frontiers[2]
  run_lane_masks,       \* edges whose CSR run is marked for the lane
  controller,           \* *workspace.controller
  status,               \* *workspace.status, <<>> until it is written
  stage,                \* kernel, or part of the persistent kernel
  queued_pairs,         \* round pairs left in the chunk the host launched
  pc,                   \* per thread: next operation
  queue_index, source, edge, candidate, observed, claim   \* per thread

workspaceVars == <<distance_bits, enqueue_generation, frontiers,
                   run_lane_masks>>
hostVars      == <<run_options, status, queued_pairs>>
localVars     == <<queue_index, source, edge, candidate, observed, claim>>

vars == <<workspaceVars, controller, hostVars, stage, pc, localVars>>

Positions == 0 .. QueueCapacity - 1
Row(v)    == {e \in Edges : Source[e] = v}

Persistent == run_options.control_mode = "persistent_cooperative"

\* chunk_rounds of run_impl
ChunkRounds(options) ==
  IF options.control_mode = "chunked_host_poll"
    THEN options.rounds_per_chunk ELSE 1

-----------------------------------------------------------------------------
(***************************************************************************)
(* Init: the host has validated the query and leased a workspace, in which *)
(* it cleared the run masks and the whole engine scratch and put a fresh   *)
(* controller (run_impl, prepare_query_async).  Cleared distances are all  *)
(* zero.                                                                   *)
(***************************************************************************)
Init ==
  /\ run_options \in Options
  /\ distance_bits = [v \in Vertices |-> 0]
  /\ enqueue_generation = [v \in Vertices |-> 0]
  /\ frontiers = [slot \in Slots |-> [i \in Positions |-> 0]]
  /\ run_lane_masks = {}
  /\ controller = InitializeDeviceController(
                    run_options, StandaloneLane, Len(SourceList))
  /\ status = <<>>
  /\ stage = "initialize"
  /\ queued_pairs = ChunkRounds(run_options)
  /\ pc = [t \in Threads |-> "enter"]
  /\ queue_index = [t \in Threads |-> 0]
  /\ source      = [t \in Threads |-> 0]
  /\ edge        = [t \in Threads |-> 0]
  /\ candidate   = [t \in Threads |-> 0]
  /\ observed    = [t \in Threads |-> 0]
  /\ claim       = [t \in Threads |-> 0]

\* The part of initialize_frontier_state that thread 0 does alone.  More
\* sources than the queue holds end the run before its first round.
SeededFrontier ==
  [i \in Positions |->
     IF i < Len(SourceList) THEN SourceList[i + 1] ELSE frontiers[0][i]]

SeededController ==
  LET fresh == InitializeDeviceController(
                 run_options, StandaloneLane, Len(SourceList))
  IN IF Len(SourceList) > QueueCapacity
       THEN CanonicalizeFrontierError(fresh, "queue_overflow")
       ELSE fresh

\* The mask of the run of edge e: source_mask & the mask of its destination
\* tile.
RunMarked(e) == InSelectedTile(Source[e]) /\ InSelectedTile(Destination[e])

\* initialize_frontier_state: thread t resets the vertices t, t + ThreadCount,
\* ... and marks the runs of their rows.
InitializeVertices(t) ==
  LET mine == {v \in Vertices : v % ThreadCount = t}
  IN /\ stage = "initialize"
     /\ pc[t] = "enter"
     /\ distance_bits' =
          [v \in Vertices |-> IF v \in mine THEN InitialDistance[v]
                                            ELSE distance_bits[v]]
     /\ enqueue_generation' =
          [v \in Vertices |-> IF v \in mine THEN 0 ELSE enqueue_generation[v]]
     /\ run_lane_masks' =
          {e \in Edges : IF Source[e] \in mine THEN RunMarked(e)
                                               ELSE e \in run_lane_masks}
     /\ IF t = 0
          THEN /\ frontiers' = [frontiers EXCEPT ![0] = SeededFrontier]
               /\ controller' = SeededController
          ELSE UNCHANGED <<frontiers, controller>>
     /\ pc' = [pc EXCEPT ![t] = "sync"]
     /\ UNCHANGED <<hostVars, stage, localVars>>

\* The barrier (grid.sync(), or the end of the kernel) after initialization.
FinishInitialize ==
  /\ stage = "initialize"
  /\ \A t \in Threads : pc[t] = "sync"
  /\ stage' = "round"
  /\ pc' = [t \in Threads |-> "enter"]
  /\ UNCHANGED <<workspaceVars, controller, hostVars, localVars>>

-----------------------------------------------------------------------------
(***************************************************************************)
(* perform_frontier_round                                                  *)
(***************************************************************************)
ReadSlot    == controller.frontier_read_slot
WriteSlot   == controller.frontier_write_slot
CurrentSize == controller.frontier_size[ReadSlot]

Generation  == controller.rounds_completed + 1

AtOperation(t, operation) == stage = "round" /\ pc[t] = operation

Goto(t, operation) == pc' = [pc EXCEPT ![t] = operation]

RaiseError(bit) == [controller EXCEPT !.error_bits = @ \union {bit}]

\* Thread-local variables go out of scope with the edge.
LeaveEdge(t) ==
  /\ Goto(t, "edge")
  /\ candidate' = [candidate EXCEPT ![t] = 0]
  /\ observed'  = [observed EXCEPT ![t] = 0]
  /\ claim'     = [claim EXCEPT ![t] = 0]

LeaveQueueEntry(t) ==
  /\ Goto(t, "fetch")
  /\ queue_index' = [queue_index EXCEPT ![t] = @ + ThreadCount]
  /\ source' = [source EXCEPT ![t] = 0]
  /\ edge'   = [edge EXCEPT ![t] = 0]

Execute == ~controller.done /\ controller.execute_lane_mask # {}

ValidRound == ReadSlot # WriteSlot /\ CurrentSize \in 1 .. QueueCapacity

\* The thread reads the controller, and leaves at once when there is nothing
\* to execute or the round is not valid; thread 0 then reports it.
EnterRound(t) ==
  /\ AtOperation(t, "enter")
  /\ queue_index' = [queue_index EXCEPT ![t] = IF Execute /\ ValidRound
                                                 THEN t ELSE 0]
  /\ Goto(t, IF Execute /\ ValidRound THEN "fetch" ELSE "sync")
  /\ controller' = IF Execute /\ ~ValidRound /\ t = 0
                     THEN RaiseError("invalid_controller_state")
                     ELSE controller
  /\ UNCHANGED <<workspaceVars, hostVars, stage, source, edge, candidate,
                 observed, claim>>

\* The next queue entry of this thread, or the end of its share.
FetchSource(t) ==
  /\ AtOperation(t, "fetch")
  /\ queue_index[t] < CurrentSize
  /\ LET v == frontiers[ReadSlot][queue_index[t]]
     IN IF InSelectedTile(v)
          THEN /\ source' = [source EXCEPT ![t] = v]
               /\ edge' = [edge EXCEPT ![t] = 0]
               /\ Goto(t, "edge")
               /\ UNCHANGED <<controller, queue_index>>
          ELSE /\ controller' = RaiseError("invalid_controller_state")
               /\ LeaveQueueEntry(t)
  /\ UNCHANGED <<workspaceVars, hostVars, stage, candidate, observed, claim>>

FinishShare(t) ==
  /\ AtOperation(t, "fetch")
  /\ queue_index[t] >= CurrentSize
  /\ queue_index' = [queue_index EXCEPT ![t] = 0]
  /\ Goto(t, "sync")
  /\ UNCHANGED <<workspaceVars, controller, hostVars, stage, source, edge,
                 candidate, observed, claim>>

\* Edges of the row after the last one tried, in CSR order, in marked runs.
Remaining(t) == {e \in Row(source[t]) \intersect run_lane_masks : e > edge[t]}

\* atomic_load_nonnegative_float_bits(source) for the next edge.  The load is
\* repeated for every edge, because the source may fall meanwhile.
LoadSource(t) ==
  /\ AtOperation(t, "edge")
  /\ \E e \in Remaining(t) :
       /\ \A f \in Remaining(t) : e <= f
       /\ edge' = [edge EXCEPT ![t] = e]
       /\ candidate' = [candidate EXCEPT
                          ![t] = Plus(distance_bits[source[t]], Weight[e])]
  /\ Goto(t, "load")
  /\ UNCHANGED <<workspaceVars, controller, hostVars, stage, queue_index,
                 source, observed, claim>>

FinishRow(t) ==
  /\ AtOperation(t, "edge")
  /\ Remaining(t) = {}
  /\ LeaveQueueEntry(t)
  /\ UNCHANGED <<workspaceVars, controller, hostVars, stage, candidate,
                 observed, claim>>

\* The first load of atomic_min_nonnegative_float_bits.
LoadDestination(t) ==
  /\ AtOperation(t, "load")
  /\ LET value == distance_bits[Destination[edge[t]]]
     IN IF candidate[t] < value
          THEN /\ observed' = [observed EXCEPT ![t] = value]
               /\ Goto(t, "cas")
               /\ UNCHANGED <<candidate, claim>>
          ELSE LeaveEdge(t)
  /\ UNCHANGED <<workspaceVars, controller, hostVars, stage, queue_index,
                 source, edge>>

\* Fault variants, here and below, break one definition the way a slip in the
\* code would; the specification uses none of them.
\* Fault: the decrease is subtracted, which is atomic too, instead of swapped
\* in for the value it was computed from.
FaultSubtractDecrease(t) ==
  /\ AtOperation(t, "cas")
  /\ distance_bits' = [distance_bits EXCEPT
                         ![Destination[edge[t]]] =
                            @ - (observed[t] - candidate[t])]
  /\ Goto(t, "mark")
  /\ UNCHANGED <<enqueue_generation, frontiers, run_lane_masks, controller,
                 hostVars, stage, localVars>>

\* Fault: a plain store takes the place of the compare-and-swap.
FaultBlindStore(t) ==
  /\ AtOperation(t, "cas")
  /\ distance_bits' = [distance_bits EXCEPT
                         ![Destination[edge[t]]] = candidate[t]]
  /\ Goto(t, "mark")
  /\ UNCHANGED <<enqueue_generation, frontiers, run_lane_masks, controller,
                 hostVars, stage, localVars>>

\* One atomicCAS of atomic_min_nonnegative_float_bits.
CompareAndSwap(t) ==
  /\ AtOperation(t, "cas")
  /\ LET v == Destination[edge[t]]
         preceding == distance_bits[v]
     IN \/ /\ preceding = observed[t]
           /\ distance_bits' = [distance_bits EXCEPT ![v] = candidate[t]]
           /\ Goto(t, "mark")
           /\ UNCHANGED <<candidate, observed, claim>>
        \/ /\ preceding # observed[t]
           /\ candidate[t] < preceding
           /\ observed' = [observed EXCEPT ![t] = preceding]
           /\ UNCHANGED <<distance_bits, pc, candidate, claim>>
        \/ /\ preceding # observed[t]
           /\ candidate[t] >= preceding
           /\ LeaveEdge(t)
           /\ UNCHANGED distance_bits
  /\ UNCHANGED <<enqueue_generation, frontiers, run_lane_masks, controller,
                 hostVars, stage, queue_index, source, edge>>

\* Fault: the load and the exchange of the generation do not exclude a
\* second thread, so a vertex is queued once per decrease.
FaultNoSuppression(t) ==
  /\ AtOperation(t, "mark")
  /\ enqueue_generation' = [enqueue_generation EXCEPT
                              ![Destination[edge[t]]] = Generation]
  /\ Goto(t, "claim")
  /\ UNCHANGED <<distance_bits, frontiers, run_lane_masks, controller,
                 hostVars, stage, localVars>>

\* atomic_exchange_generation: the first thread to lower a vertex in a round
\* queues it, the others find the round's generation in place.
MarkGeneration(t) ==
  /\ AtOperation(t, "mark")
  /\ LET v == Destination[edge[t]]
     IN /\ enqueue_generation' = [enqueue_generation EXCEPT ![v] = Generation]
        /\ IF enqueue_generation[v] = Generation
             THEN LeaveEdge(t)
             ELSE /\ Goto(t, "claim")
                  /\ UNCHANGED <<candidate, observed, claim>>
  /\ UNCHANGED <<distance_bits, frontiers, run_lane_masks, controller,
                 hostVars, stage, queue_index, source, edge>>

\* atomic_reserve_queue_position
ClaimPosition(t) ==
  /\ AtOperation(t, "claim")
  /\ claim' = [claim EXCEPT ![t] = controller.frontier_size[WriteSlot]]
  /\ controller' = [controller EXCEPT !.frontier_size[WriteSlot] = @ + 1]
  /\ Goto(t, "publish")
  /\ UNCHANGED <<workspaceVars, hostVars, stage, queue_index, source, edge,
                 candidate, observed>>

\* atomicOr of next_frontier_lane_mask
PublishLane(t) ==
  /\ AtOperation(t, "publish")
  /\ controller' = [controller EXCEPT
                      !.next_frontier_lane_mask = @ \union StandaloneLane]
  /\ Goto(t, "store")
  /\ UNCHANGED <<workspaceVars, hostVars, stage, localVars>>

\* The ordinary store of the queue entry, or the overflow bit.
StoreEntry(t) ==
  /\ AtOperation(t, "store")
  /\ IF claim[t] < QueueCapacity
       THEN /\ frontiers' = [frontiers EXCEPT
                               ![WriteSlot][claim[t]] = Destination[edge[t]]]
            /\ UNCHANGED controller
       ELSE /\ controller' = RaiseError("queue_overflow")
            /\ UNCHANGED frontiers
  /\ LeaveEdge(t)
  /\ UNCHANGED <<distance_bits, enqueue_generation, run_lane_masks, hostVars,
                 stage, queue_index, source, edge>>

-----------------------------------------------------------------------------
(***************************************************************************)
(* Between rounds.  All threads have reached the barrier; one advances the *)
(* controller.  A persistent grid then reads done; in a chunk the next     *)
(* pair runs whether or not the controller is done, until the host polls.  *)
(***************************************************************************)
AdvanceController ==
  /\ stage = "round"
  /\ \A t \in Threads : pc[t] = "sync"
  /\ controller' = AdvanceFrontierController(controller)
  /\ IF Persistent
       THEN /\ stage' = IF controller'.done THEN "finalize" ELSE "round"
            /\ UNCHANGED queued_pairs
       ELSE /\ stage' = IF queued_pairs = 1 THEN "poll" ELSE "round"
            /\ queued_pairs' = queued_pairs - 1
  /\ pc' = [t \in Threads |-> "enter"]
  /\ UNCHANGED <<workspaceVars, run_options, status, localVars>>

\* Fault: the host never sees done.
FaultNeverDone ==
  /\ stage = "poll"
  /\ stage' = "round"
  /\ queued_pairs' = ChunkRounds(run_options)
  /\ UNCHANGED <<workspaceVars, controller, run_options, status, pc,
                 localVars>>

\* The host copies the controller, synchronizes the stream and goes on.
HostPoll ==
  /\ stage = "poll"
  /\ IF controller.done
       THEN /\ stage' = "finalize"
            /\ UNCHANGED queued_pairs
       ELSE /\ stage' = "round"
            /\ queued_pairs' = ChunkRounds(run_options)
  /\ UNCHANGED <<workspaceVars, controller, run_options, status, pc,
                 localVars>>

\* completed_frontier_status, at the end of the persistent kernel or in
\* finalize_frontier_status.  It alone reads the targets of the query.
CompletedFrontierStatus(targets) ==
  LET reachedAll == \A v \in targets : distance_bits[v] # Infinity
  IN MakeRunStatus(controller, 0,
                   IF reachedAll THEN StandaloneLane ELSE {},
                   IF reachedAll THEN {} ELSE StandaloneLane)

Finalize ==
  /\ stage = "finalize"
  /\ status' = CompletedFrontierStatus(Targets)
  /\ stage' = "exit"
  /\ UNCHANGED <<workspaceVars, controller, run_options, queued_pairs, pc,
                 localVars>>

\* The host has the result; the workspace lease is retired.
Terminated == stage = "exit" /\ UNCHANGED vars

-----------------------------------------------------------------------------
ThreadStep(t) ==
  \/ InitializeVertices(t)
  \/ EnterRound(t) \/ FetchSource(t) \/ FinishShare(t)
  \/ LoadSource(t) \/ FinishRow(t)
  \/ LoadDestination(t) \/ CompareAndSwap(t)
  \/ MarkGeneration(t) \/ ClaimPosition(t) \/ PublishLane(t) \/ StoreEntry(t)

GridStep == FinishInitialize \/ AdvanceController \/ HostPoll \/ Finalize

Next == (\E t \in Threads : ThreadStep(t)) \/ GridStep \/ Terminated

Spec == Init /\ [][Next]_vars

\* A cooperative launch makes the whole grid co-resident, an ordinary kernel
\* runs its threads to completion, and the host waits for its stream: every
\* thread, the barrier and the host keep going.
Fairness ==
  /\ \A t \in Threads : WF_vars(ThreadStep(t))
  /\ WF_vars(GridStep)

FairSpec == Spec /\ Fairness

-----------------------------------------------------------------------------
(***************************************************************************)
(* Properties                                                              *)
(***************************************************************************)
Operations == {"enter", "fetch", "edge", "load", "cas", "mark", "claim",
               "publish", "store", "sync"}

\* Type invariant of the workspace, the controller and the threads.
TypeOK ==
  /\ run_options \in Options
  /\ distance_bits \in [Vertices -> Distances]
  /\ enqueue_generation \in [Vertices -> Nat]
  /\ frontiers \in [Slots -> [Positions -> Vertices]]
  /\ run_lane_masks \in SUBSET Edges
  /\ controller \in DeviceControllers
  /\ status \in {<<>>} \union DeviceRunStatuses
  /\ stage \in {"initialize", "round", "poll", "finalize", "exit"}
  /\ queued_pairs \in Nat
  /\ pc \in [Threads -> Operations]
  /\ queue_index \in [Threads -> Nat]
  /\ source \in [Threads -> Vertices]
  /\ edge \in [Threads -> {0} \union Edges]
  /\ candidate \in [Threads -> Distances]
  /\ observed \in [Threads -> Distances]
  /\ claim \in [Threads -> Nat]

\* No interleaving of loads, compare-and-swaps and stale candidates takes a
\* distance below the shortest one, not even for a moment: whoever reads it
\* would carry the loss on.
NeverBelowShortest ==
  stage # "initialize" =>
    \A v \in Vertices : ReferenceDistance[v] <= distance_bits[v]

AtRoundBoundary ==
  stage = "round" /\ ~controller.done /\ \A t \in Threads : pc[t] = "enter"

CurrentFrontier == {frontiers[ReadSlot][i] : i \in 0 .. CurrentSize - 1}

\* No lowered vertex is lost between two rounds: an edge that can still lower
\* its destination leaves a vertex of the frontier about to be executed.
NoDecreaseLost ==
  AtRoundBoundary =>
    \A e \in Admitted : Relaxed(distance_bits, e)
                          \/ Source[e] \in CurrentFrontier

\* The frontier about to be executed fits its queue, holds no vertex twice,
\* and every claimed position was stored: an unstored one keeps the content of
\* an older round, which shows as a repeated or foreign vertex.
FrontierWellFormed ==
  AtRoundBoundary =>
    /\ CurrentSize \in 1 .. QueueCapacity
    /\ \A i, j \in 0 .. CurrentSize - 1 :
         i # j => frontiers[ReadSlot][i] # frontiers[ReadSlot][j]
    /\ \A v \in CurrentFrontier : distance_bits[v] # Infinity
    /\ controller.rounds_completed # 0 =>
         \A v \in CurrentFrontier :
           enqueue_generation[v] = controller.rounds_completed

\* What the threads lowered in the last round decides why the run stopped:
\* nothing is convergence, also in the last allowed round; more than the queue
\* holds is an overflow, also there; anything else is the limit.  Before the
\* first round only too many sources stop a run.
LastLowered ==
  {v \in Vertices : enqueue_generation[v] = controller.rounds_completed}

StopReasonFits ==
  IF controller.rounds_completed = 0
    THEN /\ controller.stop_reason = "queue_overflow"
         /\ Len(SourceList) > QueueCapacity
  ELSE CASE controller.stop_reason = "converged"      -> LastLowered = {}
         [] controller.stop_reason = "queue_overflow" ->
              Cardinality(LastLowered) > QueueCapacity
         [] controller.stop_reason = "maximum_rounds" ->
              /\ Cardinality(LastLowered) \in 1 .. QueueCapacity
              /\ controller.rounds_completed = controller.maximum_rounds
         [] OTHER -> FALSE

\* A status for these targets tells a reached query from one the bounding box
\* cuts off, by the reference distances, and classifies nothing unless the run
\* converged.
Classifies(result, targets) ==
  /\ ValidDeviceRunStatus(result)
  /\ result.reached_target_mask # {} <=>
       /\ result.stop_reason = "converged"
       /\ \A v \in targets : ReferenceDistance[v] # Infinity
  /\ result.bounding_box_miss_mask # {} <=>
       /\ result.stop_reason = "converged"
       /\ \E v \in targets : ReferenceDistance[v] = Infinity

\* A run that reports convergence holds exactly the shortest distances: the
\* empty next queue really means that no admitted edge can lower anything.
\* Whatever ended the run has precedence over what else held in its last
\* round, and the status classifies the query.  No step before the status
\* reads the targets, so one run stands for all queries with its sources.
StatusTellsTheTruth ==
  /\ stage # "initialize" /\ controller.stop_reason = "converged" =>
       IsShortest(distance_bits)
  /\ stage # "initialize" /\ controller.done => StopReasonFits
  /\ stage = "exit" =>
       /\ Classifies(status, Targets)
       /\ \A targets \in TargetSets :
            Classifies(CompletedFrontierStatus(targets), targets)

\* Every run ends with a status, converged or not.
Terminates == <>(stage = "exit")

(***************************************************************************)
(* The engine implements Relaxation: until the workspace is initialized    *)
(* its cleared content stands for the initial distances.                     *)
(***************************************************************************)
RelaxationOutcome ==
  IF stage = "initialize" \/ ~controller.done THEN "running"
  ELSE IF controller.stop_reason = "converged" THEN "converged"
  ELSE "stopped"

RelaxationDistances ==
  IF stage = "initialize" THEN InitialDistance ELSE distance_bits

R == INSTANCE Relaxation WITH distances <- RelaxationDistances,
                              outcome   <- RelaxationOutcome

\* The distances only fall to justified values, and convergence is reported
\* only when no admitted edge can lower a distance.
ImplementsRelaxation == R!Spec
=============================================================================
