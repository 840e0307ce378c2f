-------------------------- MODULE DenseChaoticPush --------------------------
(***************************************************************************)
(* The standalone dense chaotic-push engine on the device                  *)
(* (src/src/hip/dense_chaotic_push.hip.cpp).  In every round the threads   *)
(* relax the out-edges of all selected vertices in one shared array of     *)
(* distances with atomic operations, and a decrease anywhere makes another *)
(* round.                                                                  *)
(*                                                                         *)
(* One action is one atomic operation of one thread (with the thread-local *)
(* work around it), or one step of a block, the whole grid or the host.    *)
(***************************************************************************)
EXTENDS SweepEngine

VARIABLES
  distance_bits,                   \* distances.distance_bits
  edge, candidate, observed        \* per thread

relaxVars == <<distance_bits, edge, candidate, observed>>
gridVars  == <<run_options, run_lane_masks, controller, status, stage,
               queued_pairs, pc, vertex, changed>>
vars      == <<gridVars, relaxVars>>

Init ==
  /\ GridInit
  /\ run_options.engine = "dense_chaotic_push"
  /\ distance_bits = [v \in Vertices |-> 0]
  /\ edge      = [t \in Threads |-> 0]
  /\ candidate = [t \in Threads |-> 0]
  /\ observed  = [t \in Threads |-> 0]

\* Fault variants break one definition the way a slip in the code would; the
\* specification uses none of them.
\* source_mask & the mask of the destination tile
RunMarked(e) == InSelectedTile(Source[e]) /\ InSelectedTile(Destination[e])

\* initialize_dense_state: the thread resets the vertices of its stride and
\* marks the runs of their rows.
InitializeVertices(t) ==
  /\ InitializeController(t)
  /\ distance_bits' = [v \in Vertices |-> IF v \in Stride(t) THEN InitialDistance[v]
                                                             ELSE distance_bits[v]]
  /\ run_lane_masks' = {e \in Edges : IF Source[e] \in Stride(t)
                                        THEN RunMarked(e)
                                        ELSE e \in run_lane_masks}
  /\ UNCHANGED <<edge, candidate, observed>>

FinishInitialize == BarrierAfterInitialize /\ UNCHANGED relaxVars

-----------------------------------------------------------------------------
(***************************************************************************)
(* perform_dense_round_thread_work                                         *)
(***************************************************************************)
EnterRound(t) == EnterSweep(t) /\ UNCHANGED relaxVars

\* Edges of the current row after the last one tried, in CSR order, in marked
\* runs.  A vertex outside the bounding box is passed over.
Remaining(t) ==
  {e \in run_lane_masks : /\ Source[e] = vertex[t]
                          /\ InSelectedTile(vertex[t])
                          /\ e > edge[t]}

\* atomic_load_nonnegative_float_bits(source), repeated for every edge because
\* other threads may lower the source during the scan.
LoadSource(t) ==
  /\ AtOperation(t, "scan")
  /\ \E e \in Remaining(t) :
       /\ \A f \in Remaining(t) : e <= f
       /\ edge' = [edge EXCEPT ![t] = e]
       /\ candidate' = [candidate EXCEPT
                          ![t] = Plus(distance_bits[vertex[t]], Weight[e])]
  /\ Goto(t, "load")
  /\ UNCHANGED <<run_lane_masks, controller, hostVars, stage, vertex, changed,
                 distance_bits, observed>>

\* Fault: the stride passes over a vertex.
FaultStride(t) ==
  /\ AtOperation(t, "scan")
  /\ vertex[t] < VertexCount
  /\ Remaining(t) = {}
  /\ vertex' = [vertex EXCEPT ![t] = @ + ThreadCount + 1]
  /\ edge' = [edge EXCEPT ![t] = 0]
  /\ UNCHANGED <<run_lane_masks, controller, hostVars, stage, pc, changed,
                 distance_bits, candidate, observed>>

\* The next vertex of the stride.
FinishRow(t) ==
  /\ AtOperation(t, "scan")
  /\ vertex[t] < VertexCount
  /\ Remaining(t) = {}
  /\ vertex' = [vertex EXCEPT ![t] = @ + ThreadCount]
  /\ edge' = [edge EXCEPT ![t] = 0]
  /\ UNCHANGED <<run_lane_masks, controller, hostVars, stage, pc, changed,
                 distance_bits, candidate, observed>>

FinishStride(t) ==
  /\ AtOperation(t, "scan")
  /\ vertex[t] >= VertexCount
  /\ Goto(t, "reduce")
  /\ vertex' = [vertex EXCEPT ![t] = 0]
  /\ UNCHANGED <<run_lane_masks, controller, hostVars, stage, changed,
                 relaxVars>>

\* Thread-local variables go out of scope with the edge.
LeaveEdge(t) ==
  /\ Goto(t, "scan")
  /\ candidate' = [candidate EXCEPT ![t] = 0]
  /\ observed'  = [observed EXCEPT ![t] = 0]

\* The first load of atomic_min_nonnegative_float_bits.
LoadDestination(t) ==
  /\ AtOperation(t, "load")
  /\ LET value == distance_bits[Destination[edge[t]]]
     IN IF candidate[t] < value
          THEN /\ observed' = [observed EXCEPT ![t] = value]
               /\ Goto(t, "cas")
               /\ UNCHANGED candidate
          ELSE LeaveEdge(t)
  /\ UNCHANGED <<run_lane_masks, controller, hostVars, stage, vertex, changed,
                 distance_bits, edge>>

\* Fault: a plain store takes the place of the compare-and-swap.
FaultBlindStore(t) ==
  /\ AtOperation(t, "cas")
  /\ distance_bits' = [distance_bits EXCEPT
                         ![Destination[edge[t]]] = candidate[t]]
  /\ changed' = [changed EXCEPT ![t] = TRUE]
  /\ LeaveEdge(t)
  /\ UNCHANGED <<run_lane_masks, controller, hostVars, stage, vertex, edge>>

\* One atomicCAS of atomic_min_nonnegative_float_bits.
CompareAndSwap(t) ==
  /\ AtOperation(t, "cas")
  /\ LET v == Destination[edge[t]]
         preceding == distance_bits[v]
     IN \/ /\ preceding = observed[t]
           /\ distance_bits' = [distance_bits EXCEPT ![v] = candidate[t]]
           /\ changed' = [changed EXCEPT ![t] = TRUE]
           /\ LeaveEdge(t)
        \/ /\ preceding # observed[t]
           /\ candidate[t] < preceding
           /\ observed' = [observed EXCEPT ![t] = preceding]
           /\ UNCHANGED <<distance_bits, pc, candidate, changed>>
        \/ /\ preceding # observed[t]
           /\ candidate[t] >= preceding
           /\ LeaveEdge(t)
           /\ UNCHANGED <<distance_bits, changed>>
  /\ UNCHANGED <<run_lane_masks, controller, hostVars, stage, vertex, edge>>

-----------------------------------------------------------------------------
Reduce(b) == ReduceBlock(b) /\ UNCHANGED relaxVars

AdvanceController ==
  AdvanceTo(AdvanceDenseController(controller)) /\ UNCHANGED relaxVars

Poll == HostPoll /\ UNCHANGED relaxVars

Finalize ==
  FinalizeWith(CompletedStatus(distance_bits, Targets)) /\ UNCHANGED relaxVars

\* The host has the result; the workspace lease is retired.
Terminated == stage = "exit" /\ UNCHANGED vars

ThreadStep(t) ==
  \/ InitializeVertices(t) \/ EnterRound(t)
  \/ LoadSource(t) \/ FinishRow(t) \/ FinishStride(t)
  \/ LoadDestination(t) \/ CompareAndSwap(t)

GridStep ==
  \/ \E b \in Blocks : Reduce(b)
  \/ FinishInitialize \/ AdvanceController \/ Poll \/ Finalize

Next == (\E t \in Threads : ThreadStep(t)) \/ GridStep \/ Terminated

Spec == Init /\ [][Next]_vars

-----------------------------------------------------------------------------
(***************************************************************************)
(* Properties                                                              *)
(***************************************************************************)

\* After r rounds the distances are at most those of r synchronous
\* Bellman-Ford rounds, whatever the chaos inside the rounds.
RoundsDominateBellmanFord ==
  AtRoundBoundary =>
    \A v \in Vertices :
      distance_bits[v] <= BellmanFord[controller.rounds_completed][v]

\* A changed flag lost on its way from a thread over its block to the lane
\* would end the run before its distances are the shortest: convergence is
\* reported for nothing else, and the status classifies every query as the
\* reference does.
StatusTellsTheTruth == StatusTruthful(distance_bits)

(***************************************************************************)
(* The engine implements Relaxation: until the workspace is initialized    *)
(* its cleared content stands for the initial distances.                     *)
(***************************************************************************)
RelaxationOutcome ==
  IF stage = "initialize" \/ ~controller.done THEN "running"
  ELSE IF controller.stop_reason = "converged" THEN "converged"
  ELSE "stopped"

RelaxationDistances ==
  IF stage = "initialize" THEN InitialDistance ELSE distance_bits

R == INSTANCE Relaxation WITH distances <- RelaxationDistances,
                              outcome   <- RelaxationOutcome

\* The distances only fall to justified values, and convergence is reported
\* only when no admitted edge can lower a distance.
ImplementsRelaxation == R!Spec
=============================================================================
