----------------------------- MODULE JacobiPull -----------------------------
(***************************************************************************)
(* The standalone Jacobi-pull engine on the device                         *)
(* (src/src/hip/jacobi.hip.cpp).  Two slots hold distances; in a round the *)
(* owner of each selected vertex reads one slot and writes the other, and  *)
(* the controller swaps them.  No operation of a round is atomic but the   *)
(* changed bit: what a round reads, it does not write.                     *)
(*                                                                         *)
(* One action is one vertex of one thread, or one step of a block, the     *)
(* whole grid or the host.                                                 *)
(***************************************************************************)
EXTENDS SweepEngine

VARIABLE distance_slots            \* the two halves of engine_scratch

gridVars == <<run_options, run_lane_masks, controller, status, stage,
              queued_pairs, pc, vertex, changed>>
vars     == <<gridVars, distance_slots>>

Init ==
  /\ GridInit
  /\ run_options.engine = "jacobi_pull"
  /\ distance_slots = [slot \in Slots |-> [v \in Vertices |-> 0]]

ReadDistances == distance_slots[controller.distance_read_slot]

\* Fault variants break one definition the way a slip in the code would; the
\* specification uses none of them.
\* destination_mask & the mask of the source tile
RunMarked(e) == InSelectedTile(Destination[e]) /\ InSelectedTile(Source[e])

\* initialize_jacobi_state: the thread seeds both slots for the vertices of its
\* stride and marks the runs of their columns.
InitializeVertices(t) ==
  /\ InitializeController(t)
  /\ distance_slots' =
       [slot \in Slots |->
          [v \in Vertices |-> IF v \in Stride(t) THEN InitialDistance[v]
                                                 ELSE distance_slots[slot][v]]]
  /\ run_lane_masks' = {e \in Edges : IF Destination[e] \in Stride(t)
                                        THEN RunMarked(e)
                                        ELSE e \in run_lane_masks}

FinishInitialize == BarrierAfterInitialize /\ UNCHANGED distance_slots

EnterRound(t) == EnterSweep(t) /\ UNCHANGED distance_slots

\* The lowest of the vertex's own distance and those its marked in-edges offer,
\* all read from the read slot.
Best(v) ==
  Lowest({ReadDistances[v]} \union
         {Plus(ReadDistances[Source[e]], Weight[e]) :
            e \in {f \in run_lane_masks : Destination[f] = v}})

\* Fault: the changed flag tells of the last vertex of the stride alone.
FaultLastChange(t) ==
  LET v    == vertex[t]
      best == Best(v)
  IN /\ AtOperation(t, "scan")
     /\ v < VertexCount
     /\ IF InSelectedTile(v)
          THEN /\ distance_slots' = [distance_slots EXCEPT
                                       ![controller.distance_write_slot][v] = best]
               /\ changed' = [changed EXCEPT ![t] = best < ReadDistances[v]]
          ELSE UNCHANGED <<distance_slots, changed>>
     /\ vertex' = [vertex EXCEPT ![t] = @ + ThreadCount]
     /\ UNCHANGED <<run_lane_masks, controller, hostVars, stage, pc>>

\* perform_jacobi_round_thread_work for one vertex of the stride.
PullVertex(t) ==
  LET v    == vertex[t]
      best == Best(v)
  IN /\ AtOperation(t, "scan")
     /\ v < VertexCount
     /\ IF InSelectedTile(v)
          THEN /\ distance_slots' = [distance_slots EXCEPT
                                       ![controller.distance_write_slot][v] = best]
               /\ changed' = [changed EXCEPT ![t] = @ \/ best < ReadDistances[v]]
          ELSE UNCHANGED <<distance_slots, changed>>
     /\ vertex' = [vertex EXCEPT ![t] = @ + ThreadCount]
     /\ UNCHANGED <<run_lane_masks, controller, hostVars, stage, pc>>

FinishStride(t) ==
  /\ AtOperation(t, "scan")
  /\ vertex[t] >= VertexCount
  /\ Goto(t, "reduce")
  /\ vertex' = [vertex EXCEPT ![t] = 0]
  /\ UNCHANGED <<run_lane_masks, controller, hostVars, stage, changed,
                 distance_slots>>

Reduce(b) == ReduceBlock(b) /\ UNCHANGED distance_slots

AdvanceController ==
  AdvanceTo(AdvanceJacobiController(controller)) /\ UNCHANGED distance_slots

Poll == HostPoll /\ UNCHANGED distance_slots

Finalize ==
  FinalizeWith(CompletedStatus(ReadDistances, Targets)) /\ UNCHANGED distance_slots

\* The host has the result; the workspace lease is retired.
Terminated == stage = "exit" /\ UNCHANGED vars

ThreadStep(t) ==
  InitializeVertices(t) \/ EnterRound(t) \/ PullVertex(t) \/ FinishStride(t)

GridStep ==
  \/ \E b \in Blocks : Reduce(b)
  \/ FinishInitialize \/ AdvanceController \/ Poll \/ Finalize

Next == (\E t \in Threads : ThreadStep(t)) \/ GridStep \/ Terminated

Spec == Init /\ [][Next]_vars

\* A cooperative launch makes the whole grid co-resident, an ordinary kernel
\* runs its threads to completion, and the host waits for its stream: every
\* thread, block, barrier and the host keep going.
Fairness ==
  /\ \A t \in Threads : WF_vars(ThreadStep(t))
  /\ WF_vars(GridStep)

FairSpec == Spec /\ Fairness

-----------------------------------------------------------------------------
(***************************************************************************)
(* Properties                                                              *)
(***************************************************************************)

\* A round is a Jacobi step, not merely a relaxation: between rounds the read
\* slot holds exactly the distances of as many synchronous Bellman-Ford rounds,
\* and so does the slot the status names when the run ends.  When it reports
\* convergence these are the shortest, and the other slot holds the same
\* (converged_slots_bitwise_identical).
RoundIsBellmanFord ==
  /\ AtRoundBoundary =>
       ReadDistances = BellmanFord[controller.rounds_completed]
  /\ stage = "exit" =>
       distance_slots[status.final_distance_slot]
         = BellmanFord[status.rounds_completed]
  /\ stage # "initialize" /\ controller.stop_reason = "converged" =>
       /\ IsShortest(ReadDistances)
       /\ distance_slots[0] = distance_slots[1]

\* Every run ends with a status, converged or not.
Terminates == <>(stage = "exit")
=============================================================================
