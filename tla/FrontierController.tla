------------------------- MODULE FrontierController -------------------------
(***************************************************************************)
(* The transition the frontier engines apply to the controller after every *)
(* round (src/include/bfnew/frontier_push.hpp).  It owns the swap of the   *)
(* two queues, and an empty next queue wins over the round limit.          *)
(***************************************************************************)
EXTENDS GpuApi

\* detail::canonicalize_frontier_error.  The queue sizes are left alone.
CanonicalizeFrontierError(c, reason) ==
  LET limit == IF c.maximum_rounds = 0 THEN 1 ELSE c.maximum_rounds
  IN [valid_lane_mask             |-> IF c.valid_lane_mask = {}
                                        THEN StandaloneLane
                                        ELSE c.valid_lane_mask,
      active_lane_mask            |-> {},
      changed_lane_mask           |-> {},
      converged_lane_mask         |-> {},
      execute_lane_mask           |-> {},
      engine_kind                 |-> "frontier_push",
      enable_per_lane_convergence |-> c.enable_per_lane_convergence,
      rounds_completed            |-> IF c.rounds_completed > limit
                                        THEN limit ELSE c.rounds_completed,
      maximum_rounds              |-> limit,
      distance_read_slot          |-> 0,
      distance_write_slot         |-> 0,
      frontier_read_slot          |-> c.frontier_read_slot,
      frontier_write_slot         |-> 1 - c.frontier_read_slot,
      frontier_size               |-> c.frontier_size,
      next_frontier_lane_mask     |-> {},
      done                        |-> TRUE,
      stop_reason                 |-> reason,
      error_bits                  |-> {reason}]

\* structural_state_valid of advance_frontier_controller.
FrontierRoundMayEnd(c) ==
  /\ c.engine_kind = "frontier_push"
  /\ c.valid_lane_mask # {}
  /\ c.active_lane_mask # {}
  /\ c.execute_lane_mask = c.active_lane_mask
  /\ c.active_lane_mask \union c.converged_lane_mask = c.valid_lane_mask
  /\ c.active_lane_mask \intersect c.converged_lane_mask = {}
  /\ c.next_frontier_lane_mask \subseteq c.valid_lane_mask
  /\ c.changed_lane_mask = {}
  /\ c.rounds_completed < c.maximum_rounds
  /\ c.distance_read_slot = 0 /\ c.distance_write_slot = 0
  /\ c.frontier_read_slot # c.frontier_write_slot
  /\ c.frontier_size[c.frontier_read_slot] # 0
  /\ c.stop_reason = "none"

\* recognized_error: at most one error, and one a round may raise.
FrontierRoundErrorKnown(c) ==
  c.error_bits \in {{}, {"queue_overflow"}, {"device_failure"}}

\* The lanes and the length of the next queue must tell the same story.
NextFrontierConsistent(c) ==
  c.error_bits = {} =>
    (c.next_frontier_lane_mask \intersect c.valid_lane_mask # {}
       <=> c.frontier_size[c.frontier_write_slot] # 0)

SwapFrontiers(c) ==
  [c EXCEPT
     !.rounds_completed        = @ + 1,
     !.frontier_read_slot      = c.frontier_write_slot,
     !.frontier_write_slot     = c.frontier_read_slot,
     !.frontier_size           = [@ EXCEPT ![c.frontier_read_slot] = 0],
     !.changed_lane_mask       = {},
     !.next_frontier_lane_mask = {}]

\* Fault: an overflow is only looked at when vertices are left to execute.
FaultIgnoreOverflow(c) ==
  LET swapped == SwapFrontiers(c)
  IN IF c.done THEN c
     ELSE IF c.frontier_size[c.frontier_write_slot] = 0
       THEN [swapped EXCEPT !.active_lane_mask    = {},
                            !.converged_lane_mask = c.valid_lane_mask,
                            !.execute_lane_mask   = {},
                            !.done                = TRUE,
                            !.stop_reason         = "converged"]
     ELSE [swapped EXCEPT
             !.frontier_size = [@ EXCEPT
                ![c.frontier_write_slot] =
                   c.frontier_size[c.frontier_write_slot] - 1],
             !.error_bits = {}]

\* Fault: the limit is looked at before the next queue.
FaultLimitFirst(c) ==
  LET swapped == SwapFrontiers(c)
  IN IF c.done THEN c
     ELSE IF c.error_bits # {}
       THEN CanonicalizeFrontierError(swapped, "queue_overflow")
     ELSE IF swapped.rounds_completed = c.maximum_rounds
       THEN [swapped EXCEPT !.execute_lane_mask = {},
                            !.done              = TRUE,
                            !.stop_reason       = "maximum_rounds"]
     ELSE IF c.frontier_size[c.frontier_write_slot] = 0
       THEN [swapped EXCEPT !.active_lane_mask    = {},
                            !.converged_lane_mask = c.valid_lane_mask,
                            !.execute_lane_mask   = {},
                            !.done                = TRUE,
                            !.stop_reason         = "converged"]
     ELSE [swapped EXCEPT !.active_lane_mask  = c.valid_lane_mask,
                          !.execute_lane_mask = c.valid_lane_mask]

AdvanceFrontierController(c) ==
  LET swapped == SwapFrontiers(c)
  IN IF c.done THEN c
     ELSE IF ~ /\ FrontierRoundMayEnd(c)
               /\ FrontierRoundErrorKnown(c)
               /\ NextFrontierConsistent(c)
       THEN CanonicalizeFrontierError(c, "invalid_controller_state")
     ELSE IF c.error_bits = {"queue_overflow"}
       THEN CanonicalizeFrontierError(swapped, "queue_overflow")
     ELSE IF c.error_bits = {"device_failure"}
       THEN CanonicalizeFrontierError(swapped, "device_failure")
     ELSE IF c.frontier_size[c.frontier_write_slot] = 0
       THEN [swapped EXCEPT !.active_lane_mask    = {},
                            !.converged_lane_mask = c.valid_lane_mask,
                            !.execute_lane_mask   = {},
                            !.done                = TRUE,
                            !.stop_reason         = "converged"]
     ELSE IF swapped.rounds_completed = c.maximum_rounds
       THEN [swapped EXCEPT !.execute_lane_mask = {},
                            !.done              = TRUE,
                            !.stop_reason       = "maximum_rounds"]
     ELSE [swapped EXCEPT !.active_lane_mask  = c.valid_lane_mask,
                          !.execute_lane_mask = c.valid_lane_mask]

(***************************************************************************)
(* advance_batched_frontier_controller                                     *)
(* (src/include/bfnew/batched_frontier_push.hpp).  Only the lanes of the   *)
(* next queue execute again.  With per-lane convergence the executed lanes *)
(* that are absent from it are published as converged at once; without it  *)
(* they wait for the empty queue.                                          *)
(***************************************************************************)
BatchedFrontierRoundMayEnd(c) ==
  /\ c.engine_kind = "frontier_push"
  /\ c.valid_lane_mask # {}
  /\ c.active_lane_mask # {}
  /\ c.execute_lane_mask = c.active_lane_mask
  /\ c.active_lane_mask \union c.converged_lane_mask
       \subseteq c.valid_lane_mask
  /\ c.active_lane_mask \intersect c.converged_lane_mask = {}
  /\ c.next_frontier_lane_mask \subseteq c.execute_lane_mask
  /\ IF c.enable_per_lane_convergence = 1
       THEN c.active_lane_mask \union c.converged_lane_mask
              = c.valid_lane_mask
       ELSE c.converged_lane_mask = {}
  /\ c.changed_lane_mask = {}
  /\ c.rounds_completed < c.maximum_rounds
  /\ c.distance_read_slot = 0 /\ c.distance_write_slot = 0
  /\ c.frontier_read_slot # c.frontier_write_slot
  /\ c.frontier_size[c.frontier_read_slot] # 0
  /\ c.stop_reason = "none"

AdvanceBatchedFrontierController(c) ==
  LET swapped   == SwapFrontiers(c)
      next      == c.next_frontier_lane_mask
      converged == IF c.enable_per_lane_convergence = 1
                     THEN c.converged_lane_mask
                            \union (c.execute_lane_mask \ next)
                     ELSE c.converged_lane_mask
      continued == [swapped EXCEPT !.converged_lane_mask = converged,
                                   !.active_lane_mask    = next,
                                   !.execute_lane_mask   = next]
  IN IF c.done THEN c
     ELSE IF ~ /\ BatchedFrontierRoundMayEnd(c)
               /\ FrontierRoundErrorKnown(c)
               /\ NextFrontierConsistent(c)
       THEN CanonicalizeFrontierError(c, "invalid_controller_state")
     ELSE IF c.error_bits = {"queue_overflow"}
       THEN CanonicalizeFrontierError(swapped, "queue_overflow")
     ELSE IF c.error_bits = {"device_failure"}
       THEN CanonicalizeFrontierError(swapped, "device_failure")
     ELSE IF c.frontier_size[c.frontier_write_slot] = 0
       THEN [swapped EXCEPT !.active_lane_mask    = {},
                            !.converged_lane_mask = c.valid_lane_mask,
                            !.execute_lane_mask   = {},
                            !.done                = TRUE,
                            !.stop_reason         = "converged"]
     ELSE IF swapped.rounds_completed = c.maximum_rounds
       THEN [continued EXCEPT !.execute_lane_mask = {},
                              !.done              = TRUE,
                              !.stop_reason       = "maximum_rounds"]
     ELSE continued
=============================================================================
