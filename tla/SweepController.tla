--------------------------- MODULE SweepController ---------------------------
(***************************************************************************)
(* The transitions the two full-scan engines apply to the controller after *)
(* every round: src/include/bfnew/dense_chaotic_push.hpp and               *)
(* src/include/bfnew/jacobi_pull.hpp.  A lane converges when a complete    *)
(* scan lowers nothing in it, and that wins over the round limit.  Jacobi  *)
(* also swaps its two distance slots.                                      *)
(***************************************************************************)
EXTENDS GpuApi

\* What detail::fail_dense_controller and detail::fail_jacobi_controller write
\* alike.
FailSweepController(c, kind, read, write) ==
  LET limit == IF c.maximum_rounds = 0 THEN 1 ELSE c.maximum_rounds
  IN [valid_lane_mask             |-> IF c.valid_lane_mask = {}
                                        THEN StandaloneLane
                                        ELSE c.valid_lane_mask,
      active_lane_mask            |-> {},
      changed_lane_mask           |-> {},
      converged_lane_mask         |-> {},
      execute_lane_mask           |-> {},
      engine_kind                 |-> kind,
      enable_per_lane_convergence |-> c.enable_per_lane_convergence,
      rounds_completed            |-> IF c.rounds_completed > limit
                                        THEN limit ELSE c.rounds_completed,
      maximum_rounds              |-> limit,
      distance_read_slot          |-> read,
      distance_write_slot         |-> write,
      frontier_read_slot          |-> 0,
      frontier_write_slot         |-> 1,
      frontier_size               |-> [slot \in Slots |-> 0],
      next_frontier_lane_mask     |-> {},
      done                        |-> TRUE,
      stop_reason                 |-> "invalid_controller_state",
      error_bits                  |-> {"invalid_controller_state"}]

FailDenseController(c) == FailSweepController(c, "dense_chaotic_push", 0, 0)

FailJacobiController(c) ==
  IF c.distance_read_slot = c.distance_write_slot
    THEN FailSweepController(c, "jacobi_pull", 0, 1)
    ELSE FailSweepController(c, "jacobi_pull",
                             c.distance_read_slot, c.distance_write_slot)

\* The part of "valid" the two advance functions share.
SweepRoundMayEnd(c) ==
  /\ c.valid_lane_mask # {}
  /\ c.active_lane_mask # {}
  /\ c.execute_lane_mask = c.active_lane_mask
  /\ c.active_lane_mask \union c.converged_lane_mask = c.valid_lane_mask
  /\ c.changed_lane_mask \subseteq c.execute_lane_mask
  /\ c.converged_lane_mask \intersect c.active_lane_mask = {}
  /\ c.rounds_completed < c.maximum_rounds
  /\ c.next_frontier_lane_mask = {}
  /\ c.stop_reason = "none"
  /\ c.error_bits = {}

\* The lanes that go on after a round, with and without per-lane convergence.
ActiveAfterRound(c) ==
  LET changed == c.changed_lane_mask \intersect c.execute_lane_mask
  IN IF c.enable_per_lane_convergence = 1 THEN c.active_lane_mask \intersect changed
     ELSE IF changed = {} THEN {}
     ELSE c.active_lane_mask

ConvergedAfterRound(c) ==
  LET changed == c.changed_lane_mask \intersect c.execute_lane_mask
  IN IF c.enable_per_lane_convergence = 1
       THEN c.converged_lane_mask \union (c.execute_lane_mask \ changed)
     ELSE IF changed = {} THEN c.valid_lane_mask
     ELSE c.converged_lane_mask

\* What both advance functions do with a valid controller, slots aside.
FinishSweepRound(c) ==
  LET counted == [c EXCEPT !.rounds_completed    = @ + 1,
                           !.active_lane_mask    = ActiveAfterRound(c),
                           !.converged_lane_mask = ConvergedAfterRound(c),
                           !.changed_lane_mask   = {}]
  IN IF counted.active_lane_mask = {}
       THEN [counted EXCEPT !.execute_lane_mask = {},
                            !.done              = TRUE,
                            !.stop_reason       = "converged"]
     ELSE IF counted.rounds_completed = c.maximum_rounds
       THEN [counted EXCEPT !.execute_lane_mask = {},
                            !.done              = TRUE,
                            !.stop_reason       = "maximum_rounds"]
     ELSE [counted EXCEPT !.execute_lane_mask = counted.active_lane_mask]

AdvanceDenseController(c) ==
  IF c.done THEN c
  ELSE IF /\ SweepRoundMayEnd(c)
          /\ c.engine_kind = "dense_chaotic_push"
          /\ c.distance_read_slot = 0 /\ c.distance_write_slot = 0
    THEN FinishSweepRound(c)
  ELSE FailDenseController(c)

\* Fault: the slots are swapped only when another round follows.
FaultNoFinalSwap(c) ==
  LET finished == FinishSweepRound(c)
  IN IF c.done THEN c
     ELSE IF finished.done THEN finished
     ELSE [finished EXCEPT !.distance_read_slot  = c.distance_write_slot,
                           !.distance_write_slot = c.distance_read_slot]

AdvanceJacobiController(c) ==
  IF c.done THEN c
  ELSE IF /\ SweepRoundMayEnd(c)
          /\ c.engine_kind = "jacobi_pull"
          /\ c.distance_read_slot # c.distance_write_slot
    THEN FinishSweepRound(
           [c EXCEPT !.distance_read_slot  = c.distance_write_slot,
                     !.distance_write_slot = c.distance_read_slot])
  ELSE FailJacobiController(c)
=============================================================================
