------------------------------- MODULE GpuApi -------------------------------
(***************************************************************************)
(* The device/host contract of src/include/bfnew/gpu_api.hpp: the          *)
(* controller record that one thread of the grid advances between rounds,  *)
(* the status record the host receives, and the validators the host runs   *)
(* on both.                                                                *)
(*                                                                         *)
(* A lane mask is the set of its lanes, an error word the set of its bits, *)
(* an enumerator its name, a 0/1 flag or slot a value of 0..1.  The C++    *)
(* checks that only bound the width of a field are the types below.        *)
(***************************************************************************)
EXTENDS Integers

CONSTANT LaneCount      \* lanes of a batch; a standalone engine uses one

ASSUME LaneCountAssumption == LaneCount \in Nat \ {0}

Lanes          == 0 .. LaneCount - 1
StandaloneLane == {0}

EngineKinds  == {"jacobi_pull", "dense_chaotic_push", "frontier_push"}
ControlModes == {"persistent_cooperative", "per_round_host_poll",
                 "chunked_host_poll"}
ErrorReasons == {"queue_overflow", "invalid_controller_state",
                 "device_failure"}
StopReasons  == {"none", "converged", "maximum_rounds"} \union ErrorReasons

Slots == {0, 1}

(***************************************************************************)
(* DeviceController.                                                       *)
(***************************************************************************)
DeviceControllers ==
  [valid_lane_mask             : SUBSET Lanes,
   active_lane_mask            : SUBSET Lanes,
   changed_lane_mask           : SUBSET Lanes,
   converged_lane_mask         : SUBSET Lanes,
   execute_lane_mask           : SUBSET Lanes,
   engine_kind                 : EngineKinds,
   enable_per_lane_convergence : Slots,
   rounds_completed            : Nat,
   maximum_rounds              : Nat,
   distance_read_slot          : Slots,
   distance_write_slot         : Slots,
   frontier_read_slot          : Slots,
   frontier_write_slot         : Slots,
   frontier_size               : [Slots -> Nat],
   next_frontier_lane_mask     : SUBSET Lanes,
   done                        : BOOLEAN,
   stop_reason                 : StopReasons,
   error_bits                  : SUBSET ErrorReasons]

\* initialize_device_controller: the record it returns (its argument tests
\* are the constants' assumptions in the engine modules).
InitializeDeviceController(options, lanes, initialFrontier) ==
  [valid_lane_mask             |-> lanes,
   active_lane_mask            |-> lanes,
   changed_lane_mask           |-> {},
   converged_lane_mask         |-> {},
   execute_lane_mask           |-> lanes,
   engine_kind                 |-> options.engine,
   enable_per_lane_convergence |-> options.enable_per_lane_convergence,
   rounds_completed            |-> 0,
   maximum_rounds              |-> options.maximum_rounds,
   distance_read_slot          |-> 0,
   distance_write_slot         |-> IF options.engine = "jacobi_pull"
                                     THEN 1 ELSE 0,
   frontier_read_slot          |-> 0,
   frontier_write_slot         |-> 1,
   frontier_size               |-> [slot \in Slots |->
                                     IF slot = 0 /\ options.engine = "frontier_push"
                                       THEN initialFrontier ELSE 0],
   next_frontier_lane_mask     |-> {},
   done                        |-> FALSE,
   stop_reason                 |-> "none",
   error_bits                  |-> {}]

ExpectedErrorBits(reason) ==
  IF reason \in ErrorReasons THEN {reason} ELSE {}

(***************************************************************************)
(* validate_device_controller(c) == DeviceControllerError::none.           *)
(***************************************************************************)
ValidLaneMasks(c) ==
  /\ c.valid_lane_mask # {}
  /\ c.active_lane_mask \union c.changed_lane_mask
       \union c.converged_lane_mask \union c.execute_lane_mask
       \union c.next_frontier_lane_mask \subseteq c.valid_lane_mask
  /\ c.active_lane_mask \intersect c.converged_lane_mask = {}
  /\ c.execute_lane_mask = IF c.done THEN {} ELSE c.active_lane_mask

ValidSlots(c) ==
  /\ IF c.engine_kind = "jacobi_pull"
       THEN c.distance_read_slot # c.distance_write_slot
       ELSE c.distance_read_slot = 0 /\ c.distance_write_slot = 0
  /\ c.frontier_read_slot # c.frontier_write_slot
  /\ c.engine_kind = "frontier_push" /\ ~c.done
       => c.frontier_size[c.frontier_read_slot] # 0

ValidTerminalState(c) ==
  /\ c.done <=> c.stop_reason # "none"
  /\ c.error_bits = ExpectedErrorBits(c.stop_reason)
  /\ c.done => c.changed_lane_mask = {} /\ c.next_frontier_lane_mask = {}
  /\ c.stop_reason = "converged" =>
       c.active_lane_mask = {} /\ c.converged_lane_mask = c.valid_lane_mask
  /\ c.stop_reason = "maximum_rounds" => c.rounds_completed = c.maximum_rounds

ValidDeviceController(c) ==
  /\ ValidLaneMasks(c)
  /\ c.maximum_rounds # 0
  /\ c.rounds_completed <= c.maximum_rounds
  /\ ValidSlots(c)
  /\ ValidTerminalState(c)

(***************************************************************************)
(* DeviceRunStatus, the make_*_run_status function of each engine (they    *)
(* differ in the slot alone) and                                           *)
(* validate_device_run_status(s) == DeviceRunStatusError::none.            *)
(***************************************************************************)
DeviceRunStatuses ==
  [final_distance_slot    : Slots,
   converged              : BOOLEAN,
   rounds_completed       : Nat,
   reached_target_mask    : SUBSET Lanes,
   bounding_box_miss_mask : SUBSET Lanes,
   valid_lane_mask        : SUBSET Lanes,
   active_lane_mask       : SUBSET Lanes,
   converged_lane_mask    : SUBSET Lanes,
   stop_reason            : StopReasons,
   error_bits             : SUBSET ErrorReasons]

MakeRunStatus(c, slot, reached, missed) ==
  LET completed   == c.stop_reason = "converged"
      safeReached == IF completed THEN reached \intersect c.valid_lane_mask
                                  ELSE {}
      safeMiss    == IF completed /\ c.error_bits = {}
                       THEN (missed \intersect c.valid_lane_mask) \ safeReached
                       ELSE {}
  IN [final_distance_slot    |-> slot,
      converged              |-> completed,
      rounds_completed       |-> c.rounds_completed,
      reached_target_mask    |-> safeReached,
      bounding_box_miss_mask |-> safeMiss,
      valid_lane_mask        |-> c.valid_lane_mask,
      active_lane_mask       |-> c.active_lane_mask,
      converged_lane_mask    |-> c.converged_lane_mask,
      stop_reason            |-> c.stop_reason,
      error_bits             |-> c.error_bits]

ValidDeviceRunStatus(s) ==
  /\ s.valid_lane_mask # {}
  /\ s.reached_target_mask \union s.bounding_box_miss_mask
       \union s.active_lane_mask \union s.converged_lane_mask
       \subseteq s.valid_lane_mask
  /\ s.active_lane_mask \intersect s.converged_lane_mask = {}
  /\ s.reached_target_mask \intersect s.bounding_box_miss_mask = {}
  /\ s.converged <=> s.stop_reason = "converged"
  /\ s.converged =>
       s.active_lane_mask = {} /\ s.converged_lane_mask = s.valid_lane_mask
  /\ s.error_bits = ExpectedErrorBits(s.stop_reason)
  /\ s.error_bits # {} => s.bounding_box_miss_mask = {}
=============================================================================
