-------------------------- MODULE SweepEngineProofs --------------------------
(***************************************************************************)
(* What the proofs about the two full-scan engines share, for every graph, *)
(* query, grid size and control mode: the controller between rounds, the   *)
(* shares of the threads, the order in which the grid moves, and the       *)
(* status record of a finished run.                                        *)
(***************************************************************************)
EXTENDS SweepEngine, RoutingProblemProofs

-----------------------------------------------------------------------------
(***************************************************************************)
(* The controller                                                          *)
(***************************************************************************)
LEMMA LaneZero == Lanes = {0} /\ StandaloneLane = {0}
BY GridAssumption DEF Lanes, StandaloneLane

SweepKinds == {"dense_chaotic_push", "jacobi_pull"}

SoundSlots(c) ==
  IF c.engine_kind = "jacobi_pull"
    THEN c.distance_read_slot # c.distance_write_slot
    ELSE c.distance_read_slot = 0 /\ c.distance_write_slot = 0

RunningSound(c) ==
  /\ c.active_lane_mask = {0} /\ c.execute_lane_mask = {0}
  /\ c.converged_lane_mask = {}
  /\ c.stop_reason = "none"
  /\ c.rounds_completed < c.maximum_rounds

FinishedSound(c) ==
  /\ c.execute_lane_mask = {} /\ c.changed_lane_mask = {}
  /\ \/ /\ c.stop_reason = "converged"
        /\ c.active_lane_mask = {} /\ c.converged_lane_mask = {0}
     \/ /\ c.stop_reason = "maximum_rounds"
        /\ c.active_lane_mask = {0} /\ c.converged_lane_mask = {}
        /\ c.rounds_completed = c.maximum_rounds

\* What every controller of a run satisfies.
SoundController(c) ==
  /\ c \in DeviceControllers
  /\ c.valid_lane_mask = {0}
  /\ c.engine_kind \in SweepKinds
  /\ SoundSlots(c)
  /\ c.frontier_read_slot = 0 /\ c.frontier_write_slot = 1
  /\ c.maximum_rounds # 0
  /\ c.rounds_completed <= c.maximum_rounds
  /\ c.next_frontier_lane_mask = {}
  /\ c.error_bits = {}
  /\ ~c.done => RunningSound(c)
  /\ c.done => FinishedSound(c)

LEMMA OptionsType ==
  ASSUME NEW options \in Options
  PROVE  /\ options.engine \in SweepKinds
         /\ options.maximum_rounds \in Nat \ {0}
         /\ options.enable_per_lane_convergence \in Slots
BY GridAssumption DEF SweepKinds

\* A run starts with a sound controller.
LEMMA FreshIsSound ==
  ASSUME run_options \in Options
  PROVE  /\ SoundController(FreshController)
         /\ ~FreshController.done
         /\ FreshController.engine_kind = run_options.engine
         /\ FreshController.maximum_rounds = run_options.maximum_rounds
         /\ FreshController.rounds_completed = 0
         /\ FreshController.changed_lane_mask = {}
         /\ FreshController.stop_reason = "none"
         /\ FreshController.distance_read_slot = 0
<1> DEFINE c == FreshController
           sizes == [slot \in Slots |->
                       IF slot = 0 /\ run_options.engine = "frontier_push"
                         THEN 0 ELSE 0]
<1>1. /\ run_options.engine \in SweepKinds
      /\ run_options.maximum_rounds \in Nat \ {0}
      /\ run_options.enable_per_lane_convergence \in Slots
  BY OptionsType
<1>2. sizes \in [Slots -> Nat]
  OBVIOUS
<1>3. StandaloneLane = {0} /\ {0} \in SUBSET Lanes /\ {} \in SUBSET Lanes
  BY LaneZero
<1>4. /\ 0 \in Slots /\ 1 \in Slots
      /\ (IF run_options.engine = "jacobi_pull" THEN 1 ELSE 0) \in Slots
      /\ run_options.engine \in EngineKinds
      /\ "none" \in StopReasons
      /\ {} \in SUBSET ErrorReasons
      /\ 0 \in Nat /\ FALSE \in BOOLEAN
  BY <1>1 DEF Slots, EngineKinds, SweepKinds, StopReasons
<1>5. c.frontier_size = sizes
  BY DEF FreshController, InitializeDeviceController
<1>6. /\ c.valid_lane_mask = {0} /\ c.active_lane_mask = {0}
      /\ c.changed_lane_mask = {} /\ c.converged_lane_mask = {}
      /\ c.execute_lane_mask = {0}
      /\ c.engine_kind = run_options.engine
      /\ c.rounds_completed = 0
      /\ c.maximum_rounds = run_options.maximum_rounds
      /\ c.distance_read_slot = 0
      /\ c.distance_write_slot = IF run_options.engine = "jacobi_pull" THEN 1 ELSE 0
      /\ c.frontier_read_slot = 0 /\ c.frontier_write_slot = 1
      /\ c.next_frontier_lane_mask = {}
      /\ ~c.done /\ c.stop_reason = "none" /\ c.error_bits = {}
  BY <1>3 DEF FreshController, InitializeDeviceController
<1>7. c \in DeviceControllers
  <2> HIDE DEF sizes
  <2>1. c = [valid_lane_mask             |-> {0},
             active_lane_mask            |-> {0},
             changed_lane_mask           |-> {},
             converged_lane_mask         |-> {},
             execute_lane_mask           |-> {0},
             engine_kind                 |-> run_options.engine,
             enable_per_lane_convergence |-> run_options.enable_per_lane_convergence,
             rounds_completed            |-> 0,
             maximum_rounds              |-> run_options.maximum_rounds,
             distance_read_slot          |-> 0,
             distance_write_slot         |-> IF run_options.engine = "jacobi_pull"
                                               THEN 1 ELSE 0,
             frontier_read_slot          |-> 0,
             frontier_write_slot         |-> 1,
             frontier_size               |-> sizes,
             next_frontier_lane_mask     |-> {},
             done                        |-> FALSE,
             stop_reason                 |-> "none",
             error_bits                  |-> {}]
    BY <1>3 DEF FreshController, InitializeDeviceController, sizes
  <2>2. QED
    BY <1>1, <1>2, <1>3, <1>4, <2>1 DEF DeviceControllers
<1> HIDE DEF c
<1>8. SoundController(c)
  BY <1>1, <1>6, <1>7
  DEF SoundController, SoundSlots, RunningSound
<1>9. QED
  BY <1>6, <1>8 DEF c

\* What a round's end leaves of a running controller, slots aside.
SameSetup(c, d) ==
  /\ d.valid_lane_mask = c.valid_lane_mask
  /\ d.engine_kind = c.engine_kind
  /\ d.maximum_rounds = c.maximum_rounds
  /\ d.frontier_read_slot = c.frontier_read_slot
  /\ d.frontier_write_slot = c.frontier_write_slot
  /\ d.next_frontier_lane_mask = c.next_frontier_lane_mask
  /\ d.error_bits = c.error_bits

Advanced(c, d) ==
  /\ d \in DeviceControllers
  /\ SameSetup(c, d)
  /\ d.rounds_completed = c.rounds_completed + 1
  /\ d.changed_lane_mask = {}
  /\ IF c.changed_lane_mask = {}
       THEN /\ d.done /\ d.stop_reason = "converged"
            /\ d.active_lane_mask = {} /\ d.converged_lane_mask = {0}
            /\ d.execute_lane_mask = {}
     ELSE IF d.rounds_completed = c.maximum_rounds
       THEN /\ d.done /\ d.stop_reason = "maximum_rounds"
            /\ d.active_lane_mask = {0} /\ d.converged_lane_mask = {}
            /\ d.execute_lane_mask = {}
     ELSE /\ ~d.done /\ d.stop_reason = "none"
          /\ d.active_lane_mask = {0} /\ d.converged_lane_mask = {}
          /\ d.execute_lane_mask = {0}

SameSlots(c, d) ==
  /\ d.distance_read_slot = c.distance_read_slot
  /\ d.distance_write_slot = c.distance_write_slot

\* The pieces of FinishSweepRound and of the exchange of the slots.
Counted(c, rounds, active, converged) ==
  [c EXCEPT !.rounds_completed    = rounds,
            !.active_lane_mask    = active,
            !.converged_lane_mask = converged,
            !.changed_lane_mask   = {}]

Ended(c, reason) ==
  [c EXCEPT !.execute_lane_mask = {}, !.done = TRUE, !.stop_reason = reason]

Continued(c, execute) == [c EXCEPT !.execute_lane_mask = execute]

Exchanged(c) ==
  [c EXCEPT !.distance_read_slot  = c.distance_write_slot,
            !.distance_write_slot = c.distance_read_slot]

LEMMA CountedFields ==
  ASSUME NEW c \in DeviceControllers, NEW rounds \in Nat,
         NEW active \in SUBSET Lanes, NEW converged \in SUBSET Lanes
  PROVE  LET d == Counted(c, rounds, active, converged)
         IN /\ d \in DeviceControllers
            /\ SameSetup(c, d) /\ SameSlots(c, d)
            /\ d.rounds_completed = rounds
            /\ d.active_lane_mask = active
            /\ d.converged_lane_mask = converged
            /\ d.changed_lane_mask = {}
            /\ d.execute_lane_mask = c.execute_lane_mask
            /\ (d.done <=> c.done) /\ d.stop_reason = c.stop_reason
BY DEF Counted, DeviceControllers, SameSetup, SameSlots

LEMMA EndedFields ==
  ASSUME NEW c \in DeviceControllers, NEW reason \in StopReasons
  PROVE  LET d == Ended(c, reason)
         IN /\ d \in DeviceControllers
            /\ SameSetup(c, d) /\ SameSlots(c, d)
            /\ d.rounds_completed = c.rounds_completed
            /\ d.active_lane_mask = c.active_lane_mask
            /\ d.converged_lane_mask = c.converged_lane_mask
            /\ d.changed_lane_mask = c.changed_lane_mask
            /\ d.execute_lane_mask = {}
            /\ d.done /\ d.stop_reason = reason
BY DEF Ended, DeviceControllers, SameSetup, SameSlots

LEMMA ContinuedFields ==
  ASSUME NEW c \in DeviceControllers, NEW execute \in SUBSET Lanes
  PROVE  LET d == Continued(c, execute)
         IN /\ d \in DeviceControllers
            /\ SameSetup(c, d) /\ SameSlots(c, d)
            /\ d.rounds_completed = c.rounds_completed
            /\ d.active_lane_mask = c.active_lane_mask
            /\ d.converged_lane_mask = c.converged_lane_mask
            /\ d.changed_lane_mask = c.changed_lane_mask
            /\ d.execute_lane_mask = execute
            /\ (d.done <=> c.done) /\ d.stop_reason = c.stop_reason
BY DEF Continued, DeviceControllers, SameSetup, SameSlots

LEMMA SwappedFields ==
  ASSUME NEW c \in DeviceControllers
  PROVE  LET d == Exchanged(c)
         IN /\ d \in DeviceControllers
            /\ SameSetup(c, d)
            /\ d.distance_read_slot = c.distance_write_slot
            /\ d.distance_write_slot = c.distance_read_slot
            /\ d.rounds_completed = c.rounds_completed
            /\ d.active_lane_mask = c.active_lane_mask
            /\ d.converged_lane_mask = c.converged_lane_mask
            /\ d.changed_lane_mask = c.changed_lane_mask
            /\ d.execute_lane_mask = c.execute_lane_mask
            /\ (d.done <=> c.done) /\ d.stop_reason = c.stop_reason
            /\ d.enable_per_lane_convergence = c.enable_per_lane_convergence
BY DEF Exchanged, DeviceControllers, SameSetup

\* After a valid round the two transitions do what they say.
LEMMA FinishEffect ==
  ASSUME NEW c \in DeviceControllers, c.active_lane_mask = {0},
         c.execute_lane_mask = {0}, c.converged_lane_mask = {},
         c.valid_lane_mask = {0}, ~c.done, c.stop_reason = "none"
  PROVE  LET d == FinishSweepRound(c) IN Advanced(c, d) /\ SameSlots(c, d)
<1> DEFINE quiet   == c.changed_lane_mask = {}
           active  == ActiveAfterRound(c)
           settled == ConvergedAfterRound(c)
           rounds  == c.rounds_completed + 1
           counted == Counted(c, rounds, active, settled)
           going   == Continued(counted, active)
<1>1. c.changed_lane_mask = {} \/ c.changed_lane_mask = {0}
  BY LaneZero DEF DeviceControllers
<1>2. /\ active = IF quiet THEN {} ELSE {0}
      /\ settled = IF quiet THEN {0} ELSE {}
  BY <1>1 DEF ActiveAfterRound, ConvergedAfterRound
<1>3. active \in SUBSET Lanes /\ settled \in SUBSET Lanes /\ rounds \in Nat
  BY <1>2, LaneZero DEF DeviceControllers
<1>4. FinishSweepRound(c) =
        IF counted.active_lane_mask = {} THEN Ended(counted, "converged")
        ELSE IF counted.rounds_completed = c.maximum_rounds
          THEN Ended(counted, "maximum_rounds")
        ELSE Continued(counted, counted.active_lane_mask)
  BY DEF FinishSweepRound, Counted, Ended, Continued
<1> HIDE DEF active, settled, rounds
<1>5. /\ counted \in DeviceControllers
      /\ SameSetup(c, counted) /\ SameSlots(c, counted)
      /\ counted.rounds_completed = rounds
      /\ counted.active_lane_mask = active
      /\ counted.converged_lane_mask = settled
      /\ counted.changed_lane_mask = {}
      /\ counted.execute_lane_mask = c.execute_lane_mask
      /\ (counted.done <=> c.done) /\ counted.stop_reason = c.stop_reason
  BY <1>3, CountedFields
<1>6. counted.execute_lane_mask = {0} /\ ~counted.done /\ counted.stop_reason = "none"
  BY <1>5
<1> HIDE DEF counted
<1>7. ASSUME NEW r \in {"converged", "maximum_rounds"}
      PROVE  /\ Ended(counted, r) \in DeviceControllers
             /\ SameSetup(counted, Ended(counted, r))
             /\ SameSlots(counted, Ended(counted, r))
             /\ Ended(counted, r).rounds_completed = rounds
             /\ Ended(counted, r).active_lane_mask = active
             /\ Ended(counted, r).converged_lane_mask = settled
             /\ Ended(counted, r).changed_lane_mask = {}
             /\ Ended(counted, r).execute_lane_mask = {}
             /\ Ended(counted, r).done /\ Ended(counted, r).stop_reason = r
  <2>1. r \in StopReasons
    BY DEF StopReasons
  <2>2. QED
    BY <1>5, <2>1, EndedFields
<1>8. /\ going \in DeviceControllers
      /\ SameSetup(counted, going) /\ SameSlots(counted, going)
      /\ going.rounds_completed = rounds
      /\ going.active_lane_mask = active
      /\ going.converged_lane_mask = settled
      /\ going.changed_lane_mask = {}
      /\ going.execute_lane_mask = active
      /\ ~going.done /\ going.stop_reason = "none"
  BY <1>3, <1>5, <1>6, ContinuedFields
<1> HIDE DEF going
<1>9. CASE quiet
  <2>1. FinishSweepRound(c) = Ended(counted, "converged")
    BY <1>2, <1>4, <1>5, <1>9
  <2>2. QED
    BY <1>2, <1>5, <1>7, <1>9, <2>1
    DEF Advanced, SameSetup, SameSlots, rounds
<1>10. CASE ~quiet /\ rounds = c.maximum_rounds
  <2>1. FinishSweepRound(c) = Ended(counted, "maximum_rounds")
    BY <1>2, <1>4, <1>5, <1>10
  <2>2. QED
    BY <1>2, <1>5, <1>7, <1>10, <2>1
    DEF Advanced, SameSetup, SameSlots, rounds
<1>11. CASE ~quiet /\ rounds # c.maximum_rounds
  <2>1. FinishSweepRound(c) = going
    BY <1>2, <1>4, <1>5, <1>11 DEF going
  <2>2. QED
    BY <1>2, <1>5, <1>8, <1>11, <2>1
    DEF Advanced, SameSetup, SameSlots, rounds
<1>12. QED
  BY <1>9, <1>10, <1>11

LEMMA RoundMayEnd ==
  ASSUME NEW c, SoundController(c), ~c.done PROVE SweepRoundMayEnd(c)
BY LaneZero DEF SoundController, RunningSound, SweepRoundMayEnd, DeviceControllers

LEMMA DenseAdvance ==
  ASSUME NEW c, SoundController(c), ~c.done, c.engine_kind = "dense_chaotic_push"
  PROVE  LET d == AdvanceDenseController(c) IN Advanced(c, d) /\ SameSlots(c, d)
<1>1. SweepRoundMayEnd(c)
  BY RoundMayEnd
<1>2. AdvanceDenseController(c) = FinishSweepRound(c)
  BY <1>1 DEF AdvanceDenseController, SoundController, SoundSlots
<1>3. QED
  BY <1>2, FinishEffect DEF SoundController, RunningSound

LEMMA JacobiAdvance ==
  ASSUME NEW c, SoundController(c), ~c.done, c.engine_kind = "jacobi_pull"
  PROVE  LET d == AdvanceJacobiController(c)
         IN /\ Advanced(c, d)
            /\ d.distance_read_slot = c.distance_write_slot
            /\ d.distance_write_slot = c.distance_read_slot
<1> DEFINE s == Exchanged(c)
<1>1. SweepRoundMayEnd(c)
  BY RoundMayEnd
<1>2. AdvanceJacobiController(c) = FinishSweepRound(s)
  BY <1>1 DEF AdvanceJacobiController, SoundController, SoundSlots, Exchanged
<1>3. /\ s \in DeviceControllers
      /\ SameSetup(c, s)
      /\ s.distance_read_slot = c.distance_write_slot
      /\ s.distance_write_slot = c.distance_read_slot
      /\ s.rounds_completed = c.rounds_completed
      /\ s.active_lane_mask = c.active_lane_mask
      /\ s.converged_lane_mask = c.converged_lane_mask
      /\ s.changed_lane_mask = c.changed_lane_mask
      /\ s.execute_lane_mask = c.execute_lane_mask
      /\ (s.done <=> c.done) /\ s.stop_reason = c.stop_reason
  BY SwappedFields DEF SoundController
<1> HIDE DEF s
<1>4. Advanced(s, FinishSweepRound(s)) /\ SameSlots(s, FinishSweepRound(s))
  BY <1>3, FinishEffect DEF SoundController, RunningSound, SameSetup
<1>5. QED
  BY <1>2, <1>3, <1>4 DEF Advanced, SameSetup, SameSlots

LEMMA AdvancedIsSound ==
  ASSUME NEW c, NEW d, SoundController(c), ~c.done, Advanced(c, d), SoundSlots(d)
  PROVE  SoundController(d)
<1>1. /\ c.rounds_completed \in Nat /\ c.maximum_rounds \in Nat
      /\ c.rounds_completed < c.maximum_rounds
      /\ c.next_frontier_lane_mask = {} /\ c.error_bits = {}
      /\ c.valid_lane_mask = {0} /\ c.engine_kind \in SweepKinds
      /\ c.frontier_read_slot = 0 /\ c.frontier_write_slot = 1
      /\ c.maximum_rounds # 0
  BY DEF SoundController, RunningSound, DeviceControllers
<1>2. /\ d \in DeviceControllers
      /\ d.valid_lane_mask = {0} /\ d.engine_kind \in SweepKinds
      /\ d.frontier_read_slot = 0 /\ d.frontier_write_slot = 1
      /\ d.maximum_rounds # 0
      /\ d.rounds_completed <= d.maximum_rounds
      /\ d.next_frontier_lane_mask = {} /\ d.error_bits = {}
  BY <1>1 DEF Advanced, SameSetup
<1>3. d.maximum_rounds = c.maximum_rounds /\ d.rounds_completed = c.rounds_completed + 1
  BY DEF Advanced, SameSetup
<1>4. ~d.done => RunningSound(d)
  BY <1>1, <1>3 DEF Advanced, RunningSound
<1>5. d.done => FinishedSound(d)
  BY <1>1, <1>3 DEF Advanced, FinishedSound
<1>6. QED
  BY <1>2, <1>4, <1>5 DEF SoundController

-----------------------------------------------------------------------------
(***************************************************************************)
(* The grid                                                                *)
(***************************************************************************)
Operations == {"enter", "scan", "load", "cas", "reduce", "sync"}

\* Thread t is in the middle of its stride.
Working(t) == pc[t] \in {"scan", "load", "cas"}

\* In which stages of the run the threads are where.
GridInv ==
  /\ run_options \in Options
  /\ SoundController(controller)
  /\ controller.engine_kind = run_options.engine
  /\ pc \in [Threads -> Operations]
  /\ vertex \in [Threads -> Nat]
  /\ changed \in [Threads -> BOOLEAN]
  /\ stage \in {"initialize", "round", "poll", "finalize", "exit"}
  /\ stage = "initialize" =>
       /\ controller = FreshController
       /\ \A t \in Threads : pc[t] \in {"enter", "sync"}
  /\ stage \in {"poll", "finalize", "exit"} => \A t \in Threads : pc[t] = "enter"
  /\ stage = "poll" => controller.changed_lane_mask = {}
  /\ stage \in {"finalize", "exit"} => controller.done
  /\ \A t \in Threads : Working(t) => /\ stage = "round" /\ ~controller.done
                                      /\ vertex[t] % ThreadCount = t
  /\ \A t \in Threads : changed[t] => /\ Working(t) \/ pc[t] = "reduce"
                                      /\ ~controller.done

\* A step of a thread at work in its stride, as far as the grid sees it.
WorkStep(t) ==
  /\ Working(t)
  /\ UNCHANGED <<run_options, controller, stage>>
  /\ \E op \in {"scan", "load", "cas", "reduce"}, v \in Nat, b \in BOOLEAN :
       /\ pc' = [pc EXCEPT ![t] = op]
       /\ vertex' = [vertex EXCEPT ![t] = v]
       /\ changed' = [changed EXCEPT ![t] = b]
       /\ op # "reduce" => v % ThreadCount = t

LEMMA ThreadFacts ==
  /\ ThreadCount \in Nat \ {0}
  /\ \A t \in Threads : t \in Nat /\ t % ThreadCount = t
  /\ \A v \in Vertices : v \in Nat /\ v % ThreadCount \in Threads
<1>1. ThreadCount \in Nat \ {0}
  BY GridAssumption
<1>2. ASSUME NEW t \in Threads PROVE t \in Nat /\ t % ThreadCount = t
  BY <1>1, ShareStarts DEF Threads
<1>3. ASSUME NEW v \in Vertices PROVE v \in Nat /\ v % ThreadCount \in Threads
  <2>1. v \in Nat
    BY GraphAssumption DEF Vertices
  <2>2. v % ThreadCount \in 0 .. ThreadCount - 1
    BY <1>1, <2>1, Division
  <2>3. QED
    BY <2>1, <2>2 DEF Threads
<1>4. QED
  BY <1>1, <1>2, <1>3

\* Execute says no more than that the controller is not done.
LEMMA ExecuteMeaning ==
  GridInv => (Execute <=> ~controller.done)
BY DEF GridInv, SoundController, RunningSound, FinishedSound, Execute

LEMMA GridStart == GridInit => GridInv
<1> SUFFICES ASSUME GridInit PROVE GridInv
  OBVIOUS
<1>1. run_options \in Options /\ controller = FreshController
  BY DEF GridInit
<1>2. SoundController(controller) /\ controller.engine_kind = run_options.engine
  BY <1>1, FreshIsSound
<1>3. QED
  BY <1>1, <1>2 DEF GridInit, GridInv, Operations, Working

LEMMA GridInitialize ==
  ASSUME GridInv, NEW t \in Threads, InitializeController(t) PROVE GridInv'
<1>1. /\ stage = "initialize" /\ controller' = controller
      /\ pc' = [pc EXCEPT ![t] = "sync"]
      /\ UNCHANGED <<run_options, stage, vertex, changed>>
  BY DEF GridInv, InitializeController, hostVars
<1>2. controller' = FreshController'
  BY <1>1 DEF GridInv, FreshController
<1>3. QED
  BY <1>1, <1>2 DEF GridInv, Operations, Working

LEMMA GridBarrier ==
  ASSUME GridInv, BarrierAfterInitialize PROVE GridInv'
BY DEF GridInv, BarrierAfterInitialize, hostVars, Operations, Working

LEMMA GridEnter ==
  ASSUME GridInv, NEW t \in Threads, EnterSweep(t) PROVE GridInv'
<1>1. /\ stage = "round"
      /\ pc' = [pc EXCEPT ![t] = IF Execute THEN "scan" ELSE "reduce"]
      /\ vertex' = [vertex EXCEPT ![t] = IF Execute THEN t ELSE 0]
      /\ changed' = [changed EXCEPT ![t] = FALSE]
      /\ UNCHANGED <<run_options, controller, stage>>
  BY DEF EnterSweep, AtOperation, Goto, hostVars
<1>2. Execute <=> ~controller.done
  BY ExecuteMeaning
<1>3. t \in Nat /\ t % ThreadCount = t
  BY ThreadFacts
<1> HIDE DEF Execute
<1>4. vertex' \in [Threads -> Nat] /\ pc' \in [Threads -> Operations]
        /\ changed' \in [Threads -> BOOLEAN]
  BY <1>1, <1>3 DEF GridInv, Operations
<1>5. ASSUME NEW s \in Threads, Working(s)'
      PROVE  /\ stage' = "round" /\ ~controller'.done
             /\ vertex'[s] % ThreadCount = s
  BY <1>1, <1>2, <1>3, <1>5 DEF GridInv, Working
<1>6. ASSUME NEW s \in Threads, changed'[s]
      PROVE  (Working(s)' \/ pc'[s] = "reduce") /\ ~controller'.done
  BY <1>1, <1>6 DEF GridInv, Working
<1>7. QED
  BY <1>1, <1>4, <1>5, <1>6 DEF GridInv

LEMMA GridWork ==
  ASSUME GridInv, NEW t \in Threads, WorkStep(t) PROVE GridInv'
<1>1. Working(t) /\ UNCHANGED <<run_options, controller, stage>>
  BY DEF WorkStep
<1>2. PICK op \in {"scan", "load", "cas", "reduce"}, v \in Nat, b \in BOOLEAN :
        /\ pc' = [pc EXCEPT ![t] = op]
        /\ vertex' = [vertex EXCEPT ![t] = v]
        /\ changed' = [changed EXCEPT ![t] = b]
        /\ op # "reduce" => v % ThreadCount = t
  BY DEF WorkStep
<1>3. stage = "round" /\ ~controller.done
  BY <1>1 DEF GridInv
<1>4. vertex' \in [Threads -> Nat] /\ pc' \in [Threads -> Operations]
        /\ changed' \in [Threads -> BOOLEAN]
  BY <1>2 DEF GridInv, Operations
<1>5. ASSUME NEW s \in Threads, Working(s)'
      PROVE  vertex'[s] % ThreadCount = s
  BY <1>2, <1>5 DEF GridInv, Working
<1>6. ASSUME NEW s \in Threads, changed'[s]
      PROVE  Working(s)' \/ pc'[s] = "reduce"
  BY <1>2, <1>6 DEF GridInv, Working
<1>7. QED
  BY <1>1, <1>3, <1>4, <1>5, <1>6 DEF GridInv

\* Raising the changed bit leaves the rest of the controller alone.
RaisedBy(c, d, any) ==
  /\ d \in DeviceControllers
  /\ SameSetup(c, d) /\ SameSlots(c, d)
  /\ d.rounds_completed = c.rounds_completed
  /\ d.active_lane_mask = c.active_lane_mask
  /\ d.converged_lane_mask = c.converged_lane_mask
  /\ d.execute_lane_mask = c.execute_lane_mask
  /\ (d.done <=> c.done) /\ d.stop_reason = c.stop_reason
  /\ d.changed_lane_mask = IF any THEN {0} ELSE c.changed_lane_mask

Raised(c, mask) == [c EXCEPT !.changed_lane_mask = mask]

LEMMA RaisedFields ==
  ASSUME NEW c \in DeviceControllers, NEW mask \in SUBSET Lanes
  PROVE  LET d == Raised(c, mask)
         IN /\ d \in DeviceControllers
            /\ SameSetup(c, d) /\ SameSlots(c, d)
            /\ d.rounds_completed = c.rounds_completed
            /\ d.active_lane_mask = c.active_lane_mask
            /\ d.converged_lane_mask = c.converged_lane_mask
            /\ d.execute_lane_mask = c.execute_lane_mask
            /\ (d.done <=> c.done) /\ d.stop_reason = c.stop_reason
            /\ d.changed_lane_mask = mask
BY DEF Raised, DeviceControllers, SameSetup, SameSlots

BlockChanged(b) == \E t \in Members(b) : changed[t]

LEMMA ReduceEffect ==
  ASSUME GridInv, NEW b \in Blocks, ReduceBlock(b)
  PROVE  RaisedBy(controller, controller', BlockChanged(b))
<1> DEFINE mask == IF BlockChanged(b)
                     THEN controller.changed_lane_mask \union StandaloneLane
                     ELSE controller.changed_lane_mask
<1>1. controller \in DeviceControllers /\ controller.changed_lane_mask \subseteq {0}
  BY LaneZero DEF GridInv, SoundController, DeviceControllers
<1>2. /\ mask \in SUBSET Lanes
      /\ mask = IF BlockChanged(b) THEN {0} ELSE controller.changed_lane_mask
  BY <1>1, LaneZero
<1>3. controller' = Raised(controller, mask)
  BY DEF ReduceBlock, Raised, BlockChanged
<1> HIDE DEF mask
<1>4. /\ Raised(controller, mask) \in DeviceControllers
      /\ SameSetup(controller, Raised(controller, mask))
      /\ SameSlots(controller, Raised(controller, mask))
      /\ Raised(controller, mask).rounds_completed = controller.rounds_completed
      /\ Raised(controller, mask).active_lane_mask = controller.active_lane_mask
      /\ Raised(controller, mask).converged_lane_mask = controller.converged_lane_mask
      /\ Raised(controller, mask).execute_lane_mask = controller.execute_lane_mask
      /\ Raised(controller, mask).done <=> controller.done
      /\ Raised(controller, mask).stop_reason = controller.stop_reason
      /\ Raised(controller, mask).changed_lane_mask = mask
  BY <1>1, <1>2, RaisedFields
<1>5. QED
  BY <1>2, <1>3, <1>4 DEF RaisedBy

LEMMA RaisedIsSound ==
  ASSUME NEW c, NEW d, NEW any, SoundController(c), RaisedBy(c, d, any),
         any => ~c.done
  PROVE  SoundController(d)
BY DEF SoundController, RaisedBy, SameSetup, SameSlots, SoundSlots, RunningSound,
       FinishedSound

LEMMA GridReduce ==
  ASSUME GridInv, NEW b \in Blocks, ReduceBlock(b) PROVE GridInv'
<1>1. /\ stage = "round"
      /\ pc' = [t \in Threads |-> IF t \in Members(b) THEN "sync" ELSE pc[t]]
      /\ changed' = [t \in Threads |-> IF t \in Members(b) THEN FALSE ELSE changed[t]]
      /\ UNCHANGED <<run_options, stage, vertex>>
  BY DEF ReduceBlock, hostVars
<1>2. RaisedBy(controller, controller', BlockChanged(b))
  BY ReduceEffect
<1>3. BlockChanged(b) => ~controller.done
  BY DEF GridInv, BlockChanged, Members
<1>4. SoundController(controller')
  BY <1>2, <1>3, RaisedIsSound DEF GridInv
<1>5. /\ controller'.done <=> controller.done
      /\ controller'.engine_kind = controller.engine_kind
  BY <1>2 DEF RaisedBy, SameSetup
<1>6. QED
  BY <1>1, <1>4, <1>5 DEF GridInv, Operations, Working

LEMMA GridAdvance ==
  ASSUME GridInv, NEW next, AdvanceTo(next),
         controller.done => next = controller,
         ~controller.done => Advanced(controller, next) /\ SoundSlots(next)
  PROVE  GridInv'
<1>1. /\ controller' = next
      /\ pc' = [t \in Threads |-> "enter"]
      /\ UNCHANGED <<run_options, vertex, changed>>
      /\ \A t \in Threads : pc[t] = "sync"
      /\ stage' \in {"finalize", "poll", "round"}
      /\ stage' = "finalize" => next.done
  BY DEF AdvanceTo
<1>2. /\ SoundController(next) /\ next.engine_kind = controller.engine_kind
      /\ next.changed_lane_mask = {}
  <2>1. CASE controller.done
    BY <2>1 DEF GridInv, SoundController, FinishedSound
  <2>2. CASE ~controller.done
    BY <2>2, AdvancedIsSound DEF GridInv, Advanced, SameSetup
  <2>3. QED
    BY <2>1, <2>2
<1>3. \A t \in Threads : ~changed[t]
  BY <1>1 DEF GridInv, Working
<1>4. QED
  BY <1>1, <1>2, <1>3 DEF GridInv, Operations, Working

LEMMA GridPoll == ASSUME GridInv, HostPoll PROVE GridInv'
BY DEF GridInv, HostPoll, Working

LEMMA GridFinalize ==
  ASSUME GridInv, NEW result, FinalizeWith(result) PROVE GridInv'
BY DEF GridInv, FinalizeWith, Working

LEMMA GridStutter ==
  ASSUME GridInv, UNCHANGED <<run_options, controller, stage, pc, vertex, changed>>
  PROVE  GridInv'
BY DEF GridInv, Working, FreshController

-----------------------------------------------------------------------------
(***************************************************************************)
(* The end of a run                                                        *)
(***************************************************************************)
\* What the host validates after the run, and while it polls, is valid.
LEMMA SoundIsValid ==
  ASSUME NEW c, SoundController(c), c.changed_lane_mask = {}
  PROVE  ValidDeviceController(c)
<1>1. ~c.done => ValidLaneMasks(c) /\ ValidTerminalState(c)
  BY DEF SoundController, RunningSound, ValidLaneMasks, ValidTerminalState,
         ExpectedErrorBits, ErrorReasons
<1>2. c.done => ValidLaneMasks(c) /\ ValidTerminalState(c)
  BY DEF SoundController, FinishedSound, ValidLaneMasks, ValidTerminalState,
         ExpectedErrorBits, ErrorReasons
<1>3. ValidSlots(c)
  BY DEF SoundController, SoundSlots, ValidSlots, SweepKinds
<1>4. QED
  BY <1>1, <1>2, <1>3 DEF ValidDeviceController, SoundController

\* For whatever targets it is computed, the status classifies them, when the
\* distances it is made from are the shortest after convergence.
LEMMA CompletedClassifies ==
  ASSUME GridInv, stage = "exit", NEW d,
         controller.stop_reason = "converged" => IsShortest(d),
         NEW targets \in TargetSets
  PROVE  Classifies(CompletedStatus(d, targets), targets)
<1> DEFINE result     == CompletedStatus(d, targets)
           reachedAll == \A v \in targets : d[v] # Infinity
           converged  == controller.stop_reason = "converged"
<1>1. result = MakeRunStatus(controller, controller.distance_read_slot,
                             IF reachedAll THEN {0} ELSE {},
                             IF reachedAll THEN {} ELSE {0})
  BY LaneZero DEF CompletedStatus
<1>2. /\ controller.valid_lane_mask = {0} /\ controller.error_bits = {}
      /\ controller.done /\ FinishedSound(controller)
  BY DEF GridInv, SoundController
<1>3. converged => (reachedAll <=> \A v \in targets : ReferenceDistance[v] # Infinity)
  <2>1. converged => d = ReferenceDistance
    BY ShortestIsReference
  <2>2. QED
    BY <2>1
<1> HIDE DEF reachedAll, result
<1>4. /\ result.valid_lane_mask = {0}
      /\ result.active_lane_mask = controller.active_lane_mask
      /\ result.converged_lane_mask = controller.converged_lane_mask
      /\ result.stop_reason = controller.stop_reason
      /\ result.error_bits = {}
      /\ result.converged <=> converged
      /\ result.reached_target_mask = IF converged /\ reachedAll THEN {0} ELSE {}
      /\ result.bounding_box_miss_mask = IF converged /\ ~reachedAll THEN {0} ELSE {}
  BY <1>1, <1>2 DEF MakeRunStatus
<1>5. ValidDeviceRunStatus(result)
  BY <1>2, <1>4 DEF ValidDeviceRunStatus, FinishedSound, ExpectedErrorBits,
                    ErrorReasons
<1>6. Classifies(result, targets)
  BY <1>3, <1>4, <1>5 DEF Classifies
<1>7. QED
  BY <1>6 DEF result

LEMMA TruthfulStatus ==
  ASSUME GridInv, NEW d,
         stage # "initialize" /\ controller.stop_reason = "converged"
           => IsShortest(d),
         stage = "exit" => status = CompletedStatus(d, Targets)
  PROVE  StatusTruthful(d)
BY CompletedClassifies, QueryAssumption DEF StatusTruthful
=============================================================================
