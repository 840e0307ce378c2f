------------------------- MODULE FrontierPushProofs -------------------------
(***************************************************************************)
(* Proofs about FrontierPush for every graph, query, grid size, queue      *)
(* capacity and control mode.                                              *)
(***************************************************************************)
EXTENDS FrontierPush, RoutingProblemProofs

-----------------------------------------------------------------------------
(***************************************************************************)
(* Facts about the constants and the controller.                           *)
(***************************************************************************)
LEMMA LaneZero == Lanes = {0} /\ StandaloneLane = {0} /\ 0 \in Vertices
BY EngineAssumption, GraphAssumption DEF Lanes, StandaloneLane, Vertices

\* A run option record as the engine accepts it.
OptionsOK(options) ==
  /\ options.engine = "frontier_push"
  /\ options.maximum_rounds \in Nat \ {0}
  /\ options.enable_per_lane_convergence \in Slots

FreshController(options) ==
  InitializeDeviceController(options, StandaloneLane, Len(SourceList))

LEMMA FreshControllerType ==
  ASSUME NEW options, OptionsOK(options)
  PROVE  FreshController(options) \in DeviceControllers
<1>1. Len(SourceList) \in Nat
  BY QueryAssumption
<1>2. [slot \in Slots |-> IF slot = 0 /\ options.engine = "frontier_push"
                            THEN Len(SourceList) ELSE 0] \in [Slots -> Nat]
  BY <1>1
<1>3. StandaloneLane \in SUBSET Lanes /\ {} \in SUBSET Lanes
  BY LaneZero
<1>4. {} \in SUBSET ErrorReasons /\ "none" \in StopReasons
  BY DEF StopReasons
<1>5. "frontier_push" \in EngineKinds /\ 0 \in Slots /\ 1 \in Slots
  BY DEF EngineKinds, Slots
<1>6. options.engine = "frontier_push" /\ options.maximum_rounds \in Nat
        /\ options.enable_per_lane_convergence \in Slots
  BY DEF OptionsOK
<1>7. QED
  BY <1>2, <1>3, <1>4, <1>5, <1>6
  DEF FreshController, InitializeDeviceController, DeviceControllers

LEMMA CanonicalErrorType ==
  ASSUME NEW c \in DeviceControllers, NEW reason \in ErrorReasons
  PROVE  /\ CanonicalizeFrontierError(c, reason) \in DeviceControllers
         /\ CanonicalizeFrontierError(c, reason).done
         /\ CanonicalizeFrontierError(c, reason).stop_reason = reason
         /\ CanonicalizeFrontierError(c, reason).execute_lane_mask = {}
<1>1. StandaloneLane \in SUBSET Lanes /\ {} \in SUBSET Lanes
  BY LaneZero
<1>2. 0 \in Slots /\ 1 - c.frontier_read_slot \in Slots
  BY DEF Slots, DeviceControllers
<1>3. "frontier_push" \in EngineKinds /\ reason \in StopReasons
        /\ {reason} \in SUBSET ErrorReasons
  BY DEF EngineKinds, StopReasons
<1>4. QED
  BY <1>1, <1>2, <1>3 DEF CanonicalizeFrontierError, DeviceControllers

\* The controller with its rounds counted and its queues exchanged.
SwappedWith(c, rounds, read, write, sizes) ==
  [c EXCEPT !.rounds_completed        = rounds,
            !.frontier_read_slot      = read,
            !.frontier_write_slot     = write,
            !.frontier_size           = sizes,
            !.changed_lane_mask       = {},
            !.next_frontier_lane_mask = {}]

LEMMA SwappedWithFields ==
  ASSUME NEW c \in DeviceControllers, NEW rounds \in Nat,
         NEW read \in Slots, NEW write \in Slots, NEW sizes \in [Slots -> Nat]
  PROVE  LET d == SwappedWith(c, rounds, read, write, sizes)
         IN /\ d \in DeviceControllers
            /\ d.rounds_completed = rounds
            /\ d.frontier_read_slot = read
            /\ d.frontier_write_slot = write
            /\ d.frontier_size = sizes
            /\ d.changed_lane_mask = {}
            /\ d.next_frontier_lane_mask = {}
            /\ d.valid_lane_mask = c.valid_lane_mask
            /\ d.active_lane_mask = c.active_lane_mask
            /\ d.execute_lane_mask = c.execute_lane_mask
            /\ d.converged_lane_mask = c.converged_lane_mask
            /\ d.engine_kind = c.engine_kind
            /\ d.maximum_rounds = c.maximum_rounds
            /\ d.distance_read_slot = c.distance_read_slot
            /\ d.distance_write_slot = c.distance_write_slot
            /\ d.done = c.done
            /\ d.stop_reason = c.stop_reason
            /\ d.error_bits = c.error_bits
<1>1. {} \in SUBSET Lanes
  OBVIOUS
<1>2. QED
  BY <1>1 DEF SwappedWith, DeviceControllers

LEMMA SwapIsSwappedWith ==
  ASSUME NEW c \in DeviceControllers
  PROVE  LET sizes == [c.frontier_size EXCEPT ![c.frontier_read_slot] = 0]
         IN /\ SwapFrontiers(c) =
                 SwappedWith(c, c.rounds_completed + 1, c.frontier_write_slot,
                             c.frontier_read_slot, sizes)
            /\ c.rounds_completed + 1 \in Nat
            /\ c.frontier_read_slot \in Slots
            /\ c.frontier_write_slot \in Slots
            /\ sizes \in [Slots -> Nat]
BY DEF SwapFrontiers, SwappedWith, DeviceControllers

LEMMA SwapType ==
  ASSUME NEW c \in DeviceControllers
  PROVE  SwapFrontiers(c) \in DeviceControllers
<1> DEFINE sizes == [c.frontier_size EXCEPT ![c.frontier_read_slot] = 0]
<1>1. /\ c.rounds_completed + 1 \in Nat
      /\ c.frontier_read_slot \in Slots
      /\ c.frontier_write_slot \in Slots
      /\ sizes \in [Slots -> Nat]
      /\ SwapFrontiers(c) =
           SwappedWith(c, c.rounds_completed + 1, c.frontier_write_slot,
                       c.frontier_read_slot, sizes)
  BY SwapIsSwappedWith
<1> HIDE DEF sizes
<1>2. QED
  BY <1>1, SwappedWithFields

LEMMA AdvanceType ==
  ASSUME NEW c \in DeviceControllers
  PROVE  AdvanceFrontierController(c) \in DeviceControllers
<1>1. SwapFrontiers(c) \in DeviceControllers
  BY SwapType
<1> DEFINE s == SwapFrontiers(c)
<1>2. /\ [s EXCEPT !.active_lane_mask    = {},
                   !.converged_lane_mask = c.valid_lane_mask,
                   !.execute_lane_mask   = {},
                   !.done                = TRUE,
                   !.stop_reason         = "converged"] \in DeviceControllers
      /\ [s EXCEPT !.execute_lane_mask = {},
                   !.done              = TRUE,
                   !.stop_reason       = "maximum_rounds"] \in DeviceControllers
      /\ [s EXCEPT !.active_lane_mask  = c.valid_lane_mask,
                   !.execute_lane_mask = c.valid_lane_mask]
           \in DeviceControllers
  <2> HIDE DEF s
  <2> s \in DeviceControllers
    BY <1>1 DEF s
  <2> QED
    BY DEF DeviceControllers, StopReasons
<1>3. \A r \in ErrorReasons :
        /\ CanonicalizeFrontierError(c, r) \in DeviceControllers
        /\ CanonicalizeFrontierError(s, r) \in DeviceControllers
  BY <1>1, CanonicalErrorType
<1>4. {"queue_overflow", "invalid_controller_state", "device_failure"}
        = ErrorReasons
  BY DEF ErrorReasons
<1> HIDE DEF s
<1>5. QED
  BY <1>2, <1>3, <1>4 DEF AdvanceFrontierController, s

-----------------------------------------------------------------------------
(***************************************************************************)
(* What a thread may change in the controller during a round: the length   *)
(* of the next queue, its lane mask and the error bits.                    *)
(***************************************************************************)
SameControl(c, d) ==
  /\ d.valid_lane_mask = c.valid_lane_mask
  /\ d.active_lane_mask = c.active_lane_mask
  /\ d.execute_lane_mask = c.execute_lane_mask
  /\ d.converged_lane_mask = c.converged_lane_mask
  /\ d.changed_lane_mask = c.changed_lane_mask
  /\ d.engine_kind = c.engine_kind
  /\ d.rounds_completed = c.rounds_completed
  /\ d.maximum_rounds = c.maximum_rounds
  /\ d.distance_read_slot = c.distance_read_slot
  /\ d.distance_write_slot = c.distance_write_slot
  /\ d.frontier_read_slot = c.frontier_read_slot
  /\ d.frontier_write_slot = c.frontier_write_slot
  /\ d.done = c.done
  /\ d.stop_reason = c.stop_reason

LEMMA RaiseErrorEffect ==
  ASSUME NEW c \in DeviceControllers, NEW bit \in ErrorReasons
  PROVE  LET d == [c EXCEPT !.error_bits = @ \union {bit}]
         IN /\ d \in DeviceControllers
            /\ SameControl(c, d)
            /\ d.error_bits = c.error_bits \union {bit}
            /\ d.frontier_size = c.frontier_size
            /\ d.next_frontier_lane_mask = c.next_frontier_lane_mask
<1> DEFINE bits == c.error_bits \union {bit}
<1>1. bits \in SUBSET ErrorReasons
  BY DEF DeviceControllers
<1> HIDE DEF bits
<1>2. LET d == [c EXCEPT !.error_bits = bits]
      IN /\ d \in DeviceControllers
         /\ SameControl(c, d)
         /\ d.error_bits = bits
         /\ d.frontier_size = c.frontier_size
         /\ d.next_frontier_lane_mask = c.next_frontier_lane_mask
  BY <1>1 DEF DeviceControllers, SameControl
<1>3. QED
  BY <1>2 DEF bits

LEMMA ClaimEffect ==
  ASSUME NEW c \in DeviceControllers
  PROVE  LET d == [c EXCEPT !.frontier_size[c.frontier_write_slot] = @ + 1]
         IN /\ d \in DeviceControllers
            /\ SameControl(c, d)
            /\ d.error_bits = c.error_bits
            /\ d.frontier_size = [c.frontier_size EXCEPT
                                    ![c.frontier_write_slot] = @ + 1]
            /\ d.next_frontier_lane_mask = c.next_frontier_lane_mask
<1> DEFINE sizes == [c.frontier_size EXCEPT ![c.frontier_write_slot] = @ + 1]
<1>1. sizes \in [Slots -> Nat]
  BY DEF DeviceControllers
<1> HIDE DEF sizes
<1>2. LET d == [c EXCEPT !.frontier_size = sizes]
      IN /\ d \in DeviceControllers
         /\ SameControl(c, d)
         /\ d.error_bits = c.error_bits
         /\ d.frontier_size = sizes
         /\ d.next_frontier_lane_mask = c.next_frontier_lane_mask
  BY <1>1 DEF DeviceControllers, SameControl
<1>3. [c EXCEPT !.frontier_size[c.frontier_write_slot] = @ + 1]
        = [c EXCEPT !.frontier_size = sizes]
  BY DEF sizes
<1>4. QED
  BY <1>2, <1>3 DEF sizes

LEMMA PublishEffect ==
  ASSUME NEW c \in DeviceControllers
  PROVE  LET d == [c EXCEPT !.next_frontier_lane_mask = @ \union StandaloneLane]
         IN /\ d \in DeviceControllers
            /\ SameControl(c, d)
            /\ d.error_bits = c.error_bits
            /\ d.frontier_size = c.frontier_size
            /\ d.next_frontier_lane_mask = {0}
<1> DEFINE lanes == c.next_frontier_lane_mask \union StandaloneLane
<1>1. lanes \in SUBSET Lanes /\ lanes = {0}
  BY LaneZero DEF DeviceControllers
<1> HIDE DEF lanes
<1>2. LET d == [c EXCEPT !.next_frontier_lane_mask = lanes]
      IN /\ d \in DeviceControllers
         /\ SameControl(c, d)
         /\ d.error_bits = c.error_bits
         /\ d.frontier_size = c.frontier_size
         /\ d.next_frontier_lane_mask = lanes
  BY <1>1 DEF DeviceControllers, SameControl
<1>3. QED
  BY <1>1, <1>2 DEF lanes

-----------------------------------------------------------------------------
(***************************************************************************)
(* Type correctness.                                                       *)
(***************************************************************************)
LEMMA SeededType ==
  ASSUME TypeOK
  PROVE  /\ SeededController \in DeviceControllers
         /\ SeededFrontier \in [Positions -> Vertices]
<1>1. OptionsOK(run_options)
  BY EngineAssumption DEF TypeOK, OptionsOK
<1>2. FreshController(run_options) \in DeviceControllers
  BY <1>1, FreshControllerType
<1>3. "queue_overflow" \in ErrorReasons
  BY DEF ErrorReasons
<1>4. SeededController \in DeviceControllers
  BY <1>2, <1>3, CanonicalErrorType DEF SeededController, FreshController
<1>5. \A i \in Positions : i < Len(SourceList) => SourceList[i + 1] \in Vertices
  BY QueryAssumption DEF Positions
<1>6. frontiers[0] \in [Positions -> Vertices]
  BY DEF TypeOK, Slots
<1>7. QED
  BY <1>4, <1>5, <1>6 DEF SeededFrontier

LEMMA StatusType ==
  ASSUME TypeOK
  PROVE  CompletedFrontierStatus(Targets) \in DeviceRunStatuses
<1>1. StandaloneLane \in SUBSET Lanes /\ {} \in SUBSET Lanes /\ 0 \in Slots
  BY LaneZero DEF Slots
<1>2. \A reached, missed \in SUBSET Lanes :
        MakeRunStatus(controller, 0, reached, missed) \in DeviceRunStatuses
  BY <1>1 DEF TypeOK, DeviceControllers, MakeRunStatus, DeviceRunStatuses
<1>3. QED
  BY <1>1, <1>2 DEF CompletedFrontierStatus

\* TypeOK is not inductive by itself: a thread indexes the current queue and
\* the edge arrays only inside a valid round.
Inside(t) == pc[t] \notin {"enter", "sync"}

InsideRound ==
  \A t \in Threads : Inside(t) => stage = "round" /\ Execute /\ ValidRound

OnEdge ==
  \A t \in Threads :
    pc[t] \in {"load", "cas", "mark", "claim", "publish", "store"} =>
      /\ edge[t] \in Admitted
      /\ Source[edge[t]] = source[t]

RunsMarked ==
  run_lane_masks \subseteq Admitted

PairsLeft == stage \in {"initialize", "round"} => queued_pairs # 0

TypeInv == TypeOK /\ InsideRound /\ OnEdge /\ RunsMarked /\ PairsLeft

LEMMA InitType == Init => TypeOK
<1> SUFFICES ASSUME Init PROVE TypeOK
  OBVIOUS
<1>1. run_options \in Options /\ OptionsOK(run_options)
  BY EngineAssumption DEF Init, OptionsOK
<1>2. controller \in DeviceControllers
  BY <1>1, FreshControllerType DEF Init, FreshController
<1>3. 0 \in Vertices
  BY LaneZero
<1>4. frontiers \in [Slots -> [Positions -> Vertices]]
  BY <1>3 DEF Init
<1>5. 0 \in Distances
  BY GraphAssumption DEF Distances
<1>6. distance_bits \in [Vertices -> Distances]
        /\ enqueue_generation \in [Vertices -> Nat]
  BY <1>5 DEF Init
<1>7. queued_pairs \in Nat
  BY <1>1, EngineAssumption DEF Init, ChunkRounds
<1>8. pc \in [Threads -> Operations]
  BY DEF Init, Operations
<1>9. QED
  BY <1>1, <1>2, <1>6, <1>3, <1>4, <1>5, <1>7, <1>8 DEF Init, TypeOK

\* The thread-local part of TypeOK, which most actions touch alone.
LocalTypes ==
  /\ pc \in [Threads -> Operations]
  /\ queue_index \in [Threads -> Nat]
  /\ source \in [Threads -> Vertices]
  /\ edge \in [Threads -> {0} \union Edges]
  /\ candidate \in [Threads -> Distances]
  /\ observed \in [Threads -> Distances]
  /\ claim \in [Threads -> Nat]

SharedTypes ==
  /\ run_options \in Options
  /\ distance_bits \in [Vertices -> Distances]
  /\ enqueue_generation \in [Vertices -> Nat]
  /\ frontiers \in [Slots -> [Positions -> Vertices]]
  /\ run_lane_masks \in SUBSET Edges
  /\ controller \in DeviceControllers
  /\ status \in {<<>>} \union DeviceRunStatuses
  /\ stage \in {"initialize", "round", "poll", "finalize", "exit"}
  /\ queued_pairs \in Nat

LEMMA TypeParts == TypeOK <=> SharedTypes /\ LocalTypes
BY DEF TypeOK, SharedTypes, LocalTypes

LEMMA LeaveEdgeTypes ==
  ASSUME LocalTypes, NEW t \in Threads, LeaveEdge(t),
         UNCHANGED <<queue_index, source, edge>>
  PROVE  LocalTypes'
<1>1. 0 \in Distances
  BY GraphAssumption DEF Distances
<1>2. QED
  BY <1>1 DEF LocalTypes, LeaveEdge, Goto, Operations

LEMMA LeaveQueueEntryTypes ==
  ASSUME LocalTypes, NEW t \in Threads, LeaveQueueEntry(t),
         UNCHANGED <<candidate, observed, claim>>
  PROVE  LocalTypes'
<1>1. ThreadCount \in Nat /\ 0 \in Vertices
  BY EngineAssumption, LaneZero
<1>2. queue_index' \in [Threads -> Nat]
  BY <1>1 DEF LocalTypes, LeaveQueueEntry
<1>3. QED
  BY <1>1, <1>2 DEF LocalTypes, LeaveQueueEntry, Goto, Operations

LEMMA GotoTypes ==
  ASSUME LocalTypes, NEW t \in Threads, NEW operation \in Operations,
         Goto(t, operation)
  PROVE  pc' \in [Threads -> Operations]
BY DEF LocalTypes, Goto

\* The three ways a thread changes the controller.
LEMMA ControllerSteps ==
  ASSUME controller \in DeviceControllers
  PROVE  /\ \A bit \in ErrorReasons : RaiseError(bit) \in DeviceControllers
         /\ [controller EXCEPT !.frontier_size[WriteSlot] = @ + 1]
              \in DeviceControllers
         /\ [controller EXCEPT !.next_frontier_lane_mask = @ \union StandaloneLane]
              \in DeviceControllers
<1>1. \A bit \in ErrorReasons : RaiseError(bit) \in DeviceControllers
  BY RaiseErrorEffect DEF RaiseError
<1>2. QED
  BY <1>1, ClaimEffect, PublishEffect DEF WriteSlot

LEMMA TypeInit == Init => TypeInv
<1> SUFFICES ASSUME Init PROVE TypeInv
  OBVIOUS
<1>1. \A t \in Threads : pc[t] = "enter"
  BY DEF Init
<1>2. InsideRound /\ OnEdge /\ RunsMarked
  BY <1>1 DEF Init, InsideRound, Inside, OnEdge, RunsMarked
<1>3. PairsLeft
  BY EngineAssumption DEF Init, PairsLeft, ChunkRounds
<1>4. QED
  BY <1>2, <1>3, InitType DEF TypeInv

\* A thread that keeps the slots, the current size and the execute mask
\* disturbs nobody inside the round.
KeepsRound ==
  /\ controller'.done = controller.done
  /\ controller'.execute_lane_mask = controller.execute_lane_mask
  /\ controller'.frontier_read_slot = controller.frontier_read_slot
  /\ controller'.frontier_write_slot = controller.frontier_write_slot
  /\ CurrentSize' = CurrentSize

LEMMA RaiseKeepsRound ==
  ASSUME controller \in DeviceControllers,
         NEW bit \in ErrorReasons, controller' = RaiseError(bit)
  PROVE  KeepsRound /\ controller' \in DeviceControllers
BY RaiseErrorEffect
DEF RaiseError, KeepsRound, SameControl, CurrentSize, ReadSlot

LEMMA KeepRoundShape ==
  ASSUME TypeInv, NEW t \in Threads, KeepsRound,
         UNCHANGED <<stage, queued_pairs, run_lane_masks>>,
         \A s \in Threads \ {t} : /\ pc'[s] = pc[s]
                                   /\ edge'[s] = edge[s]
                                   /\ source'[s] = source[s],
         Inside(t)' => stage = "round" /\ Execute /\ ValidRound,
         pc'[t] \in {"load", "cas", "mark", "claim", "publish", "store"} =>
           edge'[t] \in Admitted /\ Source[edge'[t]] = source'[t]
  PROVE  InsideRound' /\ OnEdge' /\ RunsMarked' /\ PairsLeft'
<1>1. Execute' <=> Execute
  BY DEF KeepsRound, Execute
<1>2. ValidRound' <=> ValidRound
  BY DEF KeepsRound, ValidRound, ReadSlot, WriteSlot
<1>3. InsideRound'
  BY <1>1, <1>2 DEF TypeInv, InsideRound, Inside
<1>4. OnEdge'
  BY DEF TypeInv, OnEdge
<1>5. QED
  BY <1>3, <1>4 DEF TypeInv, RunsMarked, PairsLeft

LEMMA AdvanceShape ==
  ASSUME TypeInv, AdvanceController
  PROVE  TypeInv'
<1>1. controller' \in DeviceControllers
  BY AdvanceType DEF TypeInv, TypeOK, AdvanceController
<1>2. queued_pairs' \in Nat
  <2>1. CASE Persistent
    BY <2>1 DEF TypeInv, TypeOK, AdvanceController
  <2>2. CASE ~Persistent
    BY <2>2 DEF TypeInv, TypeOK, AdvanceController, PairsLeft
  <2>3. QED
    BY <2>1, <2>2
<1>3. stage' \in {"initialize", "round", "poll", "finalize", "exit"}
  BY DEF AdvanceController
<1>4. \A t \in Threads : pc'[t] = "enter"
  BY DEF AdvanceController
<1>5. pc' \in [Threads -> Operations]
  BY DEF AdvanceController, Operations
<1>6. TypeOK'
  BY <1>1, <1>2, <1>3, <1>5
  DEF TypeInv, TypeOK, AdvanceController, workspaceVars, localVars
<1>7. PairsLeft'
  BY DEF TypeInv, TypeOK, PairsLeft, AdvanceController
<1>8. InsideRound' /\ OnEdge' /\ RunsMarked' /\ PairsLeft'
  BY <1>4, <1>7 DEF TypeInv, InsideRound, Inside, OnEdge, RunsMarked,
              AdvanceController, workspaceVars
<1>9. QED
  BY <1>6, <1>8 DEF TypeInv

LEMMA TypeNext == TypeInv /\ [Next]_vars => TypeInv'
<1> SUFFICES ASSUME TypeInv, [Next]_vars PROVE TypeInv'
  OBVIOUS
<1>0. TypeOK /\ SharedTypes /\ LocalTypes
  BY TypeParts DEF TypeInv
<1>a. 0 \in Distances /\ 0 \in Vertices
  BY GraphAssumption, LaneZero DEF Distances
<1>b. /\ "invalid_controller_state" \in ErrorReasons
      /\ "queue_overflow" \in ErrorReasons
  BY DEF ErrorReasons
<1>c. controller \in DeviceControllers
  BY <1>0 DEF SharedTypes
<1>d. ASSUME SharedTypes', LocalTypes' PROVE TypeOK'
  BY <1>d DEF TypeOK, SharedTypes, LocalTypes
<1>e. UNCHANGED controller => KeepsRound
  BY DEF KeepsRound, CurrentSize, ReadSlot
<1>1. CASE UNCHANGED vars
  BY <1>1 DEF TypeInv, TypeOK, vars, workspaceVars, hostVars, localVars,
              InsideRound, Inside, Execute, ValidRound, CurrentSize,
              ReadSlot, WriteSlot, OnEdge, RunsMarked, PairsLeft
<1>2. ASSUME NEW t \in Threads, InitializeVertices(t) PROVE TypeInv'
  <2>1. SeededController \in DeviceControllers
          /\ SeededFrontier \in [Positions -> Vertices]
    BY <1>0, SeededType
  <2>2. controller' \in DeviceControllers
          /\ frontiers' \in [Slots -> [Positions -> Vertices]]
    BY <1>0, <1>2, <2>1 DEF InitializeVertices, SharedTypes
  <2>3. /\ distance_bits' \in [Vertices -> Distances]
        /\ enqueue_generation' \in [Vertices -> Nat]
        /\ run_lane_masks' \in SUBSET Edges
    BY <1>0, <1>2, InitialDistanceType DEF InitializeVertices, SharedTypes
  <2>4. SharedTypes'
    BY <1>0, <1>2, <2>2, <2>3 DEF InitializeVertices, SharedTypes, hostVars
  <2>5. LocalTypes'
    BY <1>0, <1>2 DEF InitializeVertices, LocalTypes, localVars, Operations
  <2>6. \A s \in Threads : pc'[s] \in {"enter", "sync"}
    <3>1. \A s \in Threads : pc[s] \in {"enter", "sync"}
      BY <1>2 DEF InitializeVertices, TypeInv, InsideRound, Inside
    <3>2. QED
      BY <1>0, <1>2, <3>1 DEF InitializeVertices, LocalTypes
  <2>7. InsideRound' /\ OnEdge'
    BY <2>6 DEF InsideRound, Inside, OnEdge
  <2>8. RunsMarked' /\ PairsLeft'
    BY <1>2 DEF InitializeVertices, RunsMarked, RunMarked, Admitted, TypeInv,
                PairsLeft, hostVars
  <2>9. QED
    BY <1>d, <2>4, <2>5, <2>7, <2>8 DEF TypeInv
<1>3. ASSUME NEW t \in Threads, EnterRound(t) PROVE TypeInv'
  <2>1. controller' \in DeviceControllers /\ KeepsRound
    BY <1>3, <1>b, <1>c, <1>e, RaiseKeepsRound DEF EnterRound
  <2>2. SharedTypes'
    BY <1>0, <1>3, <2>1 DEF EnterRound, SharedTypes, workspaceVars, hostVars
  <2>3. t \in Nat
    BY EngineAssumption DEF Threads
  <2>4. LocalTypes'
    BY <1>0, <1>3, <2>3 DEF EnterRound, LocalTypes, Goto, Operations
  <2>5. pc'[t] \in {"fetch", "sync"} /\ (pc'[t] = "fetch" => Execute /\ ValidRound)
    BY <1>0, <1>3 DEF EnterRound, LocalTypes, Goto
  <2>6. InsideRound' /\ OnEdge' /\ RunsMarked' /\ PairsLeft'
    <3>1. Inside(t)' => stage = "round" /\ Execute /\ ValidRound
      BY <1>3, <2>5 DEF EnterRound, AtOperation, Inside
    <3>2. \A s \in Threads \ {t} : /\ pc'[s] = pc[s]
                                   /\ edge'[s] = edge[s]
                                   /\ source'[s] = source[s]
      BY <1>0, <1>3 DEF EnterRound, LocalTypes, Goto
    <3>3. UNCHANGED <<stage, queued_pairs, run_lane_masks>>
      BY <1>3 DEF EnterRound, workspaceVars, hostVars
    <3>4. QED
      BY <2>1, <2>5, <3>1, <3>2, <3>3, KeepRoundShape
  <2>7. QED
    BY <1>d, <2>2, <2>4, <2>6 DEF TypeInv
<1>4. ASSUME NEW t \in Threads, FetchSource(t) PROVE TypeInv'
  <2> DEFINE v == frontiers[ReadSlot][queue_index[t]]
  <2>0. v \in Vertices
    <3>1. ReadSlot \in Slots
      BY <1>c DEF ReadSlot, DeviceControllers
    <3>2. queue_index[t] \in Nat /\ queue_index[t] < CurrentSize /\ CurrentSize \in 1 .. QueueCapacity
      BY <1>0, <1>4 DEF FetchSource, AtOperation, LocalTypes, TypeInv, InsideRound, Inside, ValidRound
    <3>3. queue_index[t] \in Positions
      BY <3>2, EngineAssumption, GraphAssumption DEF Positions
    <3>4. QED
      BY <1>0, <3>1, <3>3 DEF SharedTypes
  <2>a. stage = "round" /\ Execute /\ ValidRound
    BY <1>4 DEF FetchSource, AtOperation, TypeInv, InsideRound, Inside
  <2>b. \A s \in Threads \ {t} : /\ pc'[s] = pc[s]
                                 /\ edge'[s] = edge[s]
                                 /\ source'[s] = source[s]
    BY <1>0, <1>4 DEF FetchSource, LeaveQueueEntry, Goto, LocalTypes
  <2>c. UNCHANGED <<stage, queued_pairs, run_lane_masks>>
    BY <1>4 DEF FetchSource, workspaceVars, hostVars
  <2>d. pc'[t] \in {"edge", "fetch"}
    BY <1>0, <1>4 DEF FetchSource, LeaveQueueEntry, Goto, LocalTypes
  <2>1. CASE InSelectedTile(v)
    <3>1. /\ UNCHANGED <<controller, queue_index>>
          /\ source' = [source EXCEPT ![t] = v]
          /\ edge' = [edge EXCEPT ![t] = 0]
          /\ Goto(t, "edge")
      BY <1>4, <2>1 DEF FetchSource
    <3>2. SharedTypes'
      BY <1>0, <1>4, <3>1 DEF FetchSource, SharedTypes, workspaceVars, hostVars
    <3> HIDE DEF v
    <3>3. LocalTypes'
      BY <1>0, <1>4, <2>0, <3>1
      DEF FetchSource, LocalTypes, Goto, Operations
    <3>4. InsideRound' /\ OnEdge' /\ RunsMarked' /\ PairsLeft'
      BY <1>e, <2>a, <2>b, <2>c, <2>d, <3>1, KeepRoundShape
    <3>5. QED
      BY <1>d, <3>2, <3>3, <3>4 DEF TypeInv
  <2>2. CASE ~InSelectedTile(v)
    <3>1. controller' = RaiseError("invalid_controller_state")
            /\ LeaveQueueEntry(t)
            /\ UNCHANGED <<candidate, observed, claim>>
      BY <1>4, <2>2 DEF FetchSource
    <3>2. controller' \in DeviceControllers /\ KeepsRound
      BY <3>1, <1>b, <1>c, RaiseKeepsRound
    <3>3. SharedTypes'
      BY <1>0, <1>4, <3>2 DEF FetchSource, SharedTypes, workspaceVars, hostVars
    <3>4. LocalTypes'
      BY <1>0, <3>1, LeaveQueueEntryTypes
    <3>5. InsideRound' /\ OnEdge' /\ RunsMarked' /\ PairsLeft'
      BY <2>a, <2>b, <2>c, <2>d, <3>2, KeepRoundShape
    <3>6. QED
      BY <1>d, <3>3, <3>4, <3>5 DEF TypeInv
  <2>3. QED
    BY <2>1, <2>2
<1>5. ASSUME NEW t \in Threads, FinishShare(t) PROVE TypeInv'
  <2>1. SharedTypes'
    BY <1>0, <1>5 DEF FinishShare, SharedTypes, workspaceVars, hostVars
  <2>2. LocalTypes'
    BY <1>0, <1>5 DEF FinishShare, LocalTypes, Goto, Operations
  <2>3. /\ pc'[t] = "sync"
        /\ \A s \in Threads \ {t} : /\ pc'[s] = pc[s]
                                    /\ edge'[s] = edge[s]
                                    /\ source'[s] = source[s]
    BY <1>0, <1>5 DEF FinishShare, Goto, LocalTypes
  <2>4. UNCHANGED <<controller, stage, queued_pairs, run_lane_masks>>
    BY <1>5 DEF FinishShare, workspaceVars, hostVars
  <2>5. ~Inside(t)'
    BY <2>3 DEF Inside
  <2>6. InsideRound' /\ OnEdge' /\ RunsMarked' /\ PairsLeft'
    BY <1>e, <2>3, <2>4, <2>5, KeepRoundShape
  <2>7. QED
    BY <1>d, <2>1, <2>2, <2>6 DEF TypeInv
<1>6. ASSUME NEW t \in Threads, LoadSource(t) PROVE TypeInv'
  <2>1. SharedTypes'
    BY <1>0, <1>6 DEF LoadSource, SharedTypes, workspaceVars, hostVars
  <2>2. PICK e \in Remaining(t) :
          /\ edge' = [edge EXCEPT ![t] = e]
          /\ candidate' = [candidate EXCEPT
                             ![t] = Plus(distance_bits[source[t]], Weight[e])]
    BY <1>6 DEF LoadSource
  <2>3. e \in Edges /\ e \in Admitted /\ Source[e] = source[t]
    BY DEF Remaining, Row, TypeInv, RunsMarked
  <2>4. Plus(distance_bits[source[t]], Weight[e]) \in Distances
    <3>1. distance_bits[source[t]] \in Distances
      BY <1>0 DEF SharedTypes, LocalTypes
    <3>2. Weight[e] \in 0 .. Infinity - 1
      BY <2>3, EdgeType
    <3>3. QED
      BY <3>1, <3>2, PlusType
  <2>5. LocalTypes'
    BY <1>0, <1>6, <2>2, <2>3, <2>4
    DEF LoadSource, LocalTypes, Goto, Operations
  <2>6. stage = "round" /\ Execute /\ ValidRound
    BY <1>6 DEF LoadSource, AtOperation, TypeInv, InsideRound, Inside
  <2>7. /\ edge'[t] = e
        /\ source'[t] = source[t]
        /\ \A s \in Threads \ {t} : /\ pc'[s] = pc[s]
                                    /\ edge'[s] = edge[s]
                                    /\ source'[s] = source[s]
    BY <1>0, <1>6, <2>2, <2>3 DEF LoadSource, Goto, LocalTypes
  <2>8. UNCHANGED <<controller, stage, queued_pairs, run_lane_masks>>
    BY <1>6 DEF LoadSource, workspaceVars, hostVars
  <2>9. InsideRound' /\ OnEdge' /\ RunsMarked' /\ PairsLeft'
    BY <1>e, <2>3, <2>6, <2>7, <2>8, KeepRoundShape
  <2>10. QED
    BY <1>d, <2>1, <2>5, <2>9 DEF TypeInv
<1>7. ASSUME NEW t \in Threads, FinishRow(t) PROVE TypeInv'
  <2>1. SharedTypes'
    BY <1>0, <1>7 DEF FinishRow, SharedTypes, workspaceVars, hostVars
  <2>2. LocalTypes'
    BY <1>0, <1>7, LeaveQueueEntryTypes DEF FinishRow
  <2>3. stage = "round" /\ Execute /\ ValidRound
    BY <1>7 DEF FinishRow, AtOperation, TypeInv, InsideRound, Inside
  <2>4. /\ pc'[t] = "fetch"
        /\ \A s \in Threads \ {t} : /\ pc'[s] = pc[s]
                                    /\ edge'[s] = edge[s]
                                    /\ source'[s] = source[s]
    BY <1>0, <1>7 DEF FinishRow, LeaveQueueEntry, Goto, LocalTypes
  <2>5. UNCHANGED <<controller, stage, queued_pairs, run_lane_masks>>
    BY <1>7 DEF FinishRow, workspaceVars, hostVars
  <2>6. InsideRound' /\ OnEdge' /\ RunsMarked' /\ PairsLeft'
    BY <1>e, <2>3, <2>4, <2>5, KeepRoundShape
  <2>7. QED
    BY <1>d, <2>1, <2>2, <2>6 DEF TypeInv
<1>8. ASSUME NEW t \in Threads,
             \/ LoadDestination(t) \/ CompareAndSwap(t) \/ MarkGeneration(t)
             \/ ClaimPosition(t) \/ PublishLane(t) \/ StoreEntry(t)
      PROVE  TypeInv'
  <2>0. pc[t] \in {"load", "cas", "mark", "claim", "publish", "store"}
    BY <1>8 DEF LoadDestination, CompareAndSwap, MarkGeneration,
                ClaimPosition, PublishLane, StoreEntry, AtOperation
  <2>1. /\ stage = "round" /\ Execute /\ ValidRound
        /\ edge[t] \in Admitted
        /\ Source[edge[t]] = source[t]
    BY <2>0 DEF TypeInv, InsideRound, Inside, OnEdge
  <2>2. edge[t] \in Edges /\ Destination[edge[t]] \in Vertices
    BY <2>1, EdgeType DEF Admitted
  <2>3. distance_bits[Destination[edge[t]]] \in Distances
    BY <1>0, <2>2 DEF SharedTypes
  <2>4. UNCHANGED <<queue_index, source, edge, stage, queued_pairs,
                   run_lane_masks>>
    BY <1>8 DEF LoadDestination, CompareAndSwap, MarkGeneration,
                ClaimPosition, PublishLane, StoreEntry, workspaceVars,
                localVars, hostVars
  <2>5. /\ UNCHANGED <<run_options, status, queued_pairs>>
        /\ UNCHANGED enqueue_generation
             \/ enqueue_generation' = [enqueue_generation EXCEPT
                                         ![Destination[edge[t]]] = Generation]
        /\ UNCHANGED distance_bits
             \/ distance_bits' = [distance_bits EXCEPT
                                    ![Destination[edge[t]]] = candidate[t]]
        /\ UNCHANGED frontiers
             \/ /\ claim[t] < QueueCapacity
                /\ frontiers' = [frontiers EXCEPT
                                   ![WriteSlot][claim[t]] = Destination[edge[t]]]
    BY <1>8 DEF LoadDestination, CompareAndSwap, MarkGeneration,
                ClaimPosition, PublishLane, StoreEntry, workspaceVars,
                hostVars, LeaveEdge
  <2>6. controller' \in DeviceControllers /\ KeepsRound
    <3>1. \/ UNCHANGED controller
          \/ controller' = RaiseError("queue_overflow")
          \/ controller' = [controller EXCEPT !.frontier_size[WriteSlot] = @ + 1]
          \/ controller' = [controller EXCEPT
                              !.next_frontier_lane_mask = @ \union StandaloneLane]
      BY <1>8 DEF LoadDestination, CompareAndSwap, MarkGeneration,
                  ClaimPosition, PublishLane, StoreEntry
    <3>2. CASE UNCHANGED controller
      BY <1>c, <1>e, <3>2
    <3>3. CASE controller' = RaiseError("queue_overflow")
      BY <1>b, <1>c, <3>3, RaiseKeepsRound
    <3>4. CASE controller' = [controller EXCEPT !.frontier_size[WriteSlot] = @ + 1]
      <4>1. /\ controller' \in DeviceControllers
            /\ SameControl(controller, controller')
            /\ controller'.frontier_size =
                 [controller.frontier_size EXCEPT ![WriteSlot] = @ + 1]
        BY <1>c, <3>4, ClaimEffect DEF WriteSlot
      <4>2. controller.frontier_size \in [Slots -> Nat]
              /\ ReadSlot \in Slots /\ WriteSlot \in Slots
              /\ ReadSlot # WriteSlot
        BY <1>c, <2>1 DEF DeviceControllers, ReadSlot, WriteSlot, ValidRound
      <4>3. controller'.frontier_size[ReadSlot] = controller.frontier_size[ReadSlot]
        BY <4>1, <4>2
      <4>4. QED
        BY <4>1, <4>3 DEF KeepsRound, SameControl, CurrentSize, ReadSlot
    <3>5. CASE controller' = [controller EXCEPT
                                !.next_frontier_lane_mask = @ \union StandaloneLane]
      BY <1>c, <3>5, PublishEffect
      DEF KeepsRound, SameControl, CurrentSize, ReadSlot
    <3>6. QED
      BY <3>1, <3>2, <3>3, <3>4, <3>5
  <2>7. Generation \in Nat
    BY <1>c DEF DeviceControllers, Generation
  <2>8. frontiers' \in [Slots -> [Positions -> Vertices]]
    <3>1. claim[t] \in Nat
      BY <1>0 DEF LocalTypes
    <3>2. claim[t] < QueueCapacity => claim[t] \in Positions
      BY <3>1, EngineAssumption, GraphAssumption DEF Positions
    <3>3. WriteSlot \in Slots
      BY <1>c DEF DeviceControllers, WriteSlot
    <3>4. frontiers[WriteSlot] \in [Positions -> Vertices]
      BY <1>0, <3>3 DEF SharedTypes
    <3>5. \A i \in Positions :
            [frontiers[WriteSlot] EXCEPT ![i] = Destination[edge[t]]]
              \in [Positions -> Vertices]
      BY <2>2, <3>4
    <3>6. \A row \in [Positions -> Vertices] :
            [frontiers EXCEPT ![WriteSlot] = row]
              \in [Slots -> [Positions -> Vertices]]
      BY <1>0, <3>3 DEF SharedTypes
    <3>7. [frontiers EXCEPT ![WriteSlot][claim[t]] = Destination[edge[t]]]
            = [frontiers EXCEPT ![WriteSlot] =
                 [frontiers[WriteSlot] EXCEPT ![claim[t]] = Destination[edge[t]]]]
      OBVIOUS
    <3>8. CASE UNCHANGED frontiers
      BY <1>0, <3>8 DEF SharedTypes
    <3>9. CASE ~UNCHANGED frontiers
      <4> DEFINE row == [frontiers[WriteSlot] EXCEPT
                           ![claim[t]] = Destination[edge[t]]]
      <4>1. claim[t] \in Positions /\ frontiers' = [frontiers EXCEPT ![WriteSlot] = row]
        BY <2>5, <3>2, <3>7, <3>9
      <4>2. row \in [Positions -> Vertices]
        BY <3>5, <4>1
      <4> HIDE DEF row
      <4>3. QED
        BY <3>6, <4>1, <4>2
    <3>10. QED
      BY <3>8, <3>9
  <2>9. SharedTypes'
    <3>1. candidate[t] \in Distances
      BY <1>0 DEF LocalTypes
    <3>2. distance_bits' \in [Vertices -> Distances]
            /\ enqueue_generation' \in [Vertices -> Nat]
      BY <1>0, <2>2, <2>5, <2>7, <3>1 DEF SharedTypes
    <3>3. QED
      BY <1>0, <2>4, <2>5, <2>6, <2>8, <3>2 DEF SharedTypes
  <2>10. LocalTypes'
    <3>1. CASE LeaveEdge(t)
      BY <1>0, <2>4, <3>1, LeaveEdgeTypes
    <3>2. CASE ~LeaveEdge(t)
      <4>1. CASE LoadDestination(t)
        BY <1>0, <2>3, <3>2, <4>1
        DEF LoadDestination, Goto, LocalTypes, Operations
      <4>2. CASE CompareAndSwap(t)
        BY <1>0, <2>3, <3>2, <4>2
        DEF CompareAndSwap, Goto, LocalTypes, Operations
      <4>3. CASE MarkGeneration(t)
        BY <1>0, <3>2, <4>3
        DEF MarkGeneration, Goto, LocalTypes, Operations
      <4>4. CASE ClaimPosition(t)
        <5>1. controller.frontier_size[WriteSlot] \in Nat
          BY <1>c DEF DeviceControllers, WriteSlot
        <5>2. QED
          BY <1>0, <4>4, <5>1 DEF ClaimPosition, Goto, LocalTypes, Operations
      <4>5. CASE PublishLane(t)
        BY <1>0, <4>5 DEF PublishLane, Goto, LocalTypes, Operations, localVars
      <4>6. CASE StoreEntry(t)
        BY <3>2, <4>6 DEF StoreEntry
      <4>7. QED
        BY <1>8, <4>1, <4>2, <4>3, <4>4, <4>5, <4>6
    <3>3. QED
      BY <3>1, <3>2
  <2>11. \A s \in Threads \ {t} : pc'[s] = pc[s]
    BY <1>0, <1>8 DEF LoadDestination, CompareAndSwap, MarkGeneration,
         ClaimPosition, PublishLane, StoreEntry, LeaveEdge, Goto, LocalTypes
  <2>12. InsideRound' /\ OnEdge' /\ RunsMarked' /\ PairsLeft'
    BY <2>1, <2>4, <2>6, <2>11, KeepRoundShape
  <2>13. QED
    BY <1>d, <2>9, <2>10, <2>12 DEF TypeInv
<1>9. ASSUME FinishInitialize \/ HostPoll \/ Finalize PROVE TypeInv'
  <2>1. status' \in {<<>>} \union DeviceRunStatuses
    BY <1>0, <1>9, StatusType
    DEF FinishInitialize, HostPoll, Finalize, SharedTypes, hostVars
  <2>2. queued_pairs' \in Nat
    <3>1. ChunkRounds(run_options) \in Nat
      BY <1>0, EngineAssumption DEF SharedTypes, ChunkRounds
    <3>2. QED
      BY <1>0, <1>9, <3>1
      DEF FinishInitialize, HostPoll, Finalize, SharedTypes, hostVars
  <2>3. pc' \in [Threads -> Operations]
    BY <1>0, <1>9
    DEF FinishInitialize, HostPoll, Finalize, LocalTypes, Operations
  <2>4. stage' \in {"initialize", "round", "poll", "finalize", "exit"}
          /\ stage # "round"
    BY <1>9 DEF FinishInitialize, HostPoll, Finalize
  <2>5. UNCHANGED <<workspaceVars, controller, run_options, localVars>>
    BY <1>9 DEF FinishInitialize, HostPoll, Finalize, hostVars
  <2>6. SharedTypes'
    BY <1>0, <2>1, <2>2, <2>4, <2>5 DEF SharedTypes, workspaceVars
  <2>7. LocalTypes'
    BY <1>0, <2>3, <2>5 DEF LocalTypes, localVars
  <2>8. \A t \in Threads : pc[t] \in {"enter", "sync"}
    BY <2>4 DEF TypeInv, InsideRound, Inside
  <2>9. \A t \in Threads : pc'[t] \in {"enter", "sync"}
    BY <1>9, <2>8 DEF FinishInitialize, HostPoll, Finalize
  <2>10. PairsLeft'
    <3>1. ChunkRounds(run_options) # 0
      BY <1>0, EngineAssumption DEF SharedTypes, ChunkRounds
    <3>2. QED
      BY <1>9, <3>1 DEF FinishInitialize, HostPoll, Finalize, TypeInv,
                        PairsLeft, hostVars
  <2>11. InsideRound' /\ OnEdge' /\ RunsMarked' /\ PairsLeft'
    BY <2>5, <2>9, <2>10 DEF InsideRound, Inside, OnEdge, RunsMarked, TypeInv,
                             workspaceVars
  <2>12. QED
    BY <1>d, <2>6, <2>7, <2>11 DEF TypeInv
<1>10. CASE AdvanceController
  BY <1>10, AdvanceShape
<1>11. QED
  BY <1>1, <1>2, <1>3, <1>4, <1>5, <1>6, <1>7, <1>8, <1>9, <1>10
  DEF Next, ThreadStep, GridStep, Terminated

\* The type invariant, with the fact that a thread is inside a round only while
\* the round is valid and the controller lets it execute: no access of the
\* kernels leaves its array.
THEOREM TypeCorrect == Spec => []TypeOK
<1>1. Spec => []TypeInv
  BY TypeInit, TypeNext, PTL DEF Spec
<1>2. TypeInv => TypeOK
  BY DEF TypeInv
<1>3. QED
  BY <1>1, <1>2, PTL

-----------------------------------------------------------------------------
(***************************************************************************)
(* No schedule takes a distance below the shortest one.  The candidate a   *)
(* thread carries between its load and its compare-and-swap may be stale,  *)
(* but only too high, because distances only fall.                         *)
(***************************************************************************)
\* A thread that has passed initialize_frontier_state has reset its vertices.
ResetBySynced ==
  stage = "initialize" =>
    \A v \in Vertices : pc[v % ThreadCount] = "sync" =>
      /\ distance_bits[v] = InitialDistance[v]
      /\ enqueue_generation[v] = 0

CandidateSound ==
  \A t \in Threads :
    /\ pc[t] \in {"load", "cas"} =>
         Plus(distance_bits[source[t]], Weight[edge[t]]) <= candidate[t]
    /\ pc[t] = "cas" => candidate[t] < observed[t]

\* Every potential is a lower bound, the shortest distances among them.
AbovePotentials ==
  stage # "initialize" =>
    \A p \in Potentials : \A v \in Vertices : p[v] <= distance_bits[v]

LowerBoundInv ==
  TypeInv /\ ResetBySynced /\ CandidateSound /\ AbovePotentials

LEMMA ThreadOf ==
  ASSUME NEW v \in Vertices
  PROVE  v % ThreadCount \in Threads
BY EngineAssumption, GraphAssumption DEF Vertices, Threads

LEMMA LowerBoundInit == Init => LowerBoundInv
<1> SUFFICES ASSUME Init PROVE LowerBoundInv
  OBVIOUS
<1>1. \A t \in Threads : pc[t] = "enter"
  BY DEF Init
<1>2. ResetBySynced
  BY <1>1, ThreadOf DEF ResetBySynced
<1>3. CandidateSound
  BY <1>1 DEF CandidateSound
<1>4. AbovePotentials
  BY DEF Init, AbovePotentials
<1>5. QED
  BY <1>2, <1>3, <1>4, TypeInit DEF LowerBoundInv

\* The candidates of the threads that do not move stay sound when distances
\* fall.
LEMMA CandidatesStaySound ==
  ASSUME TypeInv, TypeInv', CandidateSound, NEW t \in Threads,
         \A v \in Vertices : distance_bits'[v] <= distance_bits[v],
         \A s \in Threads \ {t} :
           /\ pc'[s] = pc[s] /\ edge'[s] = edge[s] /\ source'[s] = source[s]
           /\ candidate'[s] = candidate[s] /\ observed'[s] = observed[s],
         pc'[t] \in {"load", "cas"} =>
           Plus(distance_bits'[source'[t]], Weight[edge'[t]]) <= candidate'[t],
         pc'[t] = "cas" => candidate'[t] < observed'[t]
  PROVE  CandidateSound'
<1> SUFFICES ASSUME NEW s \in Threads \ {t}, pc[s] \in {"load", "cas"}
             PROVE  Plus(distance_bits'[source[s]], Weight[edge[s]]) <= candidate[s]
  BY DEF CandidateSound
<1>1. /\ source[s] \in Vertices
      /\ edge[s] \in Edges
      /\ candidate[s] \in Distances
      /\ distance_bits[source[s]] \in Distances
      /\ distance_bits'[source[s]] \in Distances
  BY DEF TypeInv, TypeOK, OnEdge, Admitted
<1>2. Weight[edge[s]] \in 0 .. Infinity - 1
  BY <1>1, EdgeType
<1>3. Plus(distance_bits'[source[s]], Weight[edge[s]])
        <= Plus(distance_bits[source[s]], Weight[edge[s]])
  BY <1>1, <1>2, PlusMonotone
<1>4. Plus(distance_bits[source[s]], Weight[edge[s]]) <= candidate[s]
  BY DEF CandidateSound
<1>5. /\ Plus(distance_bits'[source[s]], Weight[edge[s]]) \in Distances
      /\ Plus(distance_bits[source[s]], Weight[edge[s]]) \in Distances
  BY <1>1, <1>2, PlusType
<1>6. QED
  BY <1>1, <1>3, <1>4, <1>5 DEF Distances

\* A candidate lies above every potential of the vertex it is meant for.
LEMMA CandidateAbove ==
  ASSUME LowerBoundInv, NEW t \in Threads, pc[t] \in {"load", "cas"},
         NEW p \in Potentials
  PROVE  p[Destination[edge[t]]] <= candidate[t]
<1> DEFINE e == edge[t]
           d == distance_bits[source[t]]
<1>1. /\ e \in Admitted /\ e \in Edges /\ Source[e] = source[t]
      /\ stage = "round"
  BY DEF LowerBoundInv, TypeInv, OnEdge, InsideRound, Inside, Admitted
<1>2. /\ source[t] \in Vertices
      /\ d \in Distances
      /\ candidate[t] \in Distances
  BY DEF LowerBoundInv, TypeInv, TypeOK
<1>3. /\ p \in [Vertices -> Distances]
      /\ p[Destination[e]] <= Plus(p[source[t]], Weight[e])
  BY <1>1 DEF Potentials, Relaxed
<1>4. p[source[t]] <= d
  BY <1>1, <1>2 DEF LowerBoundInv, AbovePotentials
<1>5. Weight[e] \in 0 .. Infinity - 1 /\ Destination[e] \in Vertices
  BY <1>1, EdgeType
<1>6. p[source[t]] \in Distances /\ p[Destination[e]] \in Distances
  BY <1>2, <1>3, <1>5
<1>7. Plus(d, Weight[e]) <= candidate[t]
  BY DEF LowerBoundInv, CandidateSound
<1> HIDE DEF e, d
<1>8. /\ Plus(p[source[t]], Weight[e]) <= Plus(d, Weight[e])
      /\ Plus(p[source[t]], Weight[e]) \in Distances
      /\ Plus(d, Weight[e]) \in Distances
  BY <1>2, <1>4, <1>5, <1>6, PlusMonotone, PlusType
<1>9. p[Destination[e]] <= candidate[t]
  BY <1>2, <1>3, <1>6, <1>7, <1>8 DEF Distances
<1>10. QED
  BY <1>9 DEF e

LEMMA LowerBoundNext == LowerBoundInv /\ [Next]_vars => LowerBoundInv'
<1> SUFFICES ASSUME LowerBoundInv, [Next]_vars PROVE LowerBoundInv'
  OBVIOUS
<1>0. TypeInv /\ TypeInv' /\ CandidateSound
  BY TypeNext DEF LowerBoundInv
<1>a. TypeOK /\ LocalTypes
  BY <1>0, TypeParts DEF TypeInv
<1>b. ASSUME UNCHANGED distance_bits
      PROVE  \A v \in Vertices : distance_bits'[v] <= distance_bits[v]
  <2>1. \A v \in Vertices : distance_bits[v] \in Int
    BY <1>a DEF TypeOK, Distances
  <2>2. QED
    BY <1>b, <2>1
<1>1. CASE UNCHANGED vars
  BY <1>0, <1>1 DEF LowerBoundInv, ResetBySynced, CandidateSound,
                    AbovePotentials, vars, workspaceVars, localVars
<1>2. ASSUME NEW t \in Threads, InitializeVertices(t) PROVE LowerBoundInv'
  <2>1. stage' = "initialize" /\ pc' = [pc EXCEPT ![t] = "sync"]
    BY <1>2 DEF InitializeVertices
  <2>2. ResetBySynced'
    <3>1. ASSUME NEW v \in Vertices, pc'[v % ThreadCount] = "sync"
          PROVE  /\ distance_bits'[v] = InitialDistance[v]
                 /\ enqueue_generation'[v] = 0
      <4>1. CASE v % ThreadCount = t
        BY <1>2, <4>1 DEF InitializeVertices
      <4>2. CASE v % ThreadCount # t
        <5>1. pc[v % ThreadCount] = "sync"
          BY <1>a, <2>1, <3>1, <4>2, ThreadOf DEF LocalTypes
        <5>2. distance_bits[v] = InitialDistance[v] /\ enqueue_generation[v] = 0
          BY <1>2, <5>1 DEF LowerBoundInv, ResetBySynced, InitializeVertices
        <5>3. QED
          BY <1>2, <4>2, <5>2 DEF InitializeVertices
      <4>3. QED
        BY <4>1, <4>2
    <3>2. QED
      BY <3>1 DEF ResetBySynced
  <2>3. \A s \in Threads : pc'[s] \in {"enter", "sync"}
    <3>1. stage' # "round"
      BY <2>1
    <3>2. QED
      BY <1>0, <3>1 DEF TypeInv, InsideRound, Inside
  <2>4. CandidateSound'
    BY <2>3 DEF CandidateSound
  <2>5. AbovePotentials'
    BY <2>1 DEF AbovePotentials
  <2>6. QED
    BY <1>0, <2>2, <2>4, <2>5 DEF LowerBoundInv
<1>3. ASSUME NEW t \in Threads,
             \/ EnterRound(t) \/ FetchSource(t) \/ FinishShare(t) \/ FinishRow(t)
             \/ MarkGeneration(t) \/ ClaimPosition(t) \/ PublishLane(t)
             \/ StoreEntry(t)
      PROVE  LowerBoundInv'
  <2>1. UNCHANGED <<distance_bits, stage>> /\ stage = "round"
    BY <1>3 DEF EnterRound, FetchSource, FinishShare, FinishRow,
         MarkGeneration, ClaimPosition, PublishLane, StoreEntry, AtOperation,
         workspaceVars, LeaveEdge
  <2>2. \A s \in Threads \ {t} :
           /\ pc'[s] = pc[s] /\ edge'[s] = edge[s] /\ source'[s] = source[s]
           /\ candidate'[s] = candidate[s] /\ observed'[s] = observed[s]
    BY <1>3, <1>a DEF EnterRound, FetchSource, FinishShare, FinishRow,
         MarkGeneration, ClaimPosition, PublishLane, StoreEntry, LeaveEdge,
         LeaveQueueEntry, Goto, LocalTypes, localVars
  <2>3. pc'[t] \notin {"load", "cas"}
    BY <1>3, <1>a DEF EnterRound, FetchSource, FinishShare, FinishRow,
         MarkGeneration, ClaimPosition, PublishLane, StoreEntry, LeaveEdge,
         LeaveQueueEntry, Goto, LocalTypes
  <2>4. CandidateSound'
    BY <1>0, <1>b, <2>1, <2>2, <2>3, CandidatesStaySound
  <2>5. QED
    BY <1>0, <2>1, <2>4 DEF LowerBoundInv, ResetBySynced, AbovePotentials
<1>4. ASSUME NEW t \in Threads, LoadSource(t) PROVE LowerBoundInv'
  <2>1. UNCHANGED <<distance_bits, stage>> /\ stage = "round"
    BY <1>4 DEF LoadSource, AtOperation, workspaceVars
  <2>2. \A s \in Threads \ {t} :
           /\ pc'[s] = pc[s] /\ edge'[s] = edge[s] /\ source'[s] = source[s]
           /\ candidate'[s] = candidate[s] /\ observed'[s] = observed[s]
    BY <1>4, <1>a DEF LoadSource, Goto, LocalTypes
  <2>3. /\ pc'[t] = "load"
        /\ candidate'[t] = Plus(distance_bits[source[t]], Weight[edge'[t]])
        /\ source'[t] = source[t]
    BY <1>4, <1>a DEF LoadSource, Goto, LocalTypes
  <2>4. candidate'[t] \in Int
    BY <1>0 DEF TypeInv, TypeOK, Distances
  <2>5. CandidateSound'
    BY <1>0, <1>b, <2>1, <2>2, <2>3, <2>4, CandidatesStaySound
  <2>6. QED
    BY <1>0, <2>1, <2>5 DEF LowerBoundInv, ResetBySynced, AbovePotentials
<1>5. ASSUME NEW t \in Threads, LoadDestination(t) PROVE LowerBoundInv'
  <2>1. UNCHANGED <<distance_bits, stage, edge, source>> /\ stage = "round" /\ pc[t] = "load"
    BY <1>5 DEF LoadDestination, AtOperation, workspaceVars
  <2>2. \A s \in Threads \ {t} :
           /\ pc'[s] = pc[s] /\ edge'[s] = edge[s] /\ source'[s] = source[s]
           /\ candidate'[s] = candidate[s] /\ observed'[s] = observed[s]
    BY <1>5, <1>a DEF LoadDestination, LeaveEdge, Goto, LocalTypes
  <2>3. pc'[t] \in {"load", "cas"} =>
          candidate'[t] = candidate[t] /\ candidate[t] < observed'[t]
    BY <1>5, <1>a DEF LoadDestination, LeaveEdge, Goto, LocalTypes
  <2>4. Plus(distance_bits[source[t]], Weight[edge[t]]) <= candidate[t]
    BY <1>0, <2>1 DEF CandidateSound
  <2>5. CandidateSound'
    BY <1>0, <1>b, <2>1, <2>2, <2>3, <2>4, CandidatesStaySound
  <2>6. QED
    BY <1>0, <2>1, <2>5 DEF LowerBoundInv, ResetBySynced, AbovePotentials
<1>6. ASSUME NEW t \in Threads, CompareAndSwap(t) PROVE LowerBoundInv'
  <2> DEFINE v == Destination[edge[t]]
  <2>1. UNCHANGED <<stage, edge, source>> /\ stage = "round" /\ pc[t] = "cas"
    BY <1>6 DEF CompareAndSwap, AtOperation
  <2>2. \A s \in Threads \ {t} :
           /\ pc'[s] = pc[s] /\ edge'[s] = edge[s] /\ source'[s] = source[s]
           /\ candidate'[s] = candidate[s] /\ observed'[s] = observed[s]
    BY <1>6, <1>a DEF CompareAndSwap, LeaveEdge, Goto, LocalTypes
  <2>3. v \in Vertices /\ distance_bits[v] \in Distances
          /\ candidate[t] \in Distances /\ observed[t] \in Distances
    BY <1>0, <1>a, <2>1, EdgeType
    DEF TypeInv, TypeOK, OnEdge, Admitted
  <2>4. Plus(distance_bits[source[t]], Weight[edge[t]]) <= candidate[t]
          /\ candidate[t] < observed[t]
    BY <1>0, <2>1 DEF CandidateSound
  <2>5. CASE distance_bits[v] = observed[t]
    <3>1. distance_bits' = [distance_bits EXCEPT ![v] = candidate[t]]
            /\ Goto(t, "mark")
      BY <1>6, <2>5 DEF CompareAndSwap
    <3>2. pc'[t] = "mark"
      BY <1>a, <3>1 DEF Goto, LocalTypes
    <3>3. \A w \in Vertices : /\ distance_bits[w] \in Int
                              /\ distance_bits'[w] = IF w = v THEN candidate[t]
                                                     ELSE distance_bits[w]
      BY <1>a, <2>3, <3>1 DEF TypeOK, Distances
    <3>4. \A w \in Vertices : distance_bits'[w] <= distance_bits[w]
      BY <2>3, <2>4, <2>5, <3>3 DEF Distances
    <3>5. CandidateSound'
      BY <1>0, <2>2, <3>2, <3>4, CandidatesStaySound
    <3>6. AbovePotentials'
      <4>1. ASSUME NEW p \in Potentials, NEW w \in Vertices
            PROVE  p[w] <= distance_bits'[w]
        <5>1. p[w] <= distance_bits[w]
          BY <2>1 DEF LowerBoundInv, AbovePotentials
        <5>2. p[v] <= candidate[t]
          BY <2>1, CandidateAbove
        <5>3. QED
          BY <3>3, <5>1, <5>2
      <4>2. QED
        BY <4>1 DEF AbovePotentials
    <3>7. QED
      BY <1>0, <2>1, <3>5, <3>6 DEF LowerBoundInv, ResetBySynced
  <2>6. CASE distance_bits[v] # observed[t]
    <3>1. UNCHANGED distance_bits
      BY <1>6, <2>6 DEF CompareAndSwap
    <3>2. pc'[t] \in {"load", "cas"} =>
            candidate'[t] = candidate[t] /\ candidate[t] < observed'[t]
      BY <1>6, <1>a, <2>6 DEF CompareAndSwap, LeaveEdge, Goto, LocalTypes
    <3>3. CandidateSound'
      BY <1>0, <1>b, <2>1, <2>2, <2>4, <3>1, <3>2, CandidatesStaySound
    <3>4. QED
      BY <1>0, <2>1, <3>1, <3>3
      DEF LowerBoundInv, ResetBySynced, AbovePotentials
  <2>7. QED
    BY <2>5, <2>6
<1>7. ASSUME FinishInitialize PROVE LowerBoundInv'
  <2>1. distance_bits' = InitialDistance
    <3>1. \A v \in Vertices : distance_bits[v] = InitialDistance[v]
      BY <1>7, ThreadOf DEF FinishInitialize, LowerBoundInv, ResetBySynced
    <3>2. distance_bits = InitialDistance
      BY <1>a, <3>1, InitialDistanceType DEF TypeOK
    <3>3. QED
      BY <1>7, <3>2 DEF FinishInitialize, workspaceVars
  <2>2. AbovePotentials'
    <3>1. ASSUME NEW p \in Potentials, NEW v \in Vertices
          PROVE  p[v] <= InitialDistance[v]
      <4>1. p[v] \in Distances
        BY DEF Potentials
      <4>2. CASE v \in Sources
        BY <4>2, GraphAssumption DEF Potentials, InitialDistance
      <4>3. CASE v \notin Sources
        BY <4>1, <4>3, GraphAssumption DEF InitialDistance, Distances
      <4>4. QED
        BY <4>2, <4>3
    <3>2. QED
      BY <2>1, <3>1 DEF AbovePotentials
  <2>3. stage' = "round" /\ \A t \in Threads : pc'[t] = "enter"
    BY <1>7 DEF FinishInitialize
  <2>4. QED
    BY <1>0, <2>2, <2>3 DEF LowerBoundInv, ResetBySynced, CandidateSound
<1>8. ASSUME AdvanceController \/ HostPoll \/ Finalize PROVE LowerBoundInv'
  <2>1. UNCHANGED distance_bits /\ stage # "initialize" /\ stage' # "initialize"
    BY <1>8 DEF AdvanceController, HostPoll, Finalize, workspaceVars
  <2>2. \A t \in Threads : pc'[t] \in {"enter", "sync"}
    <3>1. CASE AdvanceController
      BY <3>1 DEF AdvanceController
    <3>2. CASE HostPoll \/ Finalize
      BY <1>0, <3>2 DEF HostPoll, Finalize, TypeInv, InsideRound, Inside
    <3>3. QED
      BY <1>8, <3>1, <3>2
  <2>3. CandidateSound'
    BY <2>2 DEF CandidateSound
  <2>4. QED
    BY <1>0, <2>1, <2>3 DEF LowerBoundInv, ResetBySynced, AbovePotentials
<1>9. QED
  BY <1>1, <1>2, <1>3, <1>4, <1>5, <1>6, <1>7, <1>8
  DEF Next, ThreadStep, GridStep, Terminated

\* Whatever the grid size, the interleaving of loads and compare-and-swaps and
\* the control mode, no distance falls below the shortest one.
THEOREM NeverBelow == Spec => []NeverBelowShortest
<1>1. Spec => []LowerBoundInv
  BY LowerBoundInit, LowerBoundNext, PTL DEF Spec
<1>2. LowerBoundInv => NeverBelowShortest
  BY ReferenceIsShortest
  DEF LowerBoundInv, AbovePotentials, NeverBelowShortest, IsShortest
<1>3. QED
  BY <1>1, <1>2, PTL

-----------------------------------------------------------------------------
(***************************************************************************)
(* What every controller of a run has in common, what a running one has,   *)
(* and what a finished one has.                                            *)
(***************************************************************************)
CommonSound(c) ==
  /\ c.valid_lane_mask = {0}
  /\ c.changed_lane_mask = {}
  /\ c.engine_kind = "frontier_push"
  /\ c.distance_read_slot = 0 /\ c.distance_write_slot = 0
  /\ c.maximum_rounds # 0
  /\ c.frontier_read_slot # c.frontier_write_slot

RunningSound(c) ==
  /\ c.active_lane_mask = {0} /\ c.execute_lane_mask = {0}
  /\ c.converged_lane_mask = {}
  /\ c.stop_reason = "none"
  /\ c.error_bits \subseteq {"queue_overflow"}
  /\ c.rounds_completed < c.maximum_rounds

FinishedSound(c) ==
  /\ c.execute_lane_mask = {}
  /\ c.stop_reason # "none"
  /\ c.error_bits = ExpectedErrorBits(c.stop_reason)
  /\ c.active_lane_mask \intersect c.converged_lane_mask = {}
  /\ c.stop_reason = "converged" =>
       c.active_lane_mask = {} /\ c.converged_lane_mask = {0}

SoundControl(c) ==
  /\ CommonSound(c)
  /\ ~c.done => RunningSound(c)
  /\ c.done  => FinishedSound(c)

LEMMA FreshSound ==
  ASSUME NEW options, OptionsOK(options)
  PROVE  LET c == FreshController(options)
         IN /\ SoundControl(c)
            /\ ~c.done
            /\ c.error_bits = {}
            /\ c.next_frontier_lane_mask = {}
            /\ c.rounds_completed = 0
            /\ c.frontier_read_slot = 0 /\ c.frontier_write_slot = 1
            /\ c.frontier_size[0] = Len(SourceList)
            /\ c.frontier_size[1] = 0
<1>1. options.engine = "frontier_push" /\ options.maximum_rounds \in Nat \ {0}
  BY DEF OptionsOK
<1>2. StandaloneLane = {0} /\ 0 \in Slots /\ 1 \in Slots /\ 0 # 1
  BY DEF StandaloneLane, Slots
<1> DEFINE c == FreshController(options)
<1>3. CommonSound(c)
  BY <1>1, <1>2 DEF FreshController, InitializeDeviceController, CommonSound
<1>4. RunningSound(c) /\ ~c.done
  BY <1>1, <1>2 DEF FreshController, InitializeDeviceController, RunningSound
<1>5. /\ c.error_bits = {}
      /\ c.next_frontier_lane_mask = {}
      /\ c.rounds_completed = 0
      /\ c.frontier_read_slot = 0 /\ c.frontier_write_slot = 1
      /\ c.frontier_size = [slot \in Slots |->
                              IF slot = 0 THEN Len(SourceList) ELSE 0]
  BY <1>1 DEF FreshController, InitializeDeviceController
<1> HIDE DEF c
<1>6. SoundControl(c) /\ c.frontier_size[0] = Len(SourceList)
        /\ c.frontier_size[1] = 0
  BY <1>2, <1>3, <1>4, <1>5 DEF SoundControl
<1>7. QED
  BY <1>4, <1>5, <1>6 DEF c

\* An error ends the run.
LEMMA CanonicalSound ==
  ASSUME NEW c \in DeviceControllers, CommonSound(c), NEW reason \in ErrorReasons
  PROVE  LET d == CanonicalizeFrontierError(c, reason)
         IN SoundControl(d) /\ d.done /\ d.stop_reason = reason
<1> DEFINE d == CanonicalizeFrontierError(c, reason)
<1>1. reason # "none" /\ reason # "converged"
        /\ ExpectedErrorBits(reason) = {reason}
  BY DEF ErrorReasons, ExpectedErrorBits
<1>2. 1 - c.frontier_read_slot # c.frontier_read_slot
  BY DEF DeviceControllers, Slots
<1>3. /\ d.valid_lane_mask = {0}
      /\ d.changed_lane_mask = {}
      /\ d.engine_kind = "frontier_push"
      /\ d.distance_read_slot = 0 /\ d.distance_write_slot = 0
      /\ d.maximum_rounds # 0
      /\ d.frontier_read_slot # d.frontier_write_slot
  BY <1>2 DEF CanonicalizeFrontierError, CommonSound
<1>4. /\ d.done
      /\ d.execute_lane_mask = {} /\ d.active_lane_mask = {}
      /\ d.stop_reason = reason
      /\ d.error_bits = {reason}
  BY DEF CanonicalizeFrontierError
<1> HIDE DEF d
<1>5. SoundControl(d)
  BY <1>1, <1>3, <1>4 DEF SoundControl, CommonSound, FinishedSound
<1>6. QED
  BY <1>4, <1>5 DEF d

\* Counting the round and exchanging the queues keeps what all controllers
\* share.
LEMMA SwapSound ==
  ASSUME NEW c \in DeviceControllers, CommonSound(c)
  PROVE  LET s == SwapFrontiers(c)
         IN /\ s \in DeviceControllers
            /\ CommonSound(s)
            /\ s.rounds_completed = c.rounds_completed + 1
            /\ s.frontier_read_slot = c.frontier_write_slot
            /\ s.frontier_write_slot = c.frontier_read_slot
            /\ s.frontier_size = [c.frontier_size EXCEPT
                                    ![c.frontier_read_slot] = 0]
            /\ s.next_frontier_lane_mask = {}
            /\ s.done = c.done
            /\ s.stop_reason = c.stop_reason
            /\ s.error_bits = c.error_bits
            /\ s.converged_lane_mask = c.converged_lane_mask
            /\ s.active_lane_mask = c.active_lane_mask
            /\ s.maximum_rounds = c.maximum_rounds
<1> DEFINE sizes == [c.frontier_size EXCEPT ![c.frontier_read_slot] = 0]
           rounds == c.rounds_completed + 1
           s == SwapFrontiers(c)
<1>1. /\ rounds \in Nat
      /\ c.frontier_read_slot \in Slots
      /\ c.frontier_write_slot \in Slots
      /\ sizes \in [Slots -> Nat]
      /\ s = SwappedWith(c, rounds, c.frontier_write_slot,
                         c.frontier_read_slot, sizes)
  BY SwapIsSwappedWith
<1> HIDE DEF sizes, rounds, s
<1>2. /\ s \in DeviceControllers
      /\ s.rounds_completed = rounds
      /\ s.frontier_read_slot = c.frontier_write_slot
      /\ s.frontier_write_slot = c.frontier_read_slot
      /\ s.frontier_size = sizes
      /\ s.changed_lane_mask = {}
      /\ s.next_frontier_lane_mask = {}
      /\ s.valid_lane_mask = c.valid_lane_mask
      /\ s.active_lane_mask = c.active_lane_mask
      /\ s.converged_lane_mask = c.converged_lane_mask
      /\ s.engine_kind = c.engine_kind
      /\ s.maximum_rounds = c.maximum_rounds
      /\ s.distance_read_slot = c.distance_read_slot
      /\ s.distance_write_slot = c.distance_write_slot
      /\ s.done = c.done
      /\ s.stop_reason = c.stop_reason
      /\ s.error_bits = c.error_bits
  BY <1>1, SwappedWithFields, SMTT(30)
<1>3. CommonSound(s)
  BY <1>2 DEF CommonSound
<1>4. QED
  BY <1>2, <1>3 DEF s, sizes, rounds

\* The last step of advance_frontier_controller on a swapped controller.
LEMMA FinishSound ==
  ASSUME NEW s \in DeviceControllers, CommonSound(s), s.error_bits = {},
         s.converged_lane_mask = {}
  PROVE  /\ LET d == [s EXCEPT !.active_lane_mask    = {},
                               !.converged_lane_mask = {0},
                               !.execute_lane_mask   = {},
                               !.done                = TRUE,
                               !.stop_reason         = "converged"]
            IN SoundControl(d) /\ d.done /\ d.stop_reason = "converged"
         /\ LET d == [s EXCEPT !.execute_lane_mask = {},
                               !.done              = TRUE,
                               !.stop_reason       = "maximum_rounds"]
            IN SoundControl(d) /\ d.done /\ d.stop_reason = "maximum_rounds"
<1>1. ExpectedErrorBits("converged") = {}
        /\ ExpectedErrorBits("maximum_rounds") = {}
  BY DEF ExpectedErrorBits, ErrorReasons
<1>2. ASSUME NEW d, d = [s EXCEPT !.active_lane_mask    = {},
                                  !.converged_lane_mask = {0},
                                  !.execute_lane_mask   = {},
                                  !.done                = TRUE,
                                  !.stop_reason         = "converged"]
      PROVE  SoundControl(d) /\ d.done /\ d.stop_reason = "converged"
  <2>1. /\ d.active_lane_mask = {} /\ d.converged_lane_mask = {0}
        /\ d.execute_lane_mask = {} /\ d.done /\ d.stop_reason = "converged"
        /\ d.error_bits = {}
    BY <1>2 DEF DeviceControllers
  <2>2. CommonSound(d)
    BY <1>2 DEF DeviceControllers, CommonSound
  <2>3. QED
    BY <1>1, <2>1, <2>2 DEF SoundControl, FinishedSound
<1>3. ASSUME NEW d, d = [s EXCEPT !.execute_lane_mask = {},
                                  !.done              = TRUE,
                                  !.stop_reason       = "maximum_rounds"]
      PROVE  SoundControl(d) /\ d.done /\ d.stop_reason = "maximum_rounds"
  <2>1. /\ d.converged_lane_mask = {}
        /\ d.execute_lane_mask = {} /\ d.done /\ d.stop_reason = "maximum_rounds"
        /\ d.error_bits = {}
    BY <1>3 DEF DeviceControllers
  <2>2. CommonSound(d)
    BY <1>3 DEF DeviceControllers, CommonSound
  <2>3. QED
    BY <1>1, <2>1, <2>2 DEF SoundControl, FinishedSound
<1>4. QED
  BY <1>2, <1>3

LEMMA ContinueSound ==
  ASSUME NEW s \in DeviceControllers, CommonSound(s), ~s.done,
         s.error_bits = {}, s.converged_lane_mask = {},
         s.stop_reason = "none", s.rounds_completed < s.maximum_rounds,
         NEW d, d = [s EXCEPT !.active_lane_mask  = {0},
                              !.execute_lane_mask = {0}]
  PROVE  /\ SoundControl(d)
         /\ ~d.done
         /\ d.rounds_completed = s.rounds_completed
         /\ d.frontier_read_slot = s.frontier_read_slot
         /\ d.frontier_write_slot = s.frontier_write_slot
         /\ d.frontier_size = s.frontier_size
         /\ d.next_frontier_lane_mask = s.next_frontier_lane_mask
         /\ d.error_bits = {}
<1>1. /\ ~d.done
      /\ d.rounds_completed = s.rounds_completed
      /\ d.maximum_rounds = s.maximum_rounds
      /\ d.frontier_read_slot = s.frontier_read_slot
      /\ d.frontier_write_slot = s.frontier_write_slot
      /\ d.frontier_size = s.frontier_size
      /\ d.next_frontier_lane_mask = s.next_frontier_lane_mask
      /\ d.error_bits = {}
      /\ d.stop_reason = "none"
      /\ d.active_lane_mask = {0} /\ d.execute_lane_mask = {0}
      /\ d.converged_lane_mask = {}
  BY DEF DeviceControllers
<1>2. CommonSound(d)
  BY DEF DeviceControllers, CommonSound
<1>3. QED
  BY <1>1, <1>2 DEF SoundControl, RunningSound

\* What the transition between two rounds does to a running controller.
LEMMA AdvanceEffect ==
  ASSUME NEW c \in DeviceControllers, SoundControl(c), ~c.done
  PROVE  LET d == AdvanceFrontierController(c)
         IN /\ SoundControl(d)
            /\ d.stop_reason = "converged" =>
                 /\ c.error_bits = {}
                 /\ c.frontier_size[c.frontier_write_slot] = 0
            /\ ~d.done =>
                 /\ c.error_bits = {} /\ d.error_bits = {}
                 /\ c.frontier_size[c.frontier_write_slot] # 0
                 /\ d.rounds_completed = c.rounds_completed + 1
                 /\ d.frontier_read_slot = c.frontier_write_slot
                 /\ d.frontier_write_slot = c.frontier_read_slot
                 /\ d.frontier_size = [c.frontier_size EXCEPT
                                         ![c.frontier_read_slot] = 0]
                 /\ d.next_frontier_lane_mask = {}
<1> DEFINE d == AdvanceFrontierController(c)
           s == SwapFrontiers(c)
           valid == /\ FrontierRoundMayEnd(c)
                    /\ FrontierRoundErrorKnown(c)
                    /\ NextFrontierConsistent(c)
<1>1. CommonSound(c) /\ RunningSound(c)
  BY DEF SoundControl
<1>2. /\ s \in DeviceControllers
      /\ CommonSound(s)
      /\ s.rounds_completed = c.rounds_completed + 1
      /\ s.frontier_read_slot = c.frontier_write_slot
      /\ s.frontier_write_slot = c.frontier_read_slot
      /\ s.frontier_size = [c.frontier_size EXCEPT ![c.frontier_read_slot] = 0]
      /\ s.next_frontier_lane_mask = {}
      /\ s.done = c.done
      /\ s.stop_reason = c.stop_reason
      /\ s.error_bits = c.error_bits
      /\ s.converged_lane_mask = c.converged_lane_mask
      /\ s.maximum_rounds = c.maximum_rounds
  BY <1>1, SwapSound
<1>3. \A r \in ErrorReasons :
        /\ SoundControl(CanonicalizeFrontierError(c, r))
        /\ CanonicalizeFrontierError(c, r).done
        /\ CanonicalizeFrontierError(c, r).stop_reason = r
        /\ SoundControl(CanonicalizeFrontierError(s, r))
        /\ CanonicalizeFrontierError(s, r).done
        /\ CanonicalizeFrontierError(s, r).stop_reason = r
  <2> HIDE DEF s
  <2>1. QED
    BY <1>1, <1>2, CanonicalSound
<1>4. /\ "invalid_controller_state" \in ErrorReasons
      /\ "queue_overflow" \in ErrorReasons
      /\ "device_failure" \in ErrorReasons
      /\ "converged" \notin ErrorReasons
  BY DEF ErrorReasons
<1>5. c.valid_lane_mask = {0}
  BY <1>1 DEF CommonSound
<1> HIDE DEF s
<1>6. CASE ~valid
  <2>1. d = CanonicalizeFrontierError(c, "invalid_controller_state")
    BY <1>6 DEF AdvanceFrontierController
  <2>2. QED
    BY <1>3, <1>4, <2>1
<1>7. CASE valid /\ c.error_bits # {}
  <2>1. d = CanonicalizeFrontierError(s, "queue_overflow")
          \/ d = CanonicalizeFrontierError(s, "device_failure")
    BY <1>7 DEF AdvanceFrontierController, FrontierRoundErrorKnown, s
  <2>2. QED
    BY <1>3, <1>4, <2>1
<1>8. CASE valid /\ c.error_bits = {}
  <2>0. c.error_bits # {"queue_overflow"} /\ c.error_bits # {"device_failure"}
    BY <1>8
  <2>1. s.error_bits = {} /\ s.converged_lane_mask = {} /\ ~s.done
          /\ s.stop_reason = "none"
    BY <1>1, <1>2, <1>8 DEF RunningSound
  <2>2. CASE c.frontier_size[c.frontier_write_slot] = 0
    <3>1. d = [s EXCEPT !.active_lane_mask    = {},
                        !.converged_lane_mask = {0},
                        !.execute_lane_mask   = {},
                        !.done                = TRUE,
                        !.stop_reason         = "converged"]
      BY <1>5, <1>8, <2>0, <2>2 DEF AdvanceFrontierController, s
    <3> HIDE DEF d
    <3>2. SoundControl(d) /\ d.done /\ d.stop_reason = "converged"
      BY <1>2, <2>1, <3>1, FinishSound
    <3>3. QED
      BY <1>8, <2>2, <3>2 DEF d
  <2>3. CASE c.frontier_size[c.frontier_write_slot] # 0
               /\ s.rounds_completed = c.maximum_rounds
    <3>1. d = [s EXCEPT !.execute_lane_mask = {},
                        !.done              = TRUE,
                        !.stop_reason       = "maximum_rounds"]
      BY <1>8, <2>0, <2>3 DEF AdvanceFrontierController, s
    <3> HIDE DEF d
    <3>2. SoundControl(d) /\ d.done /\ d.stop_reason = "maximum_rounds"
      BY <1>2, <2>1, <3>1, FinishSound
    <3>3. QED
      BY <3>2 DEF d
  <2>4. CASE c.frontier_size[c.frontier_write_slot] # 0
               /\ s.rounds_completed # c.maximum_rounds
    <3>1. d = [s EXCEPT !.active_lane_mask  = {0},
                        !.execute_lane_mask = {0}]
      BY <1>5, <1>8, <2>0, <2>4 DEF AdvanceFrontierController, s
    <3>2. s.rounds_completed < s.maximum_rounds
      BY <1>1, <1>2, <2>4 DEF RunningSound, DeviceControllers
    <3> HIDE DEF d
    <3>3. /\ SoundControl(d)
          /\ ~d.done
          /\ d.rounds_completed = s.rounds_completed
          /\ d.frontier_read_slot = s.frontier_read_slot
          /\ d.frontier_write_slot = s.frontier_write_slot
          /\ d.frontier_size = s.frontier_size
          /\ d.next_frontier_lane_mask = s.next_frontier_lane_mask
          /\ d.error_bits = {}
      BY <1>2, <2>1, <3>1, <3>2, ContinueSound
    <3>4. d.stop_reason # "converged"
      BY <3>3 DEF SoundControl, RunningSound
    <3>5. QED
      BY <1>2, <1>8, <2>4, <3>3, <3>4 DEF d
  <2>5. QED
    BY <2>2, <2>3, <2>4
<1>9. QED
  BY <1>6, <1>7, <1>8

-----------------------------------------------------------------------------
(***************************************************************************)
(* The queues.  What follows holds while a round is executed.              *)
(***************************************************************************)
Running == stage \in {"round", "poll"} /\ ~controller.done

NextSize   == controller.frontier_size[WriteSlot]
Overflowed == "queue_overflow" \in controller.error_bits

\* The vertex a thread has lowered or is about to lower.
Endpoint(t) == Destination[edge[t]]

\* The thread is to queue the vertex it has lowered; it has claimed a position.
Holds(t)  == pc[t] \in {"claim", "publish", "store"}
Placed(t) == pc[t] \in {"publish", "store"}

\* The position of the next queue has its entry.
Stored(i) ==
  /\ i \in Positions /\ i < NextSize
  /\ \A t \in Threads : Placed(t) => claim[t] # i

ControlInv ==
  /\ SoundControl(controller)
  /\ stage \in {"finalize", "exit"} => controller.done

\* Until the barrier: what the threads that have passed initialization did.
SeedInv ==
  /\ stage = "initialize" =>
       /\ IF pc[0] = "sync"
            THEN /\ controller = SeededController
                 /\ frontiers[0] = SeededFrontier
            ELSE controller = FreshController(run_options)
       /\ \A e \in Edges : pc[Source[e] % ThreadCount] = "sync" =>
            (e \in run_lane_masks <=> e \in Admitted)
  /\ stage # "initialize" =>
       /\ run_lane_masks = Admitted
       /\ \A v \in Sources : distance_bits[v] = 0
  /\ stage = "exit" => status = CompletedFrontierStatus(Targets)

\* The queue being executed.
CurrentInv ==
  Running =>
    /\ CurrentSize \in 1 .. QueueCapacity
    /\ \A i, j \in 0 .. CurrentSize - 1 :
         i # j => frontiers[ReadSlot][i] # frontiers[ReadSlot][j]
    /\ \A i \in 0 .. CurrentSize - 1 :
         LET v == frontiers[ReadSlot][i]
         IN /\ v \in Vertices
            /\ InSelectedTile(v)
            /\ distance_bits[v] # Infinity
            /\ controller.rounds_completed # 0 =>
                 enqueue_generation[v] \in {controller.rounds_completed, Generation}

\* The queue being filled.  A vertex is marked with the generation of the
\* round by the one thread that queues it.
MarkInv ==
  \A v \in Vertices :
    /\ enqueue_generation[v] <= Generation
    /\ enqueue_generation[v] = Generation =>
         \/ Overflowed
         \/ \E t \in Threads : Holds(t) /\ Endpoint(t) = v
         \/ \E i \in Positions : Stored(i) /\ frontiers[WriteSlot][i] = v

HolderInv ==
  /\ \A t \in Threads : Holds(t) \/ pc[t] = "mark" => distance_bits[Endpoint(t)] # Infinity
  /\ \A t \in Threads : Holds(t) => enqueue_generation[Endpoint(t)] = Generation
  /\ \A s, t \in Threads : Holds(s) /\ Holds(t) /\ s # t => Endpoint(s) # Endpoint(t)
  /\ \A t \in Threads : Placed(t) => claim[t] < NextSize
  /\ \A s, t \in Threads : Placed(s) /\ Placed(t) /\ s # t => claim[s] # claim[t]

EntryInv ==
  \A i \in Positions : Stored(i) =>
    LET v == frontiers[WriteSlot][i]
    IN /\ InSelectedTile(v) /\ distance_bits[v] # Infinity
       /\ enqueue_generation[v] = Generation
       /\ \A t \in Threads : Holds(t) => Endpoint(t) # v
       /\ \A j \in Positions : Stored(j) /\ j # i => frontiers[WriteSlot][j] # v

SizeInv ==
  /\ (\A t \in Threads : pc[t] = "enter") =>
       NextSize = 0 /\ controller.error_bits = {}
  /\ ~Overflowed =>
       \A i \in 0 .. NextSize - 1 :
         i \in Positions \/ \E t \in Threads : Placed(t) /\ claim[t] = i
  /\ controller.next_frontier_lane_mask # {} => NextSize # 0
  /\ controller.next_frontier_lane_mask = {} =>
       /\ \A t \in Threads : pc[t] # "store"
       /\ \A i \in 0 .. NextSize - 1 :
            \E t \in Threads : pc[t] = "publish" /\ claim[t] = i

NextInv == Running => MarkInv /\ HolderInv /\ EntryInv /\ SizeInv

\* The share of the queue a thread works through, and where it stands.
ShareInv ==
  Running =>
    \A t \in Threads :
      /\ Inside(t) => queue_index[t] % ThreadCount = t
      /\ Inside(t) /\ pc[t] # "fetch" =>
           /\ queue_index[t] < CurrentSize
           /\ source[t] = frontiers[ReadSlot][queue_index[t]]

\* The edge is tried again in a later round, is still ahead of the thread that
\* has its source in its share, or is being tried with the source's distance.
Lowered(v) ==
  \/ enqueue_generation[v] = Generation
  \/ \E t \in Threads : pc[t] = "mark" /\ Endpoint(t) = v

AheadOf(t, i, e) ==
  /\ i % ThreadCount = t
  /\ \/ pc[t] = "enter"
     \/ Inside(t) /\ queue_index[t] < i
     \/ Inside(t) /\ queue_index[t] = i /\ (pc[t] = "fetch" \/ edge[t] < e)

Ahead(e) ==
  \E i \in 0 .. CurrentSize - 1, t \in Threads :
    frontiers[ReadSlot][i] = Source[e] /\ AheadOf(t, i, e)

Trying(t, e) ==
  /\ pc[t] \in {"load", "cas"} /\ edge[t] = e
  /\ candidate[t] = Plus(distance_bits[Source[e]], Weight[e])

Underway(e) == \E t \in Threads : Trying(t, e)

ProgressInv ==
  /\ Running =>
       \A e \in Admitted : \/ Relaxed(distance_bits, e) \/ Lowered(Source[e])
                           \/ Ahead(e) \/ Underway(e)
  /\ stage # "initialize" /\ controller.stop_reason = "converged" =>
       \A e \in Admitted : Relaxed(distance_bits, e)

QueueInv ==
  ControlInv /\ SeedInv /\ CurrentInv /\ NextInv /\ ShareInv /\ ProgressInv

-----------------------------------------------------------------------------
(***************************************************************************)
(* One step of one thread in a round.                                      *)
(***************************************************************************)
RoundStep(t) ==
  \/ EnterRound(t) \/ FetchSource(t) \/ FinishShare(t)
  \/ LoadSource(t) \/ FinishRow(t)
  \/ LoadDestination(t) \/ CompareAndSwap(t)
  \/ MarkGeneration(t) \/ ClaimPosition(t) \/ PublishLane(t) \/ StoreEntry(t)

Steady == LowerBoundInv /\ LowerBoundInv' /\ QueueInv

OthersKept(t) ==
  \A s \in Threads \ {t} :
    /\ pc'[s] = pc[s] /\ queue_index'[s] = queue_index[s]
    /\ source'[s] = source[s] /\ edge'[s] = edge[s]
    /\ candidate'[s] = candidate[s] /\ claim'[s] = claim[s]

LEMMA OnlyItself ==
  ASSUME TypeOK, NEW t \in Threads, RoundStep(t)
  PROVE  /\ OthersKept(t)
         /\ stage = "round"
         /\ UNCHANGED <<stage, run_lane_masks, hostVars>>
<1>1. LocalTypes
  BY TypeParts
<1>2. OthersKept(t)
  BY <1>1 DEF RoundStep, OthersKept, EnterRound, FetchSource, FinishShare, LoadSource,
      FinishRow, LoadDestination, CompareAndSwap, MarkGeneration,
      ClaimPosition, PublishLane, StoreEntry, LeaveEdge, LeaveQueueEntry,
      Goto, LocalTypes, localVars
<1>3. stage = "round" /\ UNCHANGED <<stage, run_lane_masks, hostVars>>
  BY DEF RoundStep, EnterRound, FetchSource, FinishShare, LoadSource,
      FinishRow, LoadDestination, CompareAndSwap, MarkGeneration,
      ClaimPosition, PublishLane, StoreEntry, AtOperation, workspaceVars
<1>4. QED
  BY <1>2, <1>3

\* A controller that is not done lets its round execute.
LEMMA RunningRound ==
  ASSUME QueueInv, Running
  PROVE  /\ Execute /\ ValidRound
         /\ controller.stop_reason = "none"
         /\ RunningSound(controller) /\ CommonSound(controller)
         /\ ReadSlot # WriteSlot
BY DEF QueueInv, Running, ControlInv, CurrentInv, SoundControl, RunningSound,
       CommonSound, Execute, ValidRound, ReadSlot, WriteSlot

\* What the threads share changes in one of five ways, and with it the thread
\* takes the step of that name.
LEMMA SharedEffect ==
  ASSUME Steady, Running, NEW t \in Threads, RoundStep(t)
  PROVE  \/ UNCHANGED <<distance_bits, enqueue_generation, frontiers, controller>>
         \/ CompareAndSwap(t)
              /\ UNCHANGED <<enqueue_generation, frontiers, controller>>
         \/ MarkGeneration(t) /\ UNCHANGED <<distance_bits, frontiers, controller>>
         \/ (ClaimPosition(t) \/ PublishLane(t))
              /\ UNCHANGED <<distance_bits, enqueue_generation, frontiers>>
         \/ StoreEntry(t) /\ UNCHANGED <<distance_bits, enqueue_generation>>
<1>1. Execute /\ ValidRound
  BY RunningRound DEF Steady
<1>2. ASSUME FetchSource(t) PROVE UNCHANGED controller
  <2>1. CurrentSize \in 1 .. QueueCapacity /\ queue_index[t] < CurrentSize
          /\ queue_index[t] \in Nat
    BY <1>1, <1>2 DEF ValidRound, FetchSource, Steady, LowerBoundInv, TypeInv,
                      TypeOK
  <2>2. queue_index[t] \in 0 .. CurrentSize - 1
    BY <2>1, EngineAssumption, GraphAssumption
  <2>3. InSelectedTile(frontiers[ReadSlot][queue_index[t]])
    BY <2>2 DEF Steady, QueueInv, CurrentInv
  <2>4. QED
    BY <1>2, <2>3 DEF FetchSource
<1>3. CASE EnterRound(t)
  BY <1>1, <1>3 DEF EnterRound, workspaceVars
<1>4. CASE FetchSource(t)
  BY <1>2, <1>4 DEF FetchSource, workspaceVars
<1>5. CASE FinishShare(t) \/ LoadSource(t) \/ FinishRow(t) \/ LoadDestination(t)
  BY <1>5 DEF FinishShare, LoadSource, FinishRow, LoadDestination, workspaceVars
<1>6. CASE CompareAndSwap(t)
  BY <1>6 DEF CompareAndSwap
<1>7. CASE MarkGeneration(t)
  BY <1>7 DEF MarkGeneration
<1>8. CASE ClaimPosition(t) \/ PublishLane(t)
  BY <1>8 DEF ClaimPosition, PublishLane, workspaceVars
<1>9. CASE StoreEntry(t)
  BY <1>9 DEF StoreEntry
<1>10. QED
  BY <1>3, <1>4, <1>5, <1>6, <1>7, <1>8, <1>9 DEF RoundStep

\* A successful compare-and-swap lowers one distance, to a finite value.
LEMMA SwapLowers ==
  ASSUME LowerBoundInv, NEW t \in Threads, CompareAndSwap(t),
         distance_bits[Endpoint(t)] = observed[t]
  PROVE  /\ edge[t] \in Admitted /\ Source[edge[t]] = source[t]
         /\ Endpoint(t) \in Vertices
         /\ distance_bits' = [distance_bits EXCEPT ![Endpoint(t)] = candidate[t]]
         /\ candidate[t] \in Distances
         /\ candidate[t] < distance_bits[Endpoint(t)]
         /\ candidate[t] # Infinity
         /\ pc'[t] = "mark"
         /\ UNCHANGED <<edge, candidate>>
<1>1. pc[t] = "cas"
  BY DEF CompareAndSwap, AtOperation
<1>2. edge[t] \in Admitted /\ Source[edge[t]] = source[t] /\ Endpoint(t) \in Vertices
  BY <1>1, EdgeType DEF LowerBoundInv, TypeInv, OnEdge, Admitted, Endpoint
<1>3. distance_bits' = [distance_bits EXCEPT ![Endpoint(t)] = candidate[t]]
        /\ Goto(t, "mark") /\ UNCHANGED <<edge, candidate>>
  BY DEF CompareAndSwap, Endpoint
<1>4. candidate[t] \in Distances /\ observed[t] \in Distances
        /\ candidate[t] < observed[t]
  BY <1>1 DEF LowerBoundInv, TypeInv, TypeOK, CandidateSound
<1>5. pc'[t] = "mark"
  BY <1>3 DEF Goto, LowerBoundInv, TypeInv, TypeOK
<1>6. candidate[t] # Infinity
  BY <1>4, GraphAssumption DEF Distances
<1>7. QED
  BY <1>2, <1>3, <1>4, <1>5, <1>6

LEMMA DistancesFall ==
  ASSUME Steady, Running, NEW t \in Threads, RoundStep(t)
  PROVE  \A v \in Vertices : /\ distance_bits[v] \in Int
                             /\ distance_bits'[v] \in Distances
                             /\ distance_bits'[v] <= distance_bits[v]
<1>1. distance_bits \in [Vertices -> Distances]
        /\ distance_bits' \in [Vertices -> Distances]
  BY DEF Steady, LowerBoundInv, TypeInv, TypeOK
<1>2. \A v \in Vertices : distance_bits[v] \in Int
  BY <1>1 DEF Distances
<1>3. CASE UNCHANGED distance_bits
  BY <1>1, <1>2, <1>3
<1>4. CASE ~UNCHANGED distance_bits
  <2>1. CompareAndSwap(t)
    BY <1>4, SharedEffect
  <2>2. distance_bits[Endpoint(t)] = observed[t]
    BY <1>4, <2>1 DEF CompareAndSwap, Endpoint
  <2>3. /\ Endpoint(t) \in Vertices
        /\ distance_bits' = [distance_bits EXCEPT ![Endpoint(t)] = candidate[t]]
        /\ candidate[t] < distance_bits[Endpoint(t)]
        /\ candidate[t] \in Distances
    BY <2>1, <2>2, SwapLowers DEF Steady
  <2> HIDE DEF Endpoint
  <2>4. \A v \in Vertices : distance_bits'[v] = IF v = Endpoint(t)
                              THEN candidate[t] ELSE distance_bits[v]
    BY <1>1, <2>3
  <2>5. candidate[t] \in Int
    BY <2>3 DEF Distances
  <2>6. QED
    BY <1>1, <1>2, <2>3, <2>4, <2>5
<1>5. QED
  BY <1>3, <1>4

LEMMA ControlKept ==
  ASSUME Steady, Running, NEW t \in Threads, RoundStep(t)
  PROVE  /\ SameControl(controller, controller')
         /\ controller'.error_bits \subseteq {"queue_overflow"}
         /\ controller.frontier_size \in [Slots -> Nat]
         /\ ReadSlot \in Slots /\ WriteSlot \in Slots /\ ReadSlot # WriteSlot
         /\ controller'.frontier_size[ReadSlot] = controller.frontier_size[ReadSlot]
<1>1. controller \in DeviceControllers /\ controller.error_bits \subseteq {"queue_overflow"}
        /\ ReadSlot # WriteSlot
  BY RunningRound DEF Steady, LowerBoundInv, TypeInv, TypeOK, RunningSound
<1>2. controller.frontier_size \in [Slots -> Nat] /\ ReadSlot \in Slots
        /\ WriteSlot \in Slots
  BY <1>1 DEF DeviceControllers, ReadSlot, WriteSlot
<1>3. "queue_overflow" \in ErrorReasons
  BY DEF ErrorReasons
<1>4. CASE UNCHANGED controller
  BY <1>1, <1>2, <1>4 DEF SameControl
<1>5. CASE ClaimPosition(t)
  <2>1. /\ SameControl(controller, controller')
        /\ controller'.error_bits = controller.error_bits
        /\ controller'.frontier_size = [controller.frontier_size EXCEPT
                                          ![WriteSlot] = @ + 1]
    BY <1>1, <1>5, ClaimEffect DEF ClaimPosition, WriteSlot
  <2>2. QED
    BY <1>1, <1>2, <2>1
<1>6. CASE PublishLane(t)
  BY <1>1, <1>2, <1>6, PublishEffect DEF PublishLane
<1>7. CASE StoreEntry(t)
  <2>1. CASE UNCHANGED controller
    BY <1>4, <2>1
  <2>2. CASE controller' = RaiseError("queue_overflow")
    <3>1. /\ SameControl(controller, controller')
          /\ controller'.error_bits = controller.error_bits \union {"queue_overflow"}
          /\ controller'.frontier_size = controller.frontier_size
      BY <1>1, <1>3, <2>2, RaiseErrorEffect DEF RaiseError
    <3>2. QED
      BY <1>1, <1>2, <3>1
  <2>3. QED
    BY <1>7, <2>1, <2>2 DEF StoreEntry
<1>8. QED
  BY <1>4, <1>5, <1>6, <1>7, SharedEffect

LEMMA QueueReadKept ==
  ASSUME Steady, Running, NEW t \in Threads, RoundStep(t)
  PROVE  frontiers'[ReadSlot] = frontiers[ReadSlot]
<1>1. CASE UNCHANGED frontiers
  BY <1>1
<1>2. CASE ~UNCHANGED frontiers
  <2>1. frontiers' = [frontiers EXCEPT ![WriteSlot][claim[t]] = Destination[edge[t]]]
    BY <1>2, SharedEffect DEF StoreEntry
  <2>2. ReadSlot \in Slots /\ ReadSlot # WriteSlot
    BY ControlKept
  <2>3. DOMAIN frontiers = Slots
    BY DEF Steady, LowerBoundInv, TypeInv, TypeOK
  <2>4. QED
    BY <2>1, <2>2, <2>3
<1>3. QED
  BY <1>1, <1>2

LEMMA MarksRise ==
  ASSUME Steady, Running, NEW t \in Threads, RoundStep(t)
  PROVE  \A v \in Vertices : enqueue_generation'[v] \in {enqueue_generation[v], Generation}
<1>1. CASE UNCHANGED enqueue_generation
  BY <1>1
<1>2. CASE ~UNCHANGED enqueue_generation
  <2>1. enqueue_generation' = [enqueue_generation EXCEPT
                                 ![Destination[edge[t]]] = Generation]
    BY <1>2, SharedEffect DEF MarkGeneration
  <2>2. DOMAIN enqueue_generation = Vertices
    BY DEF Steady, LowerBoundInv, TypeInv, TypeOK
  <2>3. QED
    BY <2>1, <2>2
<1>3. QED
  BY <1>1, <1>2

LEMMA RoundKept ==
  ASSUME Steady, Running, NEW t \in Threads, RoundStep(t)
  PROVE  /\ ReadSlot' = ReadSlot /\ WriteSlot' = WriteSlot
         /\ CurrentSize' = CurrentSize /\ Generation' = Generation
         /\ controller'.rounds_completed = controller.rounds_completed
         /\ controller'.stop_reason = "none"
         /\ Running'
         /\ ControlInv'
<1>1. /\ SameControl(controller, controller')
      /\ controller'.error_bits \subseteq {"queue_overflow"}
      /\ controller'.frontier_size[ReadSlot] = controller.frontier_size[ReadSlot]
  BY ControlKept
<1>2. RunningSound(controller) /\ CommonSound(controller) /\ ~controller.done
  BY RunningRound DEF Steady, Running
<1>3. stage' = "round"
  BY OnlyItself DEF Steady, LowerBoundInv, TypeInv
<1>4. ~controller'.done /\ controller'.stop_reason = "none"
  BY <1>1, <1>2 DEF SameControl, RunningSound
<1>5. SoundControl(controller')
  BY <1>1, <1>2, <1>4 DEF SameControl, SoundControl, RunningSound, CommonSound
<1>6. ReadSlot' = ReadSlot /\ WriteSlot' = WriteSlot
        /\ controller'.rounds_completed = controller.rounds_completed
  BY <1>1 DEF SameControl, ReadSlot, WriteSlot
<1>7. CurrentSize' = CurrentSize /\ Generation' = Generation
  BY <1>1, <1>6 DEF CurrentSize, Generation
<1>8. QED
  BY <1>3, <1>4, <1>5, <1>6, <1>7 DEF Running, ControlInv

LEMMA SeedKept ==
  ASSUME Steady, Running, NEW t \in Threads, RoundStep(t)
  PROVE  SeedInv'
<1>1. stage = "round" /\ stage' = "round" /\ run_lane_masks' = run_lane_masks
  BY OnlyItself DEF Steady, LowerBoundInv, TypeInv
<1>2. run_lane_masks = Admitted /\ \A v \in Sources : distance_bits[v] = 0
  BY <1>1 DEF Steady, QueueInv, SeedInv
<1>3. ASSUME NEW v \in Sources PROVE distance_bits'[v] = 0
  <2>1. v \in Vertices
    BY SourcesAreVertices
  <2>2. distance_bits'[v] \in 0 .. Infinity /\ distance_bits'[v] <= 0
    BY <1>2, <2>1, DistancesFall DEF Distances
  <2>3. QED
    BY <2>2, GraphAssumption
<1>4. QED
  BY <1>1, <1>2, <1>3 DEF SeedInv

LEMMA CurrentKept ==
  ASSUME Steady, Running, NEW t \in Threads, RoundStep(t)
  PROVE  CurrentInv'
<1>1. /\ ReadSlot' = ReadSlot /\ CurrentSize' = CurrentSize
      /\ Generation' = Generation
      /\ controller'.rounds_completed = controller.rounds_completed
  BY RoundKept
<1>2. frontiers'[ReadSlot] = frontiers[ReadSlot]
  BY QueueReadKept
<1>3. CurrentInv
  BY DEF Steady, QueueInv
<1>4. ASSUME NEW i \in 0 .. CurrentSize - 1
      PROVE  LET v == frontiers[ReadSlot][i]
             IN /\ v \in Vertices
                /\ InSelectedTile(v)
                /\ distance_bits'[v] # Infinity
                /\ controller.rounds_completed # 0 =>
                     enqueue_generation'[v] \in {controller.rounds_completed, Generation}
  <2> DEFINE v == frontiers[ReadSlot][i]
  <2>1. /\ v \in Vertices
        /\ InSelectedTile(v)
        /\ distance_bits[v] # Infinity
        /\ controller.rounds_completed # 0 =>
             enqueue_generation[v] \in {controller.rounds_completed, Generation}
    BY <1>3 DEF CurrentInv
  <2> HIDE DEF v
  <2>2. /\ distance_bits[v] \in Int
        /\ distance_bits'[v] \in Distances
        /\ distance_bits'[v] <= distance_bits[v]
    BY <2>1, DistancesFall
  <2>3. distance_bits[v] \in Distances
    BY <2>1 DEF Steady, LowerBoundInv, TypeInv, TypeOK
  <2>4. distance_bits'[v] # Infinity
    BY <2>1, <2>2, <2>3, GraphAssumption DEF Distances
  <2>5. enqueue_generation'[v] \in {enqueue_generation[v], Generation}
    BY <2>1, MarksRise
  <2>6. QED
    BY <2>1, <2>4, <2>5 DEF v
<1>5. /\ CurrentSize \in 1 .. QueueCapacity
      /\ \A i, j \in 0 .. CurrentSize - 1 :
           i # j => frontiers[ReadSlot][i] # frontiers[ReadSlot][j]
  BY <1>3 DEF CurrentInv
<1>6. QED
  BY <1>1, <1>2, <1>4, <1>5 DEF CurrentInv

LEMMA ShareKept ==
  ASSUME Steady, Running, NEW t \in Threads, RoundStep(t)
  PROVE  ShareInv'
<1>0. LocalTypes /\ TypeOK /\ LocalTypes'
  BY TypeParts DEF Steady, LowerBoundInv, TypeInv, TypeOK, LocalTypes
<1>1. ReadSlot' = ReadSlot /\ CurrentSize' = CurrentSize
        /\ frontiers'[ReadSlot] = frontiers[ReadSlot]
  BY RoundKept, QueueReadKept
<1>2. \A s \in Threads :
        /\ Inside(s) => queue_index[s] % ThreadCount = s
        /\ Inside(s) /\ pc[s] # "fetch" =>
             /\ queue_index[s] < CurrentSize
             /\ source[s] = frontiers[ReadSlot][queue_index[s]]
  BY DEF Steady, QueueInv, ShareInv
<1>3. Execute /\ ValidRound
  BY RunningRound DEF Steady
<1>4. ThreadCount \in Nat \ {0} /\ t \in 0 .. ThreadCount - 1
  BY EngineAssumption DEF Threads
<1>5. /\ Inside(t)' => queue_index'[t] % ThreadCount = t
      /\ Inside(t)' /\ pc'[t] # "fetch" =>
           /\ queue_index'[t] < CurrentSize
           /\ source'[t] = frontiers[ReadSlot][queue_index'[t]]
  <2>1. CASE EnterRound(t)
    <3>1. queue_index'[t] = t /\ pc'[t] = "fetch"
      BY <1>0, <1>3, <2>1 DEF EnterRound, Goto, LocalTypes
    <3>2. t % ThreadCount = t
      BY <1>4, ShareStarts
    <3>3. QED
      BY <3>1, <3>2
  <2>2. CASE FetchSource(t) /\ InSelectedTile(frontiers[ReadSlot][queue_index[t]])
    <3>1. /\ pc[t] = "fetch" /\ queue_index'[t] = queue_index[t]
          /\ queue_index[t] < CurrentSize
          /\ source'[t] = frontiers[ReadSlot][queue_index[t]]
      BY <1>0, <2>2 DEF FetchSource, AtOperation, LocalTypes
    <3>2. Inside(t)
      BY <3>1 DEF Inside
    <3>3. QED
      BY <1>2, <3>1, <3>2
  <2>3. CASE \/ FinishRow(t)
             \/ FetchSource(t) /\ ~InSelectedTile(frontiers[ReadSlot][queue_index[t]])
    <3>1. LeaveQueueEntry(t) /\ pc[t] \in {"edge", "fetch"}
      BY <2>3 DEF FinishRow, FetchSource, AtOperation
    <3>2. pc'[t] = "fetch" /\ queue_index'[t] = queue_index[t] + ThreadCount
      BY <1>0, <3>1 DEF LeaveQueueEntry, Goto, LocalTypes
    <3>3. queue_index[t] \in Nat /\ queue_index[t] % ThreadCount = t
      BY <1>0, <1>2, <3>1 DEF Inside, LocalTypes
    <3>4. QED
      BY <1>4, <3>2, <3>3, ShareSteps
  <2>4. CASE FinishShare(t)
    <3>1. pc'[t] = "sync"
      BY <1>0, <2>4 DEF FinishShare, Goto, LocalTypes
    <3>2. QED
      BY <3>1 DEF Inside
  <2>5. CASE \/ LoadSource(t) \/ LoadDestination(t) \/ CompareAndSwap(t)
             \/ MarkGeneration(t) \/ ClaimPosition(t) \/ PublishLane(t)
             \/ StoreEntry(t)
    <3>1. UNCHANGED <<queue_index, source>>
      BY <2>5 DEF LoadSource, LoadDestination, CompareAndSwap,
           MarkGeneration, ClaimPosition, PublishLane, StoreEntry, localVars
    <3>2. Inside(t) /\ pc[t] # "fetch"
      BY <2>5 DEF LoadSource, LoadDestination, CompareAndSwap,
           MarkGeneration, ClaimPosition, PublishLane, StoreEntry,
           AtOperation, Inside
    <3>3. QED
      BY <1>2, <3>1, <3>2
  <2>6. QED
    BY <2>1, <2>2, <2>3, <2>4, <2>5 DEF RoundStep
<1>6. ASSUME NEW s \in Threads \ {t}
      PROVE  pc'[s] = pc[s] /\ queue_index'[s] = queue_index[s]
               /\ source'[s] = source[s]
  BY <1>0, OnlyItself DEF OthersKept
<1>7. \A s \in Threads :
        /\ Inside(s)' => queue_index'[s] % ThreadCount = s
        /\ Inside(s)' /\ pc'[s] # "fetch" =>
             /\ queue_index'[s] < CurrentSize
             /\ source'[s] = frontiers[ReadSlot][queue_index'[s]]
  <2>1. TAKE s \in Threads
  <2>2. CASE s = t
    BY <1>5, <2>2
  <2>3. CASE s # t
    BY <1>2, <1>6, <2>3 DEF Inside
  <2>4. QED
    BY <2>2, <2>3
<1>8. QED
  BY <1>1, <1>7 DEF ShareInv

-----------------------------------------------------------------------------
(***************************************************************************)
(* The next queue: threads that do not hold a vertex leave it alone.       *)
(***************************************************************************)
NextOK == MarkInv /\ HolderInv /\ EntryInv /\ SizeInv

LEMMA NextQuiet ==
  ASSUME Steady, Running, NEW t \in Threads, RoundStep(t),
         UNCHANGED <<enqueue_generation, frontiers, controller>>,
         pc[t] \notin {"claim", "publish", "store"},
         pc'[t] \notin {"enter", "claim", "publish", "store"},
         pc'[t] = "mark" => distance_bits'[Endpoint(t)'] # Infinity
  PROVE  NextOK'
<1>0. NextOK /\ TypeOK
  BY DEF Steady, QueueInv, NextInv, NextOK, LowerBoundInv, TypeInv
<1>1. \A s \in Threads \ {t} : pc'[s] = pc[s] /\ edge'[s] = edge[s]
                                 /\ claim'[s] = claim[s]
  BY <1>0, OnlyItself DEF OthersKept
<1>2. /\ WriteSlot' = WriteSlot /\ NextSize' = NextSize
      /\ Generation' = Generation /\ (Overflowed' <=> Overflowed)
  BY DEF WriteSlot, NextSize, Generation, Overflowed
<1>3. \A s \in Threads : (Holds(s)' <=> Holds(s)) /\ (Placed(s)' <=> Placed(s))
  BY <1>1 DEF Holds, Placed
<1>4. \A s \in Threads : Holds(s) => Endpoint(s)' = Endpoint(s) /\ claim'[s] = claim[s]
                                       /\ pc'[s] = pc[s]
  BY <1>1 DEF Holds, Endpoint
<1>5. \A s \in Threads : Placed(s) => Holds(s)
  BY DEF Holds, Placed
<1>6. \A i : Stored(i)' <=> Stored(i)
  BY <1>2, <1>3, <1>4, <1>5 DEF Stored
<1>7. \A v \in Vertices : distance_bits[v] # Infinity => distance_bits'[v] # Infinity
  <2>1. TAKE v \in Vertices
  <2>2. distance_bits[v] \in Distances /\ distance_bits'[v] \in Distances
          /\ distance_bits'[v] <= distance_bits[v]
    BY <1>0, DistancesFall DEF TypeOK
  <2>3. QED
    BY <2>2, GraphAssumption DEF Distances
<1>8. MarkInv'
  BY <1>0, <1>2, <1>3, <1>4, <1>6 DEF NextOK, MarkInv
<1>9. HolderInv'
  <2>1. ASSUME NEW s \in Threads, Holds(s)' \/ pc'[s] = "mark"
        PROVE  distance_bits'[Endpoint(s)'] # Infinity
    <3>1. CASE s = t
      BY <1>3, <2>1, <3>1 DEF Holds
    <3>2. CASE s # t
      <4>1. (Holds(s) \/ pc[s] = "mark") /\ Endpoint(s)' = Endpoint(s)
        BY <1>1, <1>3, <2>1, <3>2 DEF Endpoint
      <4>2. distance_bits[Endpoint(s)] # Infinity
        BY <1>0, <4>1 DEF NextOK, HolderInv
      <4>3. Endpoint(s) \in Vertices
        BY <4>1, EdgeType DEF Holds, Endpoint, Admitted, OnEdge, Steady,
                              LowerBoundInv, TypeInv
      <4>4. QED
        BY <1>7, <4>1, <4>2, <4>3
    <3>3. QED
      BY <3>1, <3>2
  <2>2. /\ \A s \in Threads : Holds(s)' => enqueue_generation'[Endpoint(s)'] = Generation'
        /\ \A r, s \in Threads : Holds(r)' /\ Holds(s)' /\ r # s =>
             Endpoint(r)' # Endpoint(s)'
        /\ \A s \in Threads : Placed(s)' => claim'[s] < NextSize'
        /\ \A r, s \in Threads : Placed(r)' /\ Placed(s)' /\ r # s =>
             claim'[r] # claim'[s]
    BY <1>0, <1>2, <1>3, <1>4, <1>5 DEF NextOK, HolderInv
  <2>3. QED
    BY <2>1, <2>2 DEF HolderInv
<1>10. EntryInv'
  <2>1. SUFFICES ASSUME NEW i \in Positions, Stored(i)
                 PROVE  LET v == frontiers[WriteSlot][i]
                        IN /\ InSelectedTile(v) /\ distance_bits'[v] # Infinity
                           /\ enqueue_generation[v] = Generation
                           /\ \A s \in Threads : Holds(s) => Endpoint(s) # v
                           /\ \A j \in Positions : Stored(j) /\ j # i =>
                                frontiers[WriteSlot][j] # v
    BY <1>2, <1>3, <1>4, <1>6 DEF EntryInv
  <2>2. WriteSlot \in Slots
    BY ControlKept
  <2>3. frontiers[WriteSlot][i] \in Vertices
    BY <1>0, <2>2 DEF TypeOK
  <2>4. QED
    BY <1>0, <1>7, <2>1, <2>3 DEF NextOK, EntryInv
<1>11. SizeInv'
  <2>1. ~ \A s \in Threads : pc'[s] = "enter"
    OBVIOUS
  <2>2. \A s \in Threads : pc[s] # "store" => pc'[s] # "store"
    BY <1>1
  <2>3. \A s \in Threads : pc[s] = "publish" => pc'[s] = "publish" /\ claim'[s] = claim[s]
    BY <1>1
  <2>4. \A s \in Threads : Placed(s) => Placed(s)' /\ claim'[s] = claim[s]
    BY <1>3, <1>4, <1>5
  <2>5. /\ ~Overflowed =>
             \A i \in 0 .. NextSize - 1 :
               i \in Positions \/ \E s \in Threads : Placed(s) /\ claim[s] = i
        /\ controller.next_frontier_lane_mask # {} => NextSize # 0
        /\ controller.next_frontier_lane_mask = {} =>
             /\ \A s \in Threads : pc[s] # "store"
             /\ \A i \in 0 .. NextSize - 1 :
                  \E s \in Threads : pc[s] = "publish" /\ claim[s] = i
    BY <1>0 DEF NextOK, SizeInv
  <2>6. QED
    BY <1>2, <2>1, <2>2, <2>3, <2>4, <2>5 DEF SizeInv
<1>12. QED
  BY <1>8, <1>9, <1>10, <1>11 DEF NextOK

\* The first thread to mark a vertex holds it from then on.
LEMMA NextMark ==
  ASSUME Steady, Running, NEW t \in Threads, MarkGeneration(t),
         enqueue_generation[Endpoint(t)] # Generation
  PROVE  NextOK'
<1> DEFINE v == Endpoint(t)
<1>0. NextOK /\ TypeOK /\ LocalTypes /\ RoundStep(t)
  BY TypeParts
  DEF Steady, QueueInv, NextInv, NextOK, LowerBoundInv, TypeInv, RoundStep
<1>1. /\ pc[t] = "mark" /\ pc'[t] = "claim"
      /\ enqueue_generation' = [enqueue_generation EXCEPT ![v] = Generation]
      /\ UNCHANGED <<distance_bits, frontiers, controller, claim, edge>>
      /\ \A s \in Threads \ {t} : pc'[s] = pc[s]
  BY <1>0 DEF MarkGeneration, AtOperation, Goto, Endpoint, LocalTypes
<1>2. v \in Vertices
  BY <1>1, EdgeType DEF Endpoint, Admitted, OnEdge, Steady, LowerBoundInv, TypeInv
<1>3. /\ enqueue_generation'[v] = Generation
      /\ \A w \in Vertices : w # v => enqueue_generation'[w] = enqueue_generation[w]
  BY <1>0, <1>1, <1>2 DEF TypeOK
<1>4. /\ WriteSlot' = WriteSlot /\ NextSize' = NextSize
      /\ Generation' = Generation /\ (Overflowed' <=> Overflowed)
  BY <1>1 DEF WriteSlot, NextSize, Generation, Overflowed
<1>5. /\ \A s \in Threads : Holds(s)' <=> Holds(s) \/ s = t
      /\ \A s \in Threads : Placed(s)' <=> Placed(s)
      /\ \A s \in Threads : Endpoint(s)' = Endpoint(s)
      /\ ~Holds(t)
  BY <1>1 DEF Holds, Placed, Endpoint
<1>6. \A i : Stored(i)' <=> Stored(i)
  BY <1>1, <1>4, <1>5 DEF Stored
<1>7. Endpoint(t) = v /\ enqueue_generation[v] # Generation
  OBVIOUS
<1>8. \A s \in Threads : Holds(s) => Endpoint(s) # v /\ Endpoint(s) \in Vertices
  <2>1. \A s \in Threads : Holds(s) => enqueue_generation[Endpoint(s)] = Generation
    BY <1>0 DEF NextOK, HolderInv
  <2>2. \A s \in Threads : Holds(s) => Endpoint(s) \in Vertices
    BY EdgeType DEF Holds, Endpoint, Admitted, OnEdge, Steady, LowerBoundInv, TypeInv
  <2>3. QED
    BY <1>7, <2>1, <2>2
<1>9. \A i \in Positions : Stored(i) =>
        frontiers[WriteSlot][i] # v /\ frontiers[WriteSlot][i] \in Vertices
  <2>1. \A i \in Positions : Stored(i) =>
          enqueue_generation[frontiers[WriteSlot][i]] = Generation
    BY <1>0 DEF NextOK, EntryInv
  <2>2. WriteSlot \in Slots
    BY <1>0, ControlKept
  <2>3. QED
    BY <1>0, <1>7, <2>1, <2>2 DEF TypeOK
<1>10. Generation \in Int
  BY <1>0 DEF Generation, TypeOK, DeviceControllers
<1> HIDE DEF v
<1>11. MarkInv'
  <2>1. ASSUME NEW w \in Vertices, w # v
        PROVE  /\ enqueue_generation[w] <= Generation
               /\ enqueue_generation[w] = Generation =>
                    \/ Overflowed
                    \/ \E s \in Threads : Holds(s)' /\ Endpoint(s)' = w
                    \/ \E i \in Positions : Stored(i)' /\ frontiers[WriteSlot][i] = w
    <3>1. /\ enqueue_generation[w] <= Generation
          /\ enqueue_generation[w] = Generation =>
               \/ Overflowed
               \/ \E s \in Threads : Holds(s) /\ Endpoint(s) = w
               \/ \E i \in Positions : Stored(i) /\ frontiers[WriteSlot][i] = w
      BY <1>0 DEF NextOK, MarkInv
    <3>2. QED
      BY <1>5, <1>6, <3>1
  <2>2. Holds(t)' /\ Endpoint(t)' = v
    BY <1>5, <1>7
  <2>3. \A w \in Vertices :
          /\ enqueue_generation'[w] <= Generation
          /\ enqueue_generation'[w] = Generation =>
               \/ Overflowed
               \/ \E s \in Threads : Holds(s)' /\ Endpoint(s)' = w
               \/ \E i \in Positions : Stored(i)' /\ frontiers[WriteSlot][i] = w
    BY <1>3, <1>10, <2>1, <2>2
  <2>4. QED
    BY <1>1, <1>4, <2>3 DEF MarkInv
<1>12. HolderInv'
  <2>1. \A s \in Threads : Holds(s)' \/ pc'[s] = "mark" =>
          distance_bits[Endpoint(s)] # Infinity
    <3>1. \A s \in Threads : Holds(s)' \/ pc'[s] = "mark" => Holds(s) \/ pc[s] = "mark"
      BY <1>1, <1>5
    <3>2. QED
      BY <1>0, <3>1 DEF NextOK, HolderInv
  <2>2. \A s \in Threads : Holds(s)' => enqueue_generation'[Endpoint(s)] = Generation
    <3>1. \A s \in Threads : Holds(s) => enqueue_generation[Endpoint(s)] = Generation
      BY <1>0 DEF NextOK, HolderInv
    <3>2. QED
      BY <1>3, <1>5, <1>7, <1>8, <3>1
  <2>3. \A r, s \in Threads : Holds(r)' /\ Holds(s)' /\ r # s => Endpoint(r) # Endpoint(s)
    <3>1. \A r, s \in Threads : Holds(r) /\ Holds(s) /\ r # s => Endpoint(r) # Endpoint(s)
      BY <1>0 DEF NextOK, HolderInv
    <3>2. QED
      BY <1>5, <1>7, <1>8, <3>1
  <2>4. /\ \A s \in Threads : Placed(s) => claim[s] < NextSize
        /\ \A r, s \in Threads : Placed(r) /\ Placed(s) /\ r # s => claim[r] # claim[s]
    BY <1>0 DEF NextOK, HolderInv
  <2>5. QED
    BY <1>1, <1>4, <1>5, <2>1, <2>2, <2>3, <2>4 DEF HolderInv
<1>13. EntryInv'
  <2>1. ASSUME NEW i \in Positions, Stored(i)
        PROVE  LET w == frontiers[WriteSlot][i]
               IN /\ InSelectedTile(w) /\ distance_bits[w] # Infinity
                  /\ enqueue_generation'[w] = Generation
                  /\ \A s \in Threads : Holds(s)' => Endpoint(s) # w
                  /\ \A j \in Positions : Stored(j) /\ j # i =>
                       frontiers[WriteSlot][j] # w
    <3> DEFINE w == frontiers[WriteSlot][i]
    <3>1. /\ InSelectedTile(w) /\ distance_bits[w] # Infinity
          /\ enqueue_generation[w] = Generation
          /\ \A s \in Threads : Holds(s) => Endpoint(s) # w
          /\ \A j \in Positions : Stored(j) /\ j # i => frontiers[WriteSlot][j] # w
      BY <1>0, <2>1 DEF NextOK, EntryInv
    <3>2. w # v /\ w \in Vertices
      BY <1>9, <2>1
    <3> HIDE DEF w
    <3>3. enqueue_generation'[w] = Generation
            /\ \A s \in Threads : Holds(s)' => Endpoint(s) # w
      BY <1>3, <1>5, <1>7, <3>1, <3>2
    <3>4. QED
      BY <3>1, <3>3 DEF w
  <2>2. QED
    BY <1>1, <1>4, <1>5, <1>6, <2>1 DEF EntryInv
<1>14. SizeInv'
  <2>1. \A s \in Threads : pc[s] # "store" => pc'[s] # "store"
    BY <1>1
  <2>2. \A s \in Threads : pc[s] = "publish" => pc'[s] = "publish"
    BY <1>1
  <2>3. pc'[t] # "enter"
    BY <1>1
  <2>4. /\ ~Overflowed =>
             \A i \in 0 .. NextSize - 1 :
               i \in Positions \/ \E s \in Threads : Placed(s) /\ claim[s] = i
        /\ controller.next_frontier_lane_mask # {} => NextSize # 0
        /\ controller.next_frontier_lane_mask = {} =>
             /\ \A s \in Threads : pc[s] # "store"
             /\ \A i \in 0 .. NextSize - 1 :
                  \E s \in Threads : pc[s] = "publish" /\ claim[s] = i
    BY <1>0 DEF NextOK, SizeInv
  <2>5. QED
    BY <1>1, <1>4, <1>5, <2>1, <2>2, <2>3, <2>4 DEF SizeInv
<1>15. QED
  BY <1>11, <1>12, <1>13, <1>14 DEF NextOK

\* What a step on a held vertex leaves alone.
LEMMA HeldStep ==
  ASSUME Steady, Running, NEW t \in Threads,
         ClaimPosition(t) \/ PublishLane(t) \/ StoreEntry(t)
  PROVE  /\ NextOK /\ TypeOK /\ LocalTypes /\ RoundStep(t)
         /\ Holds(t)
         /\ UNCHANGED <<distance_bits, enqueue_generation, edge>>
         /\ WriteSlot' = WriteSlot /\ Generation' = Generation
         /\ WriteSlot \in Slots
         /\ NextSize \in Nat
         /\ Endpoint(t) \in Vertices
         /\ \A s \in Threads : Endpoint(s)' = Endpoint(s)
         /\ \A s \in Threads \ {t} : pc'[s] = pc[s] /\ claim'[s] = claim[s]
<1>1. NextOK /\ TypeOK /\ LocalTypes /\ RoundStep(t)
  BY TypeParts
  DEF Steady, QueueInv, NextInv, NextOK, LowerBoundInv, TypeInv, RoundStep
<1>2. Holds(t) /\ UNCHANGED <<distance_bits, enqueue_generation, edge>>
  BY DEF ClaimPosition, PublishLane, StoreEntry, AtOperation, Holds,
         workspaceVars, localVars
<1>3. WriteSlot' = WriteSlot /\ Generation' = Generation
  BY <1>1, RoundKept
<1>4. WriteSlot \in Slots /\ controller.frontier_size \in [Slots -> Nat]
  BY <1>1, ControlKept
<1>5. NextSize \in Nat
  BY <1>4 DEF NextSize
<1>6. Endpoint(t) \in Vertices
  BY <1>2, EdgeType DEF Holds, Endpoint, Admitted, OnEdge, Steady, LowerBoundInv, TypeInv
<1>7. \A s \in Threads : Endpoint(s)' = Endpoint(s)
  BY <1>2 DEF Endpoint
<1>8. \A s \in Threads \ {t} : pc'[s] = pc[s] /\ claim'[s] = claim[s]
  BY <1>1, OnlyItself DEF OthersKept
<1>9. QED
  BY <1>1, <1>2, <1>3, <1>4, <1>5, <1>6, <1>7, <1>8

\* The claimed position is new, and is not stored yet.
LEMMA NextClaim ==
  ASSUME Steady, Running, NEW t \in Threads, ClaimPosition(t)
  PROVE  NextOK'
<1>0. /\ NextOK /\ TypeOK /\ LocalTypes /\ RoundStep(t)
      /\ Holds(t)
      /\ UNCHANGED <<distance_bits, enqueue_generation, edge>>
      /\ WriteSlot' = WriteSlot /\ Generation' = Generation
      /\ WriteSlot \in Slots
      /\ NextSize \in Nat
      /\ Endpoint(t) \in Vertices
      /\ \A s \in Threads : Endpoint(s)' = Endpoint(s)
      /\ \A s \in Threads \ {t} : pc'[s] = pc[s] /\ claim'[s] = claim[s]
  BY HeldStep
<1>1. /\ pc[t] = "claim" /\ pc'[t] = "publish"
      /\ claim'[t] = NextSize
      /\ UNCHANGED frontiers
  BY <1>0 DEF ClaimPosition, AtOperation, Goto, LocalTypes, NextSize, workspaceVars
<1>2. /\ controller'.frontier_size[WriteSlot] = NextSize + 1
      /\ controller'.error_bits = controller.error_bits
      /\ controller'.next_frontier_lane_mask = controller.next_frontier_lane_mask
  <2>1. /\ controller \in DeviceControllers
        /\ controller.frontier_size \in [Slots -> Nat]
    BY <1>0, ControlKept DEF TypeOK
  <2>2. /\ controller'.frontier_size = [controller.frontier_size EXCEPT
                                          ![WriteSlot] = @ + 1]
        /\ controller'.error_bits = controller.error_bits
        /\ controller'.next_frontier_lane_mask = controller.next_frontier_lane_mask
    BY <2>1, ClaimEffect DEF ClaimPosition, WriteSlot
  <2>3. QED
    BY <1>0, <2>1, <2>2 DEF NextSize
<1>3. NextSize' = NextSize + 1 /\ (Overflowed' <=> Overflowed)
  BY <1>0, <1>2 DEF NextSize, Overflowed
<1>4. /\ \A s \in Threads : Holds(s)' <=> Holds(s)
      /\ \A s \in Threads : Placed(s)' <=> Placed(s) \/ s = t
      /\ ~Placed(t)
  BY <1>0, <1>1 DEF Holds, Placed
<1>5. \A s \in Threads : Placed(s) => claim[s] < NextSize /\ claim[s] \in Nat
  BY <1>0 DEF NextOK, HolderInv, LocalTypes
<1>6. \A i \in Positions : Stored(i)' <=> Stored(i)
  <2>1. TAKE i \in Positions
  <2>2. i \in Nat
    BY DEF Positions
  <2>3. ASSUME Stored(i) PROVE Stored(i)'
    <3>1. i < NextSize /\ \A s \in Threads : Placed(s) => claim[s] # i
      BY <2>3 DEF Stored
    <3>2. i < NextSize' /\ claim'[t] # i
      BY <1>0, <1>1, <1>3, <2>2, <3>1
    <3>3. \A s \in Threads : Placed(s)' => claim'[s] # i
      BY <1>0, <1>4, <3>1, <3>2
    <3>4. QED
      BY <3>2, <3>3 DEF Stored
  <2>4. ASSUME Stored(i)' PROVE Stored(i)
    <3>1. i < NextSize + 1 /\ \A s \in Threads : Placed(s)' => claim'[s] # i
      BY <1>3, <2>4 DEF Stored
    <3>2. i # NextSize
      BY <1>1, <1>4, <3>1
    <3>3. i < NextSize
      BY <1>0, <2>2, <3>1, <3>2
    <3>4. \A s \in Threads : Placed(s) => claim[s] # i
      BY <1>0, <1>4, <3>1
    <3>5. QED
      BY <3>3, <3>4 DEF Stored
  <2>5. QED
    BY <2>3, <2>4
<1>7. MarkInv'
  BY <1>0, <1>1, <1>3, <1>4, <1>6 DEF NextOK, MarkInv
<1>8. HolderInv'
  <2>1. /\ \A s \in Threads : Holds(s) \/ pc[s] = "mark" => distance_bits[Endpoint(s)] # Infinity
        /\ \A s \in Threads : Holds(s) => enqueue_generation[Endpoint(s)] = Generation
        /\ \A r, s \in Threads : Holds(r) /\ Holds(s) /\ r # s => Endpoint(r) # Endpoint(s)
        /\ \A r, s \in Threads : Placed(r) /\ Placed(s) /\ r # s => claim[r] # claim[s]
    BY <1>0 DEF NextOK, HolderInv
  <2>2. \A s \in Threads : Holds(s)' \/ pc'[s] = "mark" => Holds(s) \/ pc[s] = "mark"
    BY <1>0, <1>1, <1>4
  <2>3. \A s \in Threads : Placed(s)' => claim'[s] < NextSize'
    BY <1>0, <1>1, <1>3, <1>4, <1>5
  <2>4. \A r, s \in Threads : Placed(r)' /\ Placed(s)' /\ r # s => claim'[r] # claim'[s]
    <3>1. \A s \in Threads \ {t} : Placed(s) => claim'[s] # NextSize
      BY <1>0, <1>5
    <3>2. QED
      BY <1>0, <1>1, <1>4, <2>1, <3>1
  <2>5. QED
    BY <1>0, <1>4, <2>1, <2>2, <2>3, <2>4 DEF HolderInv
<1>9. EntryInv'
  BY <1>0, <1>1, <1>4, <1>6 DEF NextOK, EntryInv
<1>10. SizeInv'
  <2>1. pc'[t] # "enter"
    BY <1>1
  <2>2. ASSUME ~Overflowed, NEW i \in 0 .. NextSize
        PROVE  i \in Positions \/ \E s \in Threads : Placed(s)' /\ claim'[s] = i
    <3>1. CASE i = NextSize
      BY <1>1, <1>4, <3>1
    <3>2. CASE i # NextSize
      <4>1. i \in 0 .. NextSize - 1
        BY <1>0, <3>2
      <4>2. i \in Positions \/ \E s \in Threads : Placed(s) /\ claim[s] = i
        BY <1>0, <2>2, <4>1 DEF NextOK, SizeInv
      <4>3. QED
        BY <1>0, <1>4, <4>2
    <3>3. QED
      BY <3>1, <3>2
  <2>3. NextSize' # 0
    BY <1>0, <1>3
  <2>4. ASSUME controller.next_frontier_lane_mask = {}
        PROVE  /\ \A s \in Threads : pc'[s] # "store"
               /\ \A i \in 0 .. NextSize :
                    \E s \in Threads : pc'[s] = "publish" /\ claim'[s] = i
    <3>1. /\ \A s \in Threads : pc[s] # "store"
          /\ \A i \in 0 .. NextSize - 1 :
               \E s \in Threads : pc[s] = "publish" /\ claim[s] = i
      BY <1>0, <2>4 DEF NextOK, SizeInv
    <3>2. \A i \in 0 .. NextSize : i = NextSize \/ i \in 0 .. NextSize - 1
      BY <1>0
    <3>3. \A s \in Threads : pc[s] = "publish" => s # t
      BY <1>1
    <3>4. QED
      BY <1>0, <1>1, <3>1, <3>2, <3>3
  <2>5. NextSize' - 1 = NextSize
    BY <1>0, <1>3
  <2>6. QED
    BY <1>2, <1>3, <2>1, <2>2, <2>3, <2>4, <2>5 DEF SizeInv
<1>11. QED
  BY <1>7, <1>8, <1>9, <1>10 DEF NextOK

\* The lane mask is published only after a position was claimed, so that it is
\* never ahead of the length of the queue.
LEMMA NextPublish ==
  ASSUME Steady, Running, NEW t \in Threads, PublishLane(t)
  PROVE  NextOK'
<1>0. /\ NextOK /\ TypeOK /\ LocalTypes /\ RoundStep(t)
      /\ Holds(t)
      /\ UNCHANGED <<distance_bits, enqueue_generation, edge>>
      /\ WriteSlot' = WriteSlot /\ Generation' = Generation
      /\ NextSize \in Nat
      /\ \A s \in Threads : Endpoint(s)' = Endpoint(s)
      /\ \A s \in Threads \ {t} : pc'[s] = pc[s] /\ claim'[s] = claim[s]
  BY HeldStep
<1>1. /\ pc[t] = "publish" /\ pc'[t] = "store"
      /\ UNCHANGED <<frontiers, claim>>
  BY <1>0 DEF PublishLane, AtOperation, Goto, LocalTypes, workspaceVars, localVars
<1>2. /\ controller'.frontier_size = controller.frontier_size
      /\ controller'.error_bits = controller.error_bits
      /\ controller'.next_frontier_lane_mask = {0}
  BY <1>0, PublishEffect DEF PublishLane, TypeOK
<1>3. NextSize' = NextSize /\ (Overflowed' <=> Overflowed)
  BY <1>0, <1>2 DEF NextSize, Overflowed
<1>4. /\ \A s \in Threads : Holds(s)' <=> Holds(s)
      /\ \A s \in Threads : Placed(s)' <=> Placed(s)
  BY <1>0, <1>1 DEF Holds, Placed
<1>5. \A i : Stored(i)' <=> Stored(i)
  BY <1>1, <1>3, <1>4 DEF Stored
<1>6. MarkInv'
  BY <1>0, <1>1, <1>3, <1>4, <1>5 DEF NextOK, MarkInv
<1>7. HolderInv'
  <2>1. \A s \in Threads : pc'[s] = "mark" => pc[s] = "mark"
    BY <1>0, <1>1
  <2>2. QED
    BY <1>0, <1>1, <1>3, <1>4, <2>1 DEF NextOK, HolderInv
<1>8. EntryInv'
  BY <1>0, <1>1, <1>4, <1>5 DEF NextOK, EntryInv
<1>9. SizeInv'
  <2>1. pc'[t] # "enter"
    BY <1>1
  <2>2. NextSize # 0
    <3>1. claim[t] < NextSize /\ claim[t] \in Nat
      BY <1>0, <1>1 DEF NextOK, HolderInv, Placed, LocalTypes
    <3>2. QED
      BY <1>0, <3>1
  <2>3. ~Overflowed =>
          \A i \in 0 .. NextSize - 1 :
            i \in Positions \/ \E s \in Threads : Placed(s) /\ claim[s] = i
    BY <1>0 DEF NextOK, SizeInv
  <2>4. QED
    BY <1>1, <1>2, <1>3, <1>4, <2>1, <2>2, <2>3 DEF SizeInv
<1>10. QED
  BY <1>6, <1>7, <1>8, <1>9 DEF NextOK

\* After the store the vertex is in the queue and no longer held.
LEMMA NextStore ==
  ASSUME Steady, Running, NEW t \in Threads, StoreEntry(t),
         claim[t] < QueueCapacity
  PROVE  NextOK'
<1> DEFINE v == Endpoint(t)
<1>0. /\ NextOK /\ TypeOK /\ LocalTypes /\ RoundStep(t)
      /\ Holds(t)
      /\ UNCHANGED <<distance_bits, enqueue_generation, edge>>
      /\ WriteSlot' = WriteSlot /\ Generation' = Generation
      /\ WriteSlot \in Slots
      /\ NextSize \in Nat
      /\ v \in Vertices
      /\ \A s \in Threads : Endpoint(s)' = Endpoint(s)
      /\ \A s \in Threads \ {t} : pc'[s] = pc[s] /\ claim'[s] = claim[s]
  BY HeldStep
<1>p. PICK p \in Positions : p = claim[t] /\ p < NextSize
  <2>1. pc[t] = "store"
    BY DEF StoreEntry, AtOperation
  <2>2. claim[t] < NextSize /\ claim[t] \in Nat
    BY <1>0, <2>1 DEF NextOK, HolderInv, Placed, LocalTypes
  <2>3. claim[t] \in Positions
    BY <2>2, EngineAssumption, GraphAssumption DEF Positions
  <2>4. QED
    BY <2>2, <2>3
<1>1. /\ pc[t] = "store" /\ pc'[t] = "edge"
      /\ UNCHANGED controller
      /\ frontiers' = [frontiers EXCEPT ![WriteSlot][p] = v]
  BY <1>0, <1>p DEF StoreEntry, AtOperation, LeaveEdge, Goto, LocalTypes, Endpoint
<1>2. NextSize' = NextSize /\ (Overflowed' <=> Overflowed)
  BY <1>0, <1>1 DEF NextSize, Overflowed
<1>3. p < NextSize /\ p \in Positions
  BY <1>p
<1>4. /\ \A s \in Threads : Holds(s)' <=> Holds(s) /\ s # t
      /\ \A s \in Threads : Placed(s)' <=> Placed(s) /\ s # t
      /\ Placed(t)
  BY <1>0, <1>1 DEF Holds, Placed
<1>5. /\ frontiers'[WriteSlot][p] = v
      /\ \A i \in Positions : i # p => frontiers'[WriteSlot][i] = frontiers[WriteSlot][i]
  <2>1. frontiers[WriteSlot] \in [Positions -> Vertices] /\ frontiers \in [Slots -> [Positions -> Vertices]]
    BY <1>0 DEF TypeOK
  <2>2. frontiers'[WriteSlot] = [frontiers[WriteSlot] EXCEPT ![p] = v]
    BY <1>0, <1>1, <2>1
  <2>3. QED
    BY <1>3, <2>1, <2>2
<1>6. claim[t] = p /\ Endpoint(t) = v
  BY <1>p
<1>h. /\ \A s \in Threads : Holds(s) \/ pc[s] = "mark" => distance_bits[Endpoint(s)] # Infinity
      /\ \A s \in Threads : Holds(s) => enqueue_generation[Endpoint(s)] = Generation
      /\ \A r, s \in Threads : Holds(r) /\ Holds(s) /\ r # s => Endpoint(r) # Endpoint(s)
      /\ \A s \in Threads : Placed(s) => claim[s] < NextSize
      /\ \A r, s \in Threads : Placed(r) /\ Placed(s) /\ r # s => claim[r] # claim[s]
  BY <1>0 DEF NextOK, HolderInv
<1>t. InSelectedTile(v)
  BY <1>1, <1>0 DEF Steady, LowerBoundInv, TypeInv, OnEdge, Admitted, Endpoint
<1> HIDE DEF v
<1>7. \A i \in Positions : Stored(i)' <=> Stored(i) \/ i = p
  <2>1. \A s \in Threads : Placed(s)' => claim'[s] # p
    BY <1>0, <1>4, <1>6, <1>h
  <2>2. Stored(p)'
    BY <1>2, <1>3, <2>1 DEF Stored
  <2>3. \A i \in Positions : i # p => (Stored(i)' <=> Stored(i))
    <3>1. TAKE i \in Positions
    <3>2. ASSUME i # p
          PROVE  (\A s \in Threads : Placed(s)' => claim'[s] # i)
                   <=> (\A s \in Threads : Placed(s) => claim[s] # i)
      BY <1>0, <1>4, <1>6, <3>2
    <3>3. QED
      BY <1>2, <3>2 DEF Stored
  <2>4. QED
    BY <2>2, <2>3
<1>8. ~Stored(p)
  BY <1>4, <1>6 DEF Stored
<1>9. MarkInv'
  <2>1. ASSUME NEW w \in Vertices, enqueue_generation[w] = Generation, ~Overflowed
        PROVE  \/ \E s \in Threads : Holds(s)' /\ Endpoint(s)' = w
               \/ \E i \in Positions : Stored(i)' /\ frontiers'[WriteSlot][i] = w
    <3>1. \/ \E s \in Threads : Holds(s) /\ Endpoint(s) = w
          \/ \E i \in Positions : Stored(i) /\ frontiers[WriteSlot][i] = w
      BY <1>0, <2>1 DEF NextOK, MarkInv
    <3>2. CASE w = v
      BY <1>3, <1>5, <1>7, <3>2
    <3>3. CASE w # v
      <4>1. CASE \E s \in Threads : Holds(s) /\ Endpoint(s) = w
        BY <1>0, <1>4, <1>6, <3>3, <4>1
      <4>2. CASE \E i \in Positions : Stored(i) /\ frontiers[WriteSlot][i] = w
        BY <1>5, <1>7, <1>8, <4>2
      <4>3. QED
        BY <3>1, <4>1, <4>2
    <3>4. QED
      BY <3>2, <3>3
  <2>2. \A w \in Vertices : enqueue_generation[w] <= Generation
    BY <1>0 DEF NextOK, MarkInv
  <2>3. QED
    BY <1>0, <1>2, <2>1, <2>2 DEF MarkInv
<1>10. HolderInv'
  <2>1. \A s \in Threads : Holds(s)' => Holds(s) /\ s # t
    BY <1>4
  <2>2. \A s \in Threads : Placed(s)' => Placed(s) /\ s # t /\ claim'[s] = claim[s]
    BY <1>0, <1>4
  <2>3. \A s \in Threads : pc'[s] = "mark" => pc[s] = "mark"
    BY <1>0, <1>1
  <2>4. \A s \in Threads : Holds(s)' \/ pc'[s] = "mark" => distance_bits'[Endpoint(s)'] # Infinity
    BY <1>0, <1>h, <2>1, <2>3
  <2>5. \A s \in Threads : Holds(s)' => enqueue_generation'[Endpoint(s)'] = Generation'
    BY <1>0, <1>h, <2>1
  <2>6. \A r, s \in Threads : Holds(r)' /\ Holds(s)' /\ r # s => Endpoint(r)' # Endpoint(s)'
    BY <1>0, <1>h, <2>1
  <2>7. \A s \in Threads : Placed(s)' => claim'[s] < NextSize'
    BY <1>2, <1>h, <2>2
  <2>8. \A r, s \in Threads : Placed(r)' /\ Placed(s)' /\ r # s => claim'[r] # claim'[s]
    BY <1>h, <2>2
  <2>9. QED
    BY <2>4, <2>5, <2>6, <2>7, <2>8 DEF HolderInv
<1>11. EntryInv'
  <2>1. ASSUME NEW i \in Positions, Stored(i)
        PROVE  LET w == frontiers[WriteSlot][i]
               IN /\ InSelectedTile(w) /\ distance_bits[w] # Infinity
                  /\ enqueue_generation[w] = Generation
                  /\ \A s \in Threads : Holds(s) => Endpoint(s) # w
                  /\ \A j \in Positions : Stored(j) /\ j # i => frontiers[WriteSlot][j] # w
    BY <1>0, <2>1 DEF NextOK, EntryInv
  <2>2. \A i \in Positions : Stored(i) => frontiers[WriteSlot][i] # v
    BY <1>0, <1>6, <2>1
  <2>3. ASSUME NEW i \in Positions, Stored(i)'
        PROVE  LET w == frontiers'[WriteSlot][i]
               IN /\ InSelectedTile(w) /\ distance_bits[w] # Infinity
                  /\ enqueue_generation[w] = Generation
                  /\ \A s \in Threads : Holds(s)' => Endpoint(s) # w
                  /\ \A j \in Positions : Stored(j)' /\ j # i => frontiers'[WriteSlot][j] # w
    <3>1. CASE i = p
      <4>1. frontiers'[WriteSlot][i] = v
        BY <1>5, <3>1
      <4>2. InSelectedTile(v) /\ distance_bits[v] # Infinity /\ enqueue_generation[v] = Generation
        BY <1>0, <1>6, <1>h, <1>t
      <4>3. \A s \in Threads : Holds(s)' => Endpoint(s) # v
        BY <1>0, <1>4, <1>6, <1>h
      <4>4. \A j \in Positions : Stored(j)' /\ j # i => frontiers'[WriteSlot][j] # v
        BY <1>5, <1>7, <2>2, <3>1
      <4>5. QED
        BY <4>1, <4>2, <4>3, <4>4
    <3>2. CASE i # p
      <4>1. Stored(i) /\ frontiers'[WriteSlot][i] = frontiers[WriteSlot][i]
        BY <1>5, <1>7, <2>3, <3>2
      <4> DEFINE w == frontiers[WriteSlot][i]
      <4>2. /\ InSelectedTile(w) /\ distance_bits[w] # Infinity
            /\ enqueue_generation[w] = Generation
            /\ \A s \in Threads : Holds(s) => Endpoint(s) # w
            /\ \A j \in Positions : Stored(j) /\ j # i => frontiers[WriteSlot][j] # w
            /\ w # v
        BY <2>1, <2>2, <4>1
      <4> HIDE DEF w
      <4>3. \A s \in Threads : Holds(s)' => Endpoint(s) # w
        BY <1>4, <4>2
      <4>4. \A j \in Positions : Stored(j)' /\ j # i => frontiers'[WriteSlot][j] # w
        <5>1. TAKE j \in Positions
        <5>2. CASE j = p
          BY <1>5, <4>2, <5>2
        <5>3. CASE j # p
          BY <1>5, <1>7, <4>2, <5>3
        <5>4. QED
          BY <5>2, <5>3
      <4>5. frontiers'[WriteSlot][i] = w
        BY <4>1 DEF w
      <4>6. QED
        BY <4>2, <4>3, <4>4, <4>5
    <3>3. QED
      BY <3>1, <3>2
  <2>4. QED
    BY <1>0, <2>3 DEF EntryInv
<1>12. SizeInv'
  <2>1. pc'[t] # "enter"
    BY <1>1
  <2>2. ASSUME ~Overflowed, NEW i \in 0 .. NextSize - 1
        PROVE  i \in Positions \/ \E s \in Threads : Placed(s)' /\ claim'[s] = i
    <3>1. i \in Positions \/ \E s \in Threads : Placed(s) /\ claim[s] = i
      BY <1>0, <2>2 DEF NextOK, SizeInv
    <3>2. QED
      BY <1>0, <1>3, <1>4, <1>6, <3>1
  <2>3. /\ controller.next_frontier_lane_mask # {}
        /\ NextSize # 0
    BY <1>0, <1>1 DEF NextOK, SizeInv
  <2>4. QED
    BY <1>1, <1>2, <2>1, <2>2, <2>3 DEF SizeInv
<1>13. QED
  BY <1>9, <1>10, <1>11, <1>12 DEF NextOK

\* A position behind the end of the queue is not stored: the round has
\* overflowed.
LEMMA NextOverflow ==
  ASSUME Steady, Running, NEW t \in Threads, StoreEntry(t),
         ~(claim[t] < QueueCapacity)
  PROVE  NextOK'
<1>0. /\ NextOK /\ TypeOK /\ LocalTypes /\ RoundStep(t)
      /\ Holds(t)
      /\ UNCHANGED <<distance_bits, enqueue_generation, edge>>
      /\ WriteSlot' = WriteSlot /\ Generation' = Generation
      /\ \A s \in Threads : Endpoint(s)' = Endpoint(s)
      /\ \A s \in Threads \ {t} : pc'[s] = pc[s] /\ claim'[s] = claim[s]
  BY HeldStep
<1>1. /\ pc[t] = "store" /\ pc'[t] = "edge"
      /\ controller' = RaiseError("queue_overflow")
      /\ UNCHANGED frontiers
  BY <1>0 DEF StoreEntry, AtOperation, LeaveEdge, Goto, LocalTypes
<1>2. /\ controller'.frontier_size = controller.frontier_size
      /\ "queue_overflow" \in controller'.error_bits
      /\ controller'.next_frontier_lane_mask = controller.next_frontier_lane_mask
  <2>1. "queue_overflow" \in ErrorReasons
    BY DEF ErrorReasons
  <2>2. QED
    BY <1>0, <1>1, <2>1, RaiseErrorEffect DEF RaiseError, TypeOK
<1>3. NextSize' = NextSize /\ Overflowed'
  BY <1>0, <1>2 DEF NextSize, Overflowed
<1>4. /\ \A s \in Threads : Holds(s)' <=> Holds(s) /\ s # t
      /\ \A s \in Threads : Placed(s)' <=> Placed(s) /\ s # t
  BY <1>0, <1>1 DEF Holds, Placed
<1>5. \A i \in Positions : Stored(i)' <=> Stored(i)
  <2>1. claim[t] \notin Positions
    BY EngineAssumption, GraphAssumption, <1>0 DEF Positions, LocalTypes
  <2>2. \A i \in Positions :
          (\A s \in Threads : Placed(s)' => claim'[s] # i)
            <=> (\A s \in Threads : Placed(s) => claim[s] # i)
    BY <1>0, <1>4, <2>1
  <2>3. QED
    BY <1>3, <2>2 DEF Stored
<1>6. MarkInv'
  BY <1>0, <1>3 DEF NextOK, MarkInv
<1>7. HolderInv'
  <2>1. \A s \in Threads : Holds(s)' => Holds(s) /\ s # t
    BY <1>4
  <2>2. \A s \in Threads : Placed(s)' => Placed(s) /\ s # t /\ claim'[s] = claim[s]
    BY <1>0, <1>4
  <2>3. \A s \in Threads : pc'[s] = "mark" => pc[s] = "mark"
    BY <1>0, <1>1
  <2>4. QED
    BY <1>0, <1>3, <2>1, <2>2, <2>3 DEF NextOK, HolderInv
<1>8. EntryInv'
  BY <1>0, <1>1, <1>4, <1>5 DEF NextOK, EntryInv
<1>9. SizeInv'
  <2>1. pc'[t] # "enter"
    BY <1>1
  <2>2. /\ controller.next_frontier_lane_mask # {}
        /\ NextSize # 0
    BY <1>0, <1>1 DEF NextOK, SizeInv
  <2>3. QED
    BY <1>2, <1>3, <2>1, <2>2 DEF SizeInv
<1>10. QED
  BY <1>6, <1>7, <1>8, <1>9 DEF NextOK

LEMMA NextKept ==
  ASSUME Steady, Running, NEW t \in Threads, RoundStep(t)
  PROVE  NextInv'
<1>0. TypeOK /\ LocalTypes /\ LowerBoundInv
  BY TypeParts DEF Steady, LowerBoundInv, TypeInv
<1>1. CASE MarkGeneration(t) /\ enqueue_generation[Endpoint(t)] # Generation
  BY <1>1, NextMark DEF NextInv, NextOK
<1>2. CASE ClaimPosition(t)
  BY <1>2, NextClaim DEF NextInv, NextOK
<1>3. CASE PublishLane(t)
  BY <1>3, NextPublish DEF NextInv, NextOK
<1>4. CASE StoreEntry(t)
  BY <1>4, NextStore, NextOverflow DEF NextInv, NextOK
<1>5. CASE MarkGeneration(t) /\ enqueue_generation[Endpoint(t)] = Generation
  <2>1. pc[t] = "mark" /\ pc'[t] = "edge" /\ UNCHANGED <<frontiers, controller>>
    BY <1>0, <1>5 DEF MarkGeneration, AtOperation, LeaveEdge, Goto, LocalTypes, Endpoint
  <2>2. UNCHANGED enqueue_generation
    <3>1. enqueue_generation' = [enqueue_generation EXCEPT ![Endpoint(t)] = Generation]
      BY <1>5 DEF MarkGeneration, Endpoint
    <3>2. enqueue_generation \in [Vertices -> Nat]
      BY <1>0 DEF TypeOK
    <3>3. QED
      BY <1>5, <3>1, <3>2
  <2>3. QED
    BY <2>1, <2>2, NextQuiet DEF NextInv, NextOK
<1>6. CASE CompareAndSwap(t) /\ distance_bits[Endpoint(t)] = observed[t]
  <2>1. pc[t] = "cas" /\ UNCHANGED <<enqueue_generation, frontiers, controller>>
    BY <1>6 DEF CompareAndSwap, AtOperation
  <2>2. /\ Endpoint(t) \in Vertices
        /\ distance_bits' = [distance_bits EXCEPT ![Endpoint(t)] = candidate[t]]
        /\ candidate[t] # Infinity
        /\ pc'[t] = "mark" /\ UNCHANGED edge
    BY <1>0, <1>6, SwapLowers
  <2>3. Endpoint(t)' = Endpoint(t)
    BY <2>2 DEF Endpoint
  <2>4. distance_bits'[Endpoint(t)'] # Infinity
    BY <1>0, <2>2, <2>3 DEF TypeOK
  <2>5. QED
    BY <2>1, <2>2, <2>4, NextQuiet DEF NextInv, NextOK
<1>7. CASE \/ EnterRound(t) \/ FetchSource(t) \/ FinishShare(t)
           \/ LoadSource(t) \/ FinishRow(t) \/ LoadDestination(t)
           \/ CompareAndSwap(t) /\ distance_bits[Endpoint(t)] # observed[t]
  <2>1. UNCHANGED <<enqueue_generation, frontiers, controller>>
    BY <1>7, SharedEffect DEF CompareAndSwap, MarkGeneration, ClaimPosition,
       PublishLane, StoreEntry, EnterRound, FetchSource, FinishShare, LoadSource,
       FinishRow, LoadDestination, AtOperation
  <2>2. pc[t] \notin {"claim", "publish", "store"}
    BY <1>7 DEF CompareAndSwap, EnterRound, FetchSource, FinishShare,
       LoadSource, FinishRow, LoadDestination, AtOperation
  <2>3. pc'[t] \notin {"enter", "mark", "claim", "publish", "store"}
    BY <1>0, <1>7 DEF CompareAndSwap, EnterRound, FetchSource, FinishShare,
       LoadSource, FinishRow, LoadDestination, AtOperation, LeaveEdge,
       LeaveQueueEntry, Goto, LocalTypes, Endpoint
  <2>4. QED
    BY <2>1, <2>2, <2>3, NextQuiet DEF NextInv, NextOK
<1>8. QED
  BY <1>1, <1>2, <1>3, <1>4, <1>5, <1>6, <1>7 DEF RoundStep

-----------------------------------------------------------------------------
(***************************************************************************)
(* No decrease is lost: every admitted edge stays relaxed, or is going to  *)
(* be tried.                                                               *)
(***************************************************************************)
EdgeKept(e) ==
  Relaxed(distance_bits, e)' \/ Lowered(Source[e])' \/ Ahead(e)' \/ Underway(e)'

\* A source marked or about to be marked stays so.
LEMMA LoweredKept ==
  ASSUME Steady, Running, NEW t \in Threads, RoundStep(t),
         pc[t] = "mark" => enqueue_generation'[Endpoint(t)] = Generation,
         NEW v \in Vertices, Lowered(v)
  PROVE  Lowered(v)'
<1>1. Generation' = Generation
  BY RoundKept
<1>2. CASE enqueue_generation[v] = Generation
  BY <1>1, <1>2, MarksRise DEF Lowered
<1>3. CASE \E s \in Threads : pc[s] = "mark" /\ Endpoint(s) = v
  <2>1. PICK s \in Threads : pc[s] = "mark" /\ Endpoint(s) = v
    BY <1>3
  <2>2. CASE s = t
    BY <1>1, <2>1, <2>2 DEF Lowered
  <2>3. CASE s # t
    <3>1. pc'[s] = pc[s] /\ edge'[s] = edge[s]
      BY <2>3, OnlyItself DEF OthersKept, Steady, LowerBoundInv, TypeInv
    <3>2. QED
      BY <2>1, <3>1 DEF Lowered, Endpoint
  <2>4. QED
    BY <2>2, <2>3
<1>4. QED
  BY <1>2, <1>3 DEF Lowered

\* The entry of the queue that holds the source of an edge, and the thread that
\* has the edge ahead.
LEMMA AheadKept ==
  ASSUME Steady, Running, NEW t \in Threads, RoundStep(t), NEW e \in Admitted,
         \A i \in 0 .. CurrentSize - 1 :
           frontiers[ReadSlot][i] = Source[e] /\ AheadOf(t, i, e) =>
             EdgeKept(e) \/ AheadOf(t, i, e)',
         Ahead(e)
  PROVE  EdgeKept(e)
<1>1. PICK i \in 0 .. CurrentSize - 1 :
        \E s \in Threads : frontiers[ReadSlot][i] = Source[e] /\ AheadOf(s, i, e)
  BY DEF Ahead
<1>2. PICK s \in Threads : frontiers[ReadSlot][i] = Source[e] /\ AheadOf(s, i, e)
  BY <1>1
<1>3. ReadSlot' = ReadSlot /\ CurrentSize' = CurrentSize
        /\ frontiers'[ReadSlot] = frontiers[ReadSlot]
  BY RoundKept, QueueReadKept
<1>4. AheadOf(s, i, e)' => Ahead(e)'
  BY <1>2, <1>3 DEF Ahead
<1>5. CASE s = t
  BY <1>2, <1>4, <1>5 DEF EdgeKept
<1>6. CASE s # t
  <2>1. pc'[s] = pc[s] /\ edge'[s] = edge[s] /\ queue_index'[s] = queue_index[s]
    BY <1>6, OnlyItself DEF OthersKept, Steady, LowerBoundInv, TypeInv
  <2>2. AheadOf(s, i, e)'
    BY <1>2, <2>1 DEF AheadOf, Inside
  <2>3. QED
    BY <1>4, <2>2 DEF EdgeKept
<1>7. QED
  BY <1>5, <1>6

LEMMA UnderwayKept ==
  ASSUME Steady, Running, NEW t \in Threads, RoundStep(t), NEW e \in Admitted,
         distance_bits'[Source[e]] = distance_bits[Source[e]],
         Trying(t, e) => EdgeKept(e),
         Underway(e)
  PROVE  EdgeKept(e)
<1>1. PICK s \in Threads : Trying(s, e)
  BY DEF Underway
<1>2. CASE s # t
  <2>1. pc'[s] = pc[s] /\ edge'[s] = edge[s] /\ candidate'[s] = candidate[s]
    BY <1>2, OnlyItself DEF OthersKept, Steady, LowerBoundInv, TypeInv
  <2>2. Trying(s, e)'
    BY <1>1, <2>1 DEF Trying
  <2>3. QED
    BY <2>2 DEF EdgeKept, Underway
<1>3. QED
  BY <1>1, <1>2

\* Steps that change no distance.
LEMMA ProgressQuiet ==
  ASSUME Steady, Running, NEW t \in Threads, RoundStep(t),
         UNCHANGED distance_bits,
         pc[t] = "mark" => enqueue_generation'[Endpoint(t)] = Generation,
         \A e \in Admitted :
           /\ \A i \in 0 .. CurrentSize - 1 :
                frontiers[ReadSlot][i] = Source[e] /\ AheadOf(t, i, e) =>
                  EdgeKept(e) \/ AheadOf(t, i, e)'
           /\ Trying(t, e) => EdgeKept(e)
  PROVE  ProgressInv'
<1>1. controller'.stop_reason # "converged"
  BY RoundKept
<1>2. ASSUME NEW e \in Admitted PROVE EdgeKept(e)
  <2>1. \/ Relaxed(distance_bits, e) \/ Lowered(Source[e])
        \/ Ahead(e) \/ Underway(e)
    BY DEF Steady, QueueInv, ProgressInv
  <2>2. Source[e] \in Vertices
    BY EdgeType DEF Admitted
  <2>3. CASE Relaxed(distance_bits, e)
    BY <2>3 DEF EdgeKept, Relaxed
  <2>4. CASE Lowered(Source[e])
    BY <2>2, <2>4, LoweredKept DEF EdgeKept
  <2>5. CASE Ahead(e)
    BY <2>5, AheadKept
  <2>6. CASE Underway(e)
    BY <2>6, UnderwayKept
  <2>7. QED
    BY <2>1, <2>3, <2>4, <2>5, <2>6
<1>3. QED
  BY <1>1, <1>2 DEF ProgressInv, EdgeKept

\* The compare-and-swap of a thread: the edges out of the lowered vertex are to
\* be tried again, the edge of the thread is relaxed, the others are where they
\* were.
LEMMA ProgressSwap ==
  ASSUME Steady, Running, NEW t \in Threads, CompareAndSwap(t),
         distance_bits[Endpoint(t)] = observed[t]
  PROVE  ProgressInv'
<1> DEFINE v == Endpoint(t)
<1>0. RoundStep(t) /\ LowerBoundInv /\ TypeOK
  BY DEF RoundStep, Steady, LowerBoundInv, TypeInv
<1>1. /\ edge[t] \in Admitted /\ Source[edge[t]] = source[t]
      /\ v \in Vertices
      /\ distance_bits' = [distance_bits EXCEPT ![v] = candidate[t]]
      /\ candidate[t] \in Distances
      /\ candidate[t] < distance_bits[v]
      /\ pc'[t] = "mark"
      /\ UNCHANGED <<edge, candidate>>
  BY <1>0, SwapLowers
<1>2. pc[t] = "cas" /\ UNCHANGED queue_index
  BY DEF CompareAndSwap, AtOperation
<1>3. controller'.stop_reason # "converged"
  BY <1>0, RoundKept
<1>4. /\ distance_bits'[v] = candidate[t]
      /\ \A w \in Vertices : w # v => distance_bits'[w] = distance_bits[w]
  BY <1>0, <1>1 DEF TypeOK
<1>5. Endpoint(t)' = v
  BY <1>1 DEF Endpoint
<1>6. Destination[edge[t]] = v
  BY DEF Endpoint
<1> HIDE DEF v
<1>7. ASSUME NEW e \in Admitted PROVE EdgeKept(e)
  <2>1. /\ Source[e] \in Vertices /\ Destination[e] \in Vertices
        /\ Weight[e] \in 0 .. Infinity - 1
    BY EdgeType DEF Admitted
  <2>2. CASE Source[e] = v
    BY <1>1, <1>5, <2>2 DEF EdgeKept, Lowered
  <2>3. CASE Source[e] # v
    <3>1. distance_bits'[Source[e]] = distance_bits[Source[e]]
      BY <1>4, <2>1, <2>3
    <3>2. \/ Relaxed(distance_bits, e) \/ Lowered(Source[e])
          \/ Ahead(e) \/ Underway(e)
      BY DEF Steady, QueueInv, ProgressInv
    <3>3. CASE Relaxed(distance_bits, e)
      <4>1. /\ distance_bits[Destination[e]] \in Int
            /\ distance_bits'[Destination[e]] \in Distances
            /\ distance_bits'[Destination[e]] <= distance_bits[Destination[e]]
        BY <1>0, <2>1, DistancesFall
      <4>2. distance_bits[Destination[e]] <= Plus(distance_bits[Source[e]], Weight[e])
        BY <3>3 DEF Relaxed
      <4>3. Plus(distance_bits[Source[e]], Weight[e]) \in Int
        <5>1. distance_bits[Source[e]] \in Distances
          BY <1>0, <2>1 DEF TypeOK
        <5>2. QED
          BY <2>1, <5>1, PlusType DEF Distances
      <4>4. distance_bits'[Destination[e]] <= Plus(distance_bits[Source[e]], Weight[e])
        BY <4>1, <4>2, <4>3 DEF Distances
      <4>5. QED
        BY <3>1, <4>4 DEF EdgeKept, Relaxed
    <3>4. CASE Lowered(Source[e])
      <4>1. pc[t] # "mark"
        BY <1>2
      <4>2. QED
        BY <1>0, <2>1, <3>4, <4>1, LoweredKept DEF EdgeKept
    <3>5. CASE Ahead(e)
      <4>1. \A i : AheadOf(t, i, e) => AheadOf(t, i, e)'
        BY <1>1, <1>2 DEF AheadOf, Inside
      <4>2. QED
        BY <1>0, <3>5, <4>1, AheadKept
    <3>6. CASE Underway(e)
      <4>1. ASSUME Trying(t, e) PROVE EdgeKept(e)
        <5>1. Destination[e] = v
                /\ candidate[t] = Plus(distance_bits[Source[e]], Weight[e])
          BY <1>6, <4>1 DEF Trying
        <5>2. distance_bits'[Destination[e]] <= Plus(distance_bits'[Source[e]], Weight[e])
          BY <1>1, <1>4, <3>1, <5>1 DEF Distances
        <5>3. QED
          BY <5>2 DEF EdgeKept, Relaxed
      <4>2. QED
        BY <1>0, <3>1, <3>6, <4>1, UnderwayKept
    <3>7. QED
      BY <3>2, <3>3, <3>4, <3>5, <3>6
  <2>4. QED
    BY <2>2, <2>3
<1>8. QED
  BY <1>3, <1>7 DEF ProgressInv, EdgeKept

LEMMA ProgressEnter ==
  ASSUME Steady, Running, NEW t \in Threads, EnterRound(t)
  PROVE  ProgressInv'
<1>0. LocalTypes /\ RoundStep(t)
  BY TypeParts DEF Steady, LowerBoundInv, TypeInv, RoundStep
<1>1. Execute /\ ValidRound
  BY RunningRound DEF Steady
<1>2. /\ pc[t] = "enter" /\ pc'[t] = "fetch" /\ queue_index'[t] = t
      /\ UNCHANGED distance_bits
  BY <1>0, <1>1 DEF EnterRound, AtOperation, Goto, LocalTypes, workspaceVars
<1>3. ThreadCount \in Nat \ {0} /\ t \in 0 .. ThreadCount - 1 /\ t \in Int
  BY EngineAssumption DEF Threads
<1>4. ASSUME NEW e \in Admitted, NEW i \in 0 .. CurrentSize - 1, AheadOf(t, i, e)
      PROVE  AheadOf(t, i, e)'
  <2>1. i % ThreadCount = t /\ i \in Nat
    BY <1>4 DEF AheadOf
  <2>2. t <= i
    BY <1>3, <2>1, ShareStarts
  <2>3. queue_index'[t] < i \/ queue_index'[t] = i
    BY <1>2, <1>3, <2>1, <2>2
  <2>4. QED
    BY <1>2, <2>1, <2>3 DEF AheadOf, Inside
<1>5. \A e \in Admitted : ~Trying(t, e)
  BY <1>2 DEF Trying
<1>6. QED
  BY <1>0, <1>2, <1>4, <1>5, ProgressQuiet

LEMMA ProgressFetch ==
  ASSUME Steady, Running, NEW t \in Threads, FetchSource(t)
  PROVE  ProgressInv'
<1>0. LocalTypes /\ RoundStep(t)
  BY TypeParts DEF Steady, LowerBoundInv, TypeInv, RoundStep
<1>1. /\ CurrentSize \in 1 .. QueueCapacity /\ queue_index[t] < CurrentSize
      /\ queue_index[t] \in Nat
  BY <1>0, RunningRound DEF ValidRound, FetchSource, Steady, LocalTypes
<1>2. queue_index[t] \in 0 .. CurrentSize - 1
  BY <1>1, EngineAssumption, GraphAssumption
<1>3. InSelectedTile(frontiers[ReadSlot][queue_index[t]])
  BY <1>2 DEF Steady, QueueInv, CurrentInv
<1>4. /\ pc[t] = "fetch" /\ pc'[t] = "edge" /\ edge'[t] = 0
      /\ queue_index'[t] = queue_index[t]
      /\ UNCHANGED distance_bits
  BY <1>0, <1>3 DEF FetchSource, AtOperation, Goto, LocalTypes, workspaceVars
<1>5. ASSUME NEW e \in Admitted, NEW i \in 0 .. CurrentSize - 1, AheadOf(t, i, e)
      PROVE  AheadOf(t, i, e)'
  <2>1. edge'[t] < e
    BY <1>4, GraphAssumption DEF Admitted, Edges
  <2>2. QED
    BY <1>4, <1>5, <2>1 DEF AheadOf, Inside
<1>6. \A e \in Admitted : ~Trying(t, e)
  BY <1>4 DEF Trying
<1>7. QED
  BY <1>0, <1>4, <1>5, <1>6, ProgressQuiet

LEMMA ProgressFinishShare ==
  ASSUME Steady, Running, NEW t \in Threads, FinishShare(t)
  PROVE  ProgressInv'
<1>0. LocalTypes /\ RoundStep(t)
  BY TypeParts DEF Steady, LowerBoundInv, TypeInv, RoundStep
<1>1. /\ pc[t] = "fetch" /\ queue_index[t] >= CurrentSize
      /\ queue_index[t] \in Nat /\ CurrentSize \in Nat
      /\ UNCHANGED distance_bits
  <2>1. CurrentSize \in Nat
    BY RunningRound, EngineAssumption, GraphAssumption DEF ValidRound, Steady
  <2>2. QED
    BY <1>0, <2>1 DEF FinishShare, AtOperation, LocalTypes, workspaceVars
<1>2. ASSUME NEW e \in Admitted, NEW i \in 0 .. CurrentSize - 1
      PROVE  ~AheadOf(t, i, e)
  BY <1>1 DEF AheadOf
<1>3. \A e \in Admitted : ~Trying(t, e)
  BY <1>1 DEF Trying
<1>4. QED
  BY <1>0, <1>1, <1>2, <1>3, ProgressQuiet

\* An edge ahead of a thread, out of the entry it works on, remains.
LEMMA AheadRemains ==
  ASSUME Steady, Running, NEW t \in Threads, stage = "round",
         pc[t] = "edge", NEW e \in Admitted, NEW i \in 0 .. CurrentSize - 1,
         frontiers[ReadSlot][i] = Source[e], AheadOf(t, i, e),
         ~(queue_index[t] < i)
  PROVE  e \in Remaining(t) /\ queue_index[t] = i
<1>1. queue_index[t] = i /\ edge[t] < e
  BY DEF AheadOf
<1>2. source[t] = frontiers[ReadSlot][queue_index[t]]
  BY DEF Steady, QueueInv, ShareInv, Inside
<1>3. run_lane_masks = Admitted
  BY DEF Steady, QueueInv, SeedInv
<1>4. QED
  BY <1>1, <1>2, <1>3 DEF Remaining, Row, Admitted

LEMMA ProgressLoad ==
  ASSUME Steady, Running, NEW t \in Threads, LoadSource(t)
  PROVE  ProgressInv'
<1>0. LocalTypes /\ RoundStep(t) /\ stage = "round"
  BY TypeParts DEF Steady, LowerBoundInv, TypeInv, RoundStep, LoadSource, AtOperation
<1>1. PICK f \in Remaining(t) :
        /\ \A g \in Remaining(t) : f <= g
        /\ edge' = [edge EXCEPT ![t] = f]
        /\ candidate' = [candidate EXCEPT
                           ![t] = Plus(distance_bits[source[t]], Weight[f])]
  BY DEF LoadSource
<1>2. /\ pc[t] = "edge" /\ pc'[t] = "load" /\ edge'[t] = f
      /\ candidate'[t] = Plus(distance_bits[source[t]], Weight[f])
      /\ UNCHANGED <<distance_bits, queue_index>>
      /\ Source[f] = source[t] /\ f \in Int
  BY <1>0, <1>1 DEF LoadSource, AtOperation, Goto, LocalTypes, workspaceVars,
                    Remaining, Row, Edges
<1>3. ASSUME NEW e \in Admitted, NEW i \in 0 .. CurrentSize - 1,
             frontiers[ReadSlot][i] = Source[e], AheadOf(t, i, e)
      PROVE  EdgeKept(e) \/ AheadOf(t, i, e)'
  <2>1. CASE queue_index[t] < i
    BY <1>2, <1>3, <2>1 DEF AheadOf, Inside
  <2>2. CASE ~(queue_index[t] < i)
    <3>1. e \in Remaining(t) /\ queue_index[t] = i
      BY <1>0, <1>2, <1>3, <2>2, AheadRemains
    <3>2. f <= e /\ e \in Int
      BY <1>1, <3>1 DEF Remaining, Row, Edges
    <3>3. CASE f = e
      <4>1. Trying(t, e)'
        BY <1>2, <3>3 DEF Trying
      <4>2. QED
        BY <4>1 DEF EdgeKept, Underway
    <3>4. CASE f # e
      <4>1. edge'[t] < e
        BY <1>2, <3>2, <3>4
      <4>2. QED
        BY <1>2, <1>3, <3>1, <4>1 DEF AheadOf, Inside
    <3>5. QED
      BY <3>3, <3>4
  <2>3. QED
    BY <2>1, <2>2
<1>4. \A e \in Admitted : ~Trying(t, e)
  BY <1>2 DEF Trying
<1>5. QED
  BY <1>0, <1>2, <1>3, <1>4, ProgressQuiet

LEMMA ProgressFinishRow ==
  ASSUME Steady, Running, NEW t \in Threads, FinishRow(t)
  PROVE  ProgressInv'
<1>0. LocalTypes /\ RoundStep(t) /\ stage = "round"
  BY TypeParts DEF Steady, LowerBoundInv, TypeInv, RoundStep, FinishRow, AtOperation
<1>1. /\ pc[t] = "edge" /\ pc'[t] = "fetch" /\ Remaining(t) = {}
      /\ queue_index'[t] = queue_index[t] + ThreadCount
      /\ queue_index[t] \in Nat
      /\ UNCHANGED distance_bits
  BY <1>0 DEF FinishRow, AtOperation, LeaveQueueEntry, Goto, LocalTypes, workspaceVars
<1>2. queue_index[t] % ThreadCount = t
  BY <1>1 DEF Steady, QueueInv, ShareInv, Inside
<1>3. ThreadCount \in Nat \ {0}
  BY EngineAssumption
<1>4. ASSUME NEW e \in Admitted, NEW i \in 0 .. CurrentSize - 1,
             frontiers[ReadSlot][i] = Source[e], AheadOf(t, i, e)
      PROVE  AheadOf(t, i, e)'
  <2>1. queue_index[t] < i
    BY <1>0, <1>1, <1>4, AheadRemains
  <2>2. i % ThreadCount = t /\ i \in Nat
    BY <1>4 DEF AheadOf
  <2>3. queue_index[t] + ThreadCount <= i
    BY <1>1, <1>2, <1>3, <2>1, <2>2, ShareHasGaps
  <2>4. queue_index'[t] < i \/ queue_index'[t] = i
    BY <1>1, <1>3, <2>2, <2>3
  <2>5. QED
    BY <1>1, <2>2, <2>4 DEF AheadOf, Inside
<1>5. \A e \in Admitted : ~Trying(t, e)
  BY <1>1 DEF Trying
<1>6. QED
  BY <1>0, <1>1, <1>4, <1>5, ProgressQuiet

\* The candidate of a thread that gives its edge up is no decrease.
LEMMA ProgressTry ==
  ASSUME Steady, Running, NEW t \in Threads,
         \/ LoadDestination(t)
         \/ CompareAndSwap(t) /\ distance_bits[Endpoint(t)] # observed[t]
  PROVE  ProgressInv'
<1>0. LocalTypes /\ TypeOK /\ RoundStep(t)
  BY TypeParts DEF Steady, LowerBoundInv, TypeInv, RoundStep
<1>1. /\ pc[t] \in {"load", "cas"} /\ UNCHANGED <<distance_bits, edge, queue_index>>
      /\ \/ pc'[t] = "cas" /\ candidate'[t] = candidate[t]
         \/ pc'[t] = "edge" /\ ~(candidate[t] < distance_bits[Endpoint(t)])
  <2>1. CASE LoadDestination(t)
    BY <1>0, <2>1 DEF LoadDestination, AtOperation, LeaveEdge, Goto, LocalTypes,
                      workspaceVars, Endpoint
  <2>2. CASE CompareAndSwap(t) /\ distance_bits[Endpoint(t)] # observed[t]
    <3>1. pc[t] = "cas" /\ UNCHANGED <<distance_bits, edge, queue_index>>
      BY <2>2 DEF CompareAndSwap, AtOperation, Endpoint
    <3>2. CASE candidate[t] < distance_bits[Endpoint(t)] /\ UNCHANGED <<pc, candidate>>
      BY <3>1, <3>2
    <3>3. CASE candidate[t] >= distance_bits[Endpoint(t)] /\ LeaveEdge(t)
      <4>1. pc'[t] = "edge"
        BY <1>0, <3>3 DEF LeaveEdge, Goto, LocalTypes
      <4>2. candidate[t] \in Int /\ distance_bits[Endpoint(t)] \in Int
        <5>1. Endpoint(t) \in Vertices
          BY <3>1, EdgeType DEF Endpoint, Admitted, OnEdge, Steady, LowerBoundInv, TypeInv
        <5>2. QED
          BY <1>0, <5>1 DEF TypeOK, Distances
      <4>3. QED
        BY <3>1, <3>3, <4>1, <4>2
    <3>4. QED
      BY <2>2, <3>2, <3>3 DEF CompareAndSwap, Endpoint
  <2>3. QED
    BY <2>1, <2>2
<1>2. \A e \in Admitted, i \in 0 .. CurrentSize - 1 :
        AheadOf(t, i, e) => AheadOf(t, i, e)'
  BY <1>1 DEF AheadOf, Inside
<1>3. ASSUME NEW e \in Admitted, Trying(t, e) PROVE EdgeKept(e)
  <2>1. /\ edge[t] = e
        /\ candidate[t] = Plus(distance_bits[Source[e]], Weight[e])
    BY <1>3 DEF Trying
  <2>2. CASE pc'[t] = "cas" /\ candidate'[t] = candidate[t]
    <3>1. Trying(t, e)'
      BY <1>1, <2>1, <2>2 DEF Trying
    <3>2. QED
      BY <3>1 DEF EdgeKept, Underway
  <2>3. CASE ~(candidate[t] < distance_bits[Endpoint(t)])
    <3>1. Destination[e] \in Vertices /\ Destination[e] = Endpoint(t)
      BY <2>1, EdgeType DEF Admitted, Endpoint
    <3>2. candidate[t] \in Int /\ distance_bits[Destination[e]] \in Int
      BY <1>0, <3>1 DEF TypeOK, Distances
    <3>3. distance_bits[Destination[e]] <= Plus(distance_bits[Source[e]], Weight[e])
      BY <2>1, <2>3, <3>1, <3>2
    <3>4. QED
      BY <1>1, <3>3 DEF EdgeKept, Relaxed
  <2>4. QED
    BY <1>1, <2>2, <2>3
<1>4. pc[t] # "mark"
  BY <1>1
<1>5. QED
  BY <1>0, <1>1, <1>2, <1>3, <1>4, ProgressQuiet

LEMMA ProgressHold ==
  ASSUME Steady, Running, NEW t \in Threads,
         \/ MarkGeneration(t) \/ ClaimPosition(t) \/ PublishLane(t)
         \/ StoreEntry(t)
  PROVE  ProgressInv'
<1>0. LocalTypes /\ TypeOK /\ RoundStep(t)
  BY TypeParts DEF Steady, LowerBoundInv, TypeInv, RoundStep
<1>1. /\ pc[t] \in {"mark", "claim", "publish", "store"}
      /\ pc'[t] \in {"edge", "claim", "publish", "store"}
      /\ UNCHANGED <<distance_bits, edge, queue_index>>
  BY <1>0 DEF MarkGeneration, ClaimPosition, PublishLane, StoreEntry,
       AtOperation, LeaveEdge, Goto, LocalTypes, workspaceVars, localVars
<1>2. ASSUME pc[t] = "mark"
      PROVE  enqueue_generation'[Endpoint(t)] = Generation
  <2>1. enqueue_generation' = [enqueue_generation EXCEPT ![Endpoint(t)] = Generation]
    BY <1>2 DEF MarkGeneration, ClaimPosition, PublishLane, StoreEntry,
                AtOperation, Endpoint
  <2>2. Endpoint(t) \in Vertices
    BY <1>1, EdgeType DEF Endpoint, Admitted, OnEdge, Steady, LowerBoundInv, TypeInv
  <2>3. QED
    BY <1>0, <2>1, <2>2 DEF TypeOK
<1>3. \A e \in Admitted, i \in 0 .. CurrentSize - 1 :
        AheadOf(t, i, e) => AheadOf(t, i, e)'
  BY <1>1 DEF AheadOf, Inside
<1>4. \A e \in Admitted : ~Trying(t, e)
  BY <1>1 DEF Trying
<1>5. QED
  BY <1>0, <1>1, <1>2, <1>3, <1>4, ProgressQuiet

LEMMA RoundQueue ==
  ASSUME Steady, Running, NEW t \in Threads, RoundStep(t)
  PROVE  QueueInv'
<1>1. ProgressInv'
  BY ProgressEnter, ProgressFetch, ProgressFinishShare, ProgressLoad,
     ProgressFinishRow, ProgressTry, ProgressSwap, ProgressHold DEF RoundStep
<1>2. QED
  BY <1>1, RoundKept, SeedKept, CurrentKept, NextKept, ShareKept DEF QueueInv

-----------------------------------------------------------------------------
(***************************************************************************)
(* The other steps: initialization, the rounds a chunk runs after the      *)
(* controller is done, the barrier, the host.                              *)
(***************************************************************************)
\* What holds when no round is being executed says nothing of the queues.
LEMMA QuietQueue ==
  ASSUME ControlInv, SeedInv, ~Running, stage = "initialize" \/
           (controller.stop_reason = "converged" =>
              \A e \in Admitted : Relaxed(distance_bits, e))
  PROVE  QueueInv
BY DEF QueueInv, CurrentInv, NextInv, ShareInv, ProgressInv

LEMMA DoneRound ==
  ASSUME Steady, ~Running, NEW t \in Threads, RoundStep(t)
  PROVE  QueueInv'
<1>1. stage = "round" /\ stage' = "round"
  BY OnlyItself DEF Steady, LowerBoundInv, TypeInv
<1>2. controller.done
  BY <1>1 DEF Running
<1>3. ~Execute
  BY <1>2 DEF Execute
<1>4. pc[t] = "enter"
  <2>1. ~Inside(t)
    BY <1>3 DEF Steady, LowerBoundInv, TypeInv, InsideRound
  <2>2. pc[t] # "sync"
    BY DEF RoundStep, EnterRound, FetchSource, FinishShare, LoadSource,
       FinishRow, LoadDestination, CompareAndSwap, MarkGeneration,
       ClaimPosition, PublishLane, StoreEntry, AtOperation
  <2>3. QED
    BY <2>1, <2>2 DEF Inside
<1>5. EnterRound(t)
  BY <1>4 DEF RoundStep, FetchSource, FinishShare, LoadSource,
       FinishRow, LoadDestination, CompareAndSwap, MarkGeneration,
       ClaimPosition, PublishLane, StoreEntry, AtOperation
<1>6. UNCHANGED <<controller, distance_bits, run_lane_masks>>
  BY <1>3, <1>5 DEF EnterRound, workspaceVars
<1>7. QED
  BY <1>1, <1>2, <1>6 DEF Steady, QueueInv, ControlInv, SeedInv, CurrentInv,
     NextInv, ShareInv, ProgressInv, Running, Relaxed

LEMMA QueueInit == Init => QueueInv
<1> SUFFICES ASSUME Init PROVE QueueInv
  OBVIOUS
<1>1. OptionsOK(run_options) /\ controller = FreshController(run_options)
  BY EngineAssumption DEF Init, OptionsOK, FreshController
<1>2. SoundControl(controller)
  BY <1>1, FreshSound
<1>3. stage = "initialize" /\ \A t \in Threads : pc[t] = "enter"
  BY DEF Init
<1>4. 0 \in Threads /\ \A e \in Edges : Source[e] % ThreadCount \in Threads
  BY EngineAssumption, EdgeType, ThreadOf DEF Threads
<1>5. SeedInv
  BY <1>1, <1>3, <1>4 DEF SeedInv
<1>6. QED
  BY <1>2, <1>3, <1>5, QuietQueue DEF ControlInv, Running

LEMMA SeededSound ==
  ASSUME TypeOK
  PROVE  SoundControl(SeededController)
<1>1. OptionsOK(run_options)
  BY EngineAssumption DEF TypeOK, OptionsOK
<1>2. SoundControl(FreshController(run_options))
        /\ FreshController(run_options) \in DeviceControllers
  BY <1>1, FreshSound, FreshControllerType
<1>3. "queue_overflow" \in ErrorReasons
  BY DEF ErrorReasons
<1>4. SoundControl(CanonicalizeFrontierError(FreshController(run_options),
                                             "queue_overflow"))
  BY <1>2, <1>3, CanonicalSound DEF SoundControl
<1>5. QED
  BY <1>2, <1>4 DEF SeededController, FreshController

LEMMA QueueInitialize ==
  ASSUME Steady, NEW t \in Threads, InitializeVertices(t)
  PROVE  QueueInv'
<1>0. TypeOK /\ LocalTypes /\ SeedInv /\ ControlInv
  BY TypeParts DEF Steady, LowerBoundInv, TypeInv, QueueInv
<1>1. /\ stage = "initialize" /\ stage' = "initialize" /\ pc[t] = "enter"
      /\ pc'[t] = "sync" /\ \A s \in Threads \ {t} : pc'[s] = pc[s]
      /\ UNCHANGED run_options
  BY <1>0 DEF InitializeVertices, LocalTypes, hostVars
<1>2. SeededController' = SeededController
        /\ FreshController(run_options)' = FreshController(run_options)
  BY <1>1 DEF SeededController, FreshController
<1>3. 0 \in Threads
  BY EngineAssumption DEF Threads
<1>4. SoundControl(controller')
  <2>1. CASE t = 0
    BY <1>0, <2>1, SeededSound DEF InitializeVertices
  <2>2. CASE t # 0
    BY <1>0, <2>2 DEF InitializeVertices, ControlInv
  <2>3. QED
    BY <2>1, <2>2
<1>5. IF pc'[0] = "sync"
        THEN controller' = SeededController' /\ frontiers'[0] = SeededFrontier'
        ELSE controller' = FreshController(run_options)'
  <2>1. CASE t = 0
    <3>1. controller' = SeededController /\ frontiers' = [frontiers EXCEPT ![0] = SeededFrontier]
      BY <2>1 DEF InitializeVertices
    <3>2. frontiers'[0] = SeededFrontier
      BY <1>0, <3>1 DEF TypeOK, Slots
    <3>3. SeededFrontier' = SeededFrontier
      BY <3>2 DEF SeededFrontier
    <3>4. QED
      BY <1>1, <1>2, <2>1, <3>1, <3>2, <3>3
  <2>2. CASE t # 0
    <3>1. UNCHANGED <<frontiers, controller>>
      BY <2>2 DEF InitializeVertices
    <3>2. SeededFrontier' = SeededFrontier
      BY <3>1 DEF SeededFrontier
    <3>3. QED
      BY <1>0, <1>1, <1>2, <1>3, <2>2, <3>1, <3>2 DEF SeedInv
  <2>3. QED
    BY <2>1, <2>2
<1>6. ASSUME NEW e \in Edges, pc'[Source[e] % ThreadCount] = "sync"
      PROVE  e \in run_lane_masks' <=> e \in Admitted
  <2>1. Source[e] \in Vertices /\ Source[e] % ThreadCount \in Threads
    BY EdgeType, ThreadOf
  <2>2. CASE Source[e] % ThreadCount = t
    BY <2>1, <2>2 DEF InitializeVertices, RunMarked, Admitted
  <2>3. CASE Source[e] % ThreadCount # t
    <3>1. pc[Source[e] % ThreadCount] = "sync"
      BY <1>1, <1>6, <2>1, <2>3
    <3>2. e \in run_lane_masks <=> e \in Admitted
      BY <1>0, <1>1, <3>1 DEF SeedInv
    <3>3. e \in run_lane_masks' <=> e \in run_lane_masks
      BY <2>1, <2>3 DEF InitializeVertices
    <3>4. QED
      BY <3>2, <3>3
  <2>4. QED
    BY <2>2, <2>3
<1>7. SeedInv'
  BY <1>1, <1>5, <1>6 DEF SeedInv
<1>8. ControlInv' /\ ~Running'
  BY <1>1, <1>4 DEF ControlInv, Running
<1>9. QED
  BY <1>1, <1>7, <1>8, QuietQueue DEF QueueInv, CurrentInv, NextInv, ShareInv,
     ProgressInv

\* The first frontier is the list of sources, unless it does not fit.
LEMMA QueueStart ==
  ASSUME Steady, FinishInitialize
  PROVE  QueueInv'
<1>0. TypeOK /\ LocalTypes /\ SeedInv /\ ControlInv /\ TypeOK'
  BY TypeParts DEF Steady, LowerBoundInv, TypeInv, QueueInv
<1>1. /\ stage = "initialize" /\ stage' = "round"
      /\ \A t \in Threads : pc[t] = "sync" /\ pc'[t] = "enter"
      /\ UNCHANGED <<distance_bits, enqueue_generation, frontiers,
                     run_lane_masks, controller, run_options>>
  BY DEF FinishInitialize, workspaceVars, hostVars
<1>2. 0 \in Threads /\ ThreadCount \in Nat \ {0}
  BY EngineAssumption DEF Threads
<1>3. controller = SeededController /\ frontiers[0] = SeededFrontier
  BY <1>0, <1>1, <1>2 DEF SeedInv
<1>4. run_lane_masks = Admitted
  <2>1. \A e \in Edges : e \in run_lane_masks <=> e \in Admitted
    BY <1>0, <1>1, EdgeType, ThreadOf DEF SeedInv
  <2>2. QED
    BY <1>0, <2>1 DEF TypeOK, Admitted
<1>5. \A v \in Vertices : distance_bits[v] = InitialDistance[v]
                            /\ enqueue_generation[v] = 0
  BY <1>1, ThreadOf DEF Steady, LowerBoundInv, ResetBySynced
<1>6. \A v \in Sources : distance_bits[v] = 0
  BY <1>5, SourcesAreVertices DEF InitialDistance
<1>7. ControlInv' /\ SeedInv'
  BY <1>0, <1>1, <1>4, <1>6 DEF ControlInv, SeedInv
<1>8. OptionsOK(run_options)
  BY <1>0, EngineAssumption DEF TypeOK, OptionsOK
<1>9. FreshController(run_options) \in DeviceControllers
        /\ CommonSound(FreshController(run_options))
  BY <1>8, FreshControllerType, FreshSound DEF SoundControl
<1>10. CASE Len(SourceList) > QueueCapacity
  <2>1. controller = CanonicalizeFrontierError(FreshController(run_options),
                                              "queue_overflow")
    BY <1>3, <1>10 DEF SeededController, FreshController
  <2>2. "queue_overflow" \in ErrorReasons /\ "queue_overflow" # "converged"
    BY DEF ErrorReasons
  <2>3. controller.done /\ controller.stop_reason = "queue_overflow"
    BY <1>9, <2>1, <2>2, CanonicalSound
  <2>4. ~Running' /\ controller'.stop_reason # "converged"
    BY <1>1, <2>2, <2>3 DEF Running
  <2>5. QED
    BY <1>7, <2>4 DEF QueueInv, CurrentInv, NextInv, ShareInv, ProgressInv
<1>11. CASE ~(Len(SourceList) > QueueCapacity)
  <2>1. controller = FreshController(run_options)
    BY <1>3, <1>11 DEF SeededController, FreshController
  <2>2. /\ ~controller.done /\ SoundControl(controller)
        /\ controller.error_bits = {}
        /\ controller.next_frontier_lane_mask = {}
        /\ controller.rounds_completed = 0
        /\ ReadSlot = 0 /\ WriteSlot = 1
        /\ CurrentSize = Len(SourceList)
        /\ NextSize = 0
    BY <1>8, <2>1, FreshSound DEF ReadSlot, WriteSlot, CurrentSize, NextSize
  <2>3. /\ Running' /\ ReadSlot' = 0 /\ WriteSlot' = 1
        /\ CurrentSize' = Len(SourceList) /\ NextSize' = 0 /\ Generation' = 1
        /\ ~Overflowed'
        /\ controller'.rounds_completed = 0
        /\ controller'.error_bits = {}
        /\ controller'.next_frontier_lane_mask = {}
    BY <1>1, <2>2 DEF Running, ReadSlot, WriteSlot, CurrentSize, NextSize,
                      Generation, Overflowed
  <2>4. Len(SourceList) \in 1 .. QueueCapacity /\ Len(SourceList) \in Nat
    BY <1>11, QueryAssumption, EngineAssumption, GraphAssumption
  <2>5. ASSUME NEW i \in 0 .. Len(SourceList) - 1
        PROVE  /\ frontiers'[0][i] = SourceList[i + 1]
               /\ i + 1 \in 1 .. Len(SourceList)
               /\ SourceList[i + 1] \in Sources
               /\ SourceList[i + 1] \in Vertices
               /\ InSelectedTile(SourceList[i + 1])
    <3>1. i \in Positions /\ i + 1 \in 1 .. Len(SourceList) /\ i < Len(SourceList)
      BY <2>4, EngineAssumption, GraphAssumption DEF Positions
    <3>2. SourceList[i + 1] \in Sources /\ InSelectedTile(SourceList[i + 1])
      BY <3>1, QueryAssumption DEF Sources
    <3>3. SourceList[i + 1] \in Vertices
      BY <3>2, SourcesAreVertices
    <3>4. frontiers'[0][i] = SourceList[i + 1]
      BY <1>1, <1>3, <3>1 DEF SeededFrontier
    <3>5. QED
      BY <3>1, <3>2, <3>3, <3>4
  <2>6. CurrentInv'
    <3>1. ASSUME NEW i \in 0 .. Len(SourceList) - 1,
                 NEW j \in 0 .. Len(SourceList) - 1, i # j
          PROVE  frontiers'[0][i] # frontiers'[0][j]
      <4>1. /\ i + 1 \in 1 .. Len(SourceList) /\ j + 1 \in 1 .. Len(SourceList)
            /\ i + 1 < j + 1 \/ j + 1 < i + 1
        BY <2>4, <2>5, <3>1
      <4>2. /\ SourceList[i + 1] < SourceList[j + 1]
                 \/ SourceList[j + 1] < SourceList[i + 1]
        BY <4>1, QueryAssumption
      <4>3. SourceList[i + 1] \in Int /\ SourceList[j + 1] \in Int
        <5>1. SourceList[i + 1] \in Vertices /\ SourceList[j + 1] \in Vertices
          BY <2>5
        <5>2. \A v \in Vertices : v \in Int
          BY GraphAssumption DEF Vertices
        <5>3. QED
          BY <5>1, <5>2
      <4>4. SourceList[i + 1] # SourceList[j + 1]
        BY <4>2, <4>3
      <4>5. QED
        BY <2>5, <4>4
    <3>2. ASSUME NEW i \in 0 .. Len(SourceList) - 1
          PROVE  /\ frontiers'[0][i] \in Vertices
                 /\ InSelectedTile(frontiers'[0][i])
                 /\ distance_bits'[frontiers'[0][i]] # Infinity
      BY <1>1, <1>6, <2>5, GraphAssumption
    <3>3. QED
      BY <2>3, <2>4, <3>1, <3>2 DEF CurrentInv
  <2>7. NextInv'
    <3>1. \A t \in Threads : ~Holds(t)' /\ ~Placed(t)' /\ pc'[t] # "mark"
            /\ pc'[t] # "store"
      BY <1>1 DEF Holds, Placed
    <3>2. \A i \in Positions : ~Stored(i)'
      BY <2>3 DEF Stored, Positions
    <3>3. \A v \in Vertices : enqueue_generation'[v] <= Generation'
            /\ enqueue_generation'[v] # Generation'
      BY <1>1, <1>5, <2>3
    <3>4. MarkInv' /\ HolderInv' /\ EntryInv'
      BY <3>1, <3>2, <3>3 DEF MarkInv, HolderInv, EntryInv
    <3>5. SizeInv'
      BY <2>3, <3>1 DEF SizeInv
    <3>6. QED
      BY <3>4, <3>5 DEF NextInv
  <2>8. ShareInv'
    BY <1>1 DEF ShareInv, Inside
  <2>9. ProgressInv'
    <3>1. controller'.stop_reason # "converged"
      BY <1>1, <2>2 DEF SoundControl, RunningSound
    <3>2. ASSUME NEW e \in Admitted
          PROVE  Relaxed(distance_bits, e)' \/ Ahead(e)'
      <4>1. /\ Source[e] \in Vertices /\ Destination[e] \in Vertices
            /\ Weight[e] \in 0 .. Infinity - 1
        BY EdgeType DEF Admitted
      <4>2. CASE Source[e] \in Sources
        <5>1. PICK k \in 1 .. Len(SourceList) : SourceList[k] = Source[e]
          BY <4>2 DEF Sources
        <5>2. PICK i \in 0 .. Len(SourceList) - 1 : i + 1 = k
          <6>1. k - 1 \in 0 .. Len(SourceList) - 1 /\ (k - 1) + 1 = k
            BY <2>4, <5>1
          <6>2. QED
            BY <6>1
        <5>3. frontiers'[0][i] = Source[e]
          BY <2>5, <5>1, <5>2
        <5>4. i % ThreadCount \in Threads
          <6>1. i \in Nat
            BY <2>4
          <6>2. i % ThreadCount \in 0 .. ThreadCount - 1
            BY <1>2, <6>1, Division
          <6>3. QED
            BY <6>2 DEF Threads
        <5>5. \E t \in Threads : AheadOf(t, i, e)'
          BY <1>1, <5>4 DEF AheadOf
        <5>6. QED
          BY <2>3, <5>3, <5>5 DEF Ahead
      <4>3. CASE Source[e] \notin Sources
        <5>1. distance_bits[Source[e]] = Infinity
          BY <1>5, <4>1, <4>3 DEF InitialDistance
        <5>2. Plus(Infinity, Weight[e]) = Infinity
          BY <4>1, GraphAssumption DEF Plus
        <5>3. distance_bits[Destination[e]] \in Distances
          BY <1>0, <4>1 DEF TypeOK
        <5>4. distance_bits[Destination[e]] <= Infinity
          BY <5>3, GraphAssumption DEF Distances
        <5>5. QED
          BY <1>1, <5>1, <5>2, <5>4 DEF Relaxed
      <4>4. QED
        BY <4>2, <4>3
    <3>3. QED
      BY <3>1, <3>2 DEF ProgressInv
  <2>10. QED
    BY <1>7, <2>6, <2>7, <2>8, <2>9 DEF QueueInv
<1>12. QED
  BY <1>10, <1>11

\* The round is over: whatever was lowered is in the next queue, or the queue
\* has overflowed and the run ends.
LEMMA RoundIsOver ==
  ASSUME Steady, Running, \A t \in Threads : pc[t] = "sync", ~Overflowed
  PROVE  /\ \A i \in 0 .. NextSize - 1 : Stored(i)
         /\ \A e \in Admitted :
              \/ Relaxed(distance_bits, e)
              \/ \E i \in 0 .. NextSize - 1 : frontiers[WriteSlot][i] = Source[e]
<1>0. NextOK
  BY DEF Steady, QueueInv, NextInv, NextOK
<1>1. NextSize \in Nat
  BY DEF Steady, LowerBoundInv, TypeInv, TypeOK, DeviceControllers, NextSize,
         WriteSlot
<1>2. \A t \in Threads : ~Holds(t) /\ ~Placed(t)
  BY DEF Holds, Placed
<1>3. ASSUME NEW i \in 0 .. NextSize - 1 PROVE Stored(i)
  <2>1. i \in Positions
    BY <1>0, <1>2 DEF NextOK, SizeInv
  <2>2. i < NextSize
    BY <1>1
  <2>3. QED
    BY <1>2, <2>1, <2>2 DEF Stored
<1>4. ASSUME NEW e \in Admitted, ~Relaxed(distance_bits, e)
      PROVE  \E i \in 0 .. NextSize - 1 : frontiers[WriteSlot][i] = Source[e]
  <2>1. Source[e] \in Vertices
    BY EdgeType DEF Admitted
  <2>2. ~Ahead(e)
    BY DEF Ahead, AheadOf, Inside
  <2>3. ~Underway(e)
    BY DEF Underway, Trying
  <2>4. Lowered(Source[e])
    BY <1>4, <2>2, <2>3 DEF Steady, QueueInv, ProgressInv
  <2>5. enqueue_generation[Source[e]] = Generation
    BY <2>4 DEF Lowered
  <2>6. PICK i \in Positions : Stored(i) /\ frontiers[WriteSlot][i] = Source[e]
    BY <1>0, <1>2, <2>1, <2>5 DEF NextOK, MarkInv
  <2>7. i \in 0 .. NextSize - 1
    BY <1>1, <2>6 DEF Stored, Positions
  <2>8. QED
    BY <2>6, <2>7
<1>5. QED
  BY <1>3, <1>4

LEMMA QueueAdvance ==
  ASSUME Steady, AdvanceController
  PROVE  QueueInv'
<1>0. TypeOK /\ SeedInv /\ ControlInv /\ TypeOK'
  BY DEF Steady, LowerBoundInv, TypeInv, QueueInv
<1>1. /\ stage = "round" /\ stage' \in {"round", "poll", "finalize"}
      /\ \A t \in Threads : pc[t] = "sync" /\ pc'[t] = "enter"
      /\ UNCHANGED <<distance_bits, enqueue_generation, frontiers,
                     run_lane_masks>>
      /\ controller' = AdvanceFrontierController(controller)
      /\ stage' = "finalize" => controller'.done
  BY DEF AdvanceController, workspaceVars
<1>2. SeedInv'
  BY <1>0, <1>1 DEF SeedInv
<1>3. controller \in DeviceControllers /\ SoundControl(controller)
  BY <1>0 DEF TypeOK, ControlInv
<1>4. CASE controller.done
  <2>1. controller' = controller
    BY <1>1, <1>4 DEF AdvanceFrontierController
  <2>2. ~Running' /\ ControlInv'
    BY <1>0, <1>1, <1>4, <2>1 DEF Running, ControlInv
  <2>3. controller'.stop_reason = "converged" =>
          \A e \in Admitted : Relaxed(distance_bits, e)'
    BY <1>1, <2>1 DEF Steady, QueueInv, ProgressInv, Relaxed
  <2>4. QED
    BY <1>2, <2>2, <2>3 DEF QueueInv, CurrentInv, NextInv, ShareInv, ProgressInv
<1>5. CASE ~controller.done
  <2>0. Running
    BY <1>1, <1>5 DEF Running
  <2>1. /\ SoundControl(controller')
        /\ controller'.stop_reason = "converged" =>
             controller.error_bits = {} /\ NextSize = 0
        /\ ~controller'.done =>
             /\ controller.error_bits = {} /\ controller'.error_bits = {}
             /\ NextSize # 0
             /\ controller'.rounds_completed = controller.rounds_completed + 1
             /\ ReadSlot' = WriteSlot /\ WriteSlot' = ReadSlot
             /\ controller'.frontier_size = [controller.frontier_size EXCEPT
                                               ![ReadSlot] = 0]
             /\ controller'.next_frontier_lane_mask = {}
    BY <1>1, <1>3, <1>5, AdvanceEffect DEF NextSize, ReadSlot, WriteSlot
  <2>2. ControlInv'
    BY <1>1, <2>1 DEF ControlInv
  <2>3. CASE controller'.done
    <3>1. ~Running'
      BY <2>3 DEF Running
    <3>2. ASSUME controller'.stop_reason = "converged", NEW e \in Admitted
          PROVE  Relaxed(distance_bits, e)'
      <4>1. ~Overflowed /\ NextSize = 0
        BY <2>1, <3>2 DEF Overflowed
      <4>2. Relaxed(distance_bits, e)
        BY <1>1, <2>0, <4>1, RoundIsOver
      <4>3. QED
        BY <1>1, <4>2 DEF Relaxed
    <3>3. QED
      BY <1>2, <2>2, <3>1, <3>2
      DEF QueueInv, CurrentInv, NextInv, ShareInv, ProgressInv
  <2>4. CASE ~controller'.done
    <3>0. /\ ReadSlot \in Slots /\ WriteSlot \in Slots /\ ReadSlot # WriteSlot
          /\ controller.frontier_size \in [Slots -> Nat]
          /\ controller.rounds_completed \in Nat
      BY <1>0, <2>0, RunningRound DEF TypeOK, DeviceControllers, ReadSlot,
         WriteSlot, Steady
    <3>1. /\ CurrentSize' = NextSize /\ NextSize' = 0
          /\ NextSize \in Nat
          /\ controller'.rounds_completed = Generation
          /\ Generation' = Generation + 1
          /\ Generation \in Nat
          /\ ~Overflowed /\ ~Overflowed'
      BY <2>1, <2>4, <3>0 DEF CurrentSize, NextSize, Generation, Overflowed
    <3>2. /\ \A i \in 0 .. NextSize - 1 : Stored(i)
          /\ \A e \in Admitted :
               \/ Relaxed(distance_bits, e)
               \/ \E i \in 0 .. NextSize - 1 : frontiers[WriteSlot][i] = Source[e]
      BY <1>1, <2>0, <3>1, RoundIsOver
    <3>3. /\ EntryInv /\ MarkInv
      BY <2>0 DEF Steady, QueueInv, NextInv
    <3>4. CurrentInv'
      <4>1. NextSize \in 1 .. QueueCapacity
        <5>1. NextSize - 1 \in Positions
          BY <2>1, <2>4, <3>1, <3>2 DEF Stored
        <5>2. QED
          BY <3>1, <2>1, <2>4, <5>1, EngineAssumption, GraphAssumption DEF Positions
      <4>2. ASSUME NEW i \in 0 .. NextSize - 1
            PROVE  /\ Stored(i) /\ i \in Positions
                   /\ frontiers[WriteSlot][i] \in Vertices
                   /\ InSelectedTile(frontiers[WriteSlot][i])
                   /\ distance_bits[frontiers[WriteSlot][i]] # Infinity
                   /\ enqueue_generation[frontiers[WriteSlot][i]] = Generation
        <5>1. Stored(i) /\ i \in Positions
          BY <3>2 DEF Stored
        <5>2. frontiers[WriteSlot][i] \in Vertices
          BY <1>0, <3>0, <5>1 DEF TypeOK
        <5>3. QED
          BY <3>3, <5>1, <5>2 DEF EntryInv
      <4>3. \A i, j \in 0 .. NextSize - 1 :
              i # j => frontiers[WriteSlot][i] # frontiers[WriteSlot][j]
        BY <3>3, <4>2 DEF EntryInv
      <4>4. QED
        BY <1>1, <2>1, <2>4, <3>1, <4>1, <4>2, <4>3 DEF CurrentInv
    <3>5. NextInv'
      <4>1. \A t \in Threads : ~Holds(t)' /\ ~Placed(t)' /\ pc'[t] # "mark"
              /\ pc'[t] # "store"
        BY <1>1 DEF Holds, Placed
      <4>2. \A i \in Positions : ~Stored(i)'
        BY <3>1 DEF Stored, Positions
      <4>3. \A v \in Vertices : enqueue_generation'[v] <= Generation'
              /\ enqueue_generation'[v] # Generation'
        <5>1. \A v \in Vertices : enqueue_generation[v] <= Generation
                /\ enqueue_generation[v] \in Nat
          BY <1>0, <3>3 DEF MarkInv, TypeOK
        <5>2. QED
          BY <1>1, <3>1, <5>1
      <4>4. MarkInv' /\ HolderInv' /\ EntryInv'
        BY <4>1, <4>2, <4>3 DEF MarkInv, HolderInv, EntryInv
      <4>5. SizeInv'
        BY <2>1, <2>4, <3>1, <4>1 DEF SizeInv
      <4>6. QED
        BY <4>4, <4>5 DEF NextInv
    <3>6. ShareInv'
      BY <1>1 DEF ShareInv, Inside
    <3>7. ProgressInv'
      <4>1. controller'.stop_reason # "converged"
        BY <2>1, <2>4 DEF SoundControl, RunningSound
      <4>2. ASSUME NEW e \in Admitted
            PROVE  Relaxed(distance_bits, e)' \/ Ahead(e)'
        <5>1. CASE Relaxed(distance_bits, e)
          BY <1>1, <5>1 DEF Relaxed
        <5>2. CASE \E i \in 0 .. NextSize - 1 : frontiers[WriteSlot][i] = Source[e]
          <6>1. PICK i \in 0 .. NextSize - 1 : frontiers[WriteSlot][i] = Source[e]
            BY <5>2
          <6>2. i \in Nat /\ ThreadCount \in Nat \ {0}
            BY <3>1, EngineAssumption
          <6>3. i % ThreadCount \in 0 .. ThreadCount - 1
            BY <6>2, Division
          <6>4. \E t \in Threads : AheadOf(t, i, e)'
            BY <1>1, <6>3 DEF AheadOf, Threads
          <6>5. QED
            BY <1>1, <2>1, <2>4, <3>1, <6>1, <6>4 DEF Ahead
        <5>3. QED
          BY <3>2, <5>1, <5>2
      <4>3. QED
        BY <4>1, <4>2 DEF ProgressInv
    <3>8. QED
      BY <1>2, <2>2, <3>4, <3>5, <3>6, <3>7 DEF QueueInv
  <2>5. QED
    BY <2>3, <2>4
<1>6. QED
  BY <1>4, <1>5

\* Steps that leave the workspace, the controller and the threads as they are.
LEMMA QueueStays ==
  ASSUME QueueInv,
         UNCHANGED <<workspaceVars, controller, run_options, pc, localVars>>,
         (stage # "initialize" /\ stage' # "initialize") \/ stage' = stage,
         Running' => Running,
         stage' \in {"finalize", "exit"} => controller.done,
         stage' = "exit" => status' = CompletedFrontierStatus(Targets)
  PROVE  QueueInv'
<1>1. ControlInv'
  BY DEF QueueInv, ControlInv
<1>2. CompletedFrontierStatus(Targets)' = CompletedFrontierStatus(Targets)
  BY DEF CompletedFrontierStatus, workspaceVars
<1>3. SeededController' = SeededController
        /\ FreshController(run_options)' = FreshController(run_options)
        /\ SeededFrontier' = SeededFrontier
  BY DEF SeededController, FreshController, SeededFrontier, workspaceVars
<1>4. SeedInv'
  BY <1>2, <1>3 DEF QueueInv, SeedInv, workspaceVars
<1>5. CurrentInv'
  BY DEF QueueInv, CurrentInv, ReadSlot, CurrentSize, Generation, workspaceVars
<1>6. NextInv'
  BY DEF QueueInv, NextInv, MarkInv, HolderInv, EntryInv, SizeInv, Holds,
     Placed, Stored, Endpoint, NextSize, Overflowed, WriteSlot, Generation,
     workspaceVars, localVars
<1>7. ShareInv'
  BY DEF QueueInv, ShareInv, Inside, ReadSlot, CurrentSize, workspaceVars, localVars
<1>8. ProgressInv'
  BY DEF QueueInv, ProgressInv, Relaxed, Lowered, Ahead, AheadOf, Underway,
     Trying, Inside, Endpoint, ReadSlot, CurrentSize, Generation,
     workspaceVars, localVars
<1>9. QED
  BY <1>1, <1>4, <1>5, <1>6, <1>7, <1>8 DEF QueueInv

LEMMA QueueNext == LowerBoundInv /\ QueueInv /\ [Next]_vars => QueueInv'
<1> SUFFICES ASSUME LowerBoundInv, QueueInv, [Next]_vars PROVE QueueInv'
  OBVIOUS
<1>0. Steady
  BY LowerBoundNext DEF Steady
<1>1. ASSUME NEW t \in Threads, ThreadStep(t) PROVE QueueInv'
  <2>1. CASE InitializeVertices(t)
    BY <1>0, <2>1, QueueInitialize
  <2>2. CASE RoundStep(t)
    BY <1>0, <2>2, RoundQueue, DoneRound
  <2>3. QED
    BY <1>1, <2>1, <2>2 DEF ThreadStep, RoundStep
<1>2. CASE FinishInitialize
  BY <1>0, <1>2, QueueStart
<1>3. CASE AdvanceController
  BY <1>0, <1>3, QueueAdvance
<1>4. CASE HostPoll
  BY <1>4, QueueStays DEF HostPoll, Running
<1>5. CASE Finalize
  <2>1. controller.done
    BY <1>5 DEF Finalize, QueueInv, ControlInv
  <2>2. QED
    BY <1>5, <2>1, QueueStays DEF Finalize, Running
<1>6. CASE UNCHANGED vars
  <2>1. /\ UNCHANGED <<workspaceVars, controller, run_options, pc, localVars>>
        /\ UNCHANGED <<stage, status>>
    BY <1>6 DEF vars, hostVars
  <2>2. stage \in {"finalize", "exit"} => controller.done
    BY DEF QueueInv, ControlInv
  <2>3. stage = "exit" => status = CompletedFrontierStatus(Targets)
    BY DEF QueueInv, SeedInv
  <2>4. Running' => Running
    BY <2>1 DEF Running
  <2>5. QED
    BY <2>1, <2>2, <2>3, <2>4, QueueStays
<1>7. QED
  BY <1>1, <1>2, <1>3, <1>4, <1>5, <1>6 DEF Next, GridStep, Terminated

\* The inductive invariant of the engine: the types and the lower bound of the
\* distances, with what is known of the controller, the two queues, the shares
\* of the threads and every admitted edge.
THEOREM Invariant == Spec => [](LowerBoundInv /\ QueueInv)
<1>1. Init => LowerBoundInv /\ QueueInv
  BY LowerBoundInit, QueueInit
<1>2. (LowerBoundInv /\ QueueInv) /\ [Next]_vars => (LowerBoundInv /\ QueueInv)'
  BY LowerBoundNext, QueueNext
<1>3. QED
  BY <1>1, <1>2, PTL DEF Spec

LEMMA AtBoundary ==
  ASSUME LowerBoundInv, QueueInv, AtRoundBoundary
  PROVE  /\ CurrentInv /\ Running
         /\ NextSize = 0 /\ ~Overflowed
         /\ CurrentSize \in 1 .. QueueCapacity
         /\ \A v \in Vertices : enqueue_generation[v] # Generation
<1>1. Running /\ \A t \in Threads : pc[t] = "enter"
  BY DEF AtRoundBoundary, Running
<1>2. NextSize = 0 /\ ~Overflowed
  BY <1>1 DEF QueueInv, NextInv, SizeInv, Overflowed
<1>3. \A v \in Vertices : enqueue_generation[v] # Generation
  <2>1. \A t \in Threads : ~Holds(t)
    BY <1>1 DEF Holds
  <2>2. \A i \in Positions : ~Stored(i)
    BY <1>2 DEF Stored, Positions
  <2>3. QED
    BY <1>1, <1>2, <2>1, <2>2 DEF QueueInv, NextInv, MarkInv
<1>4. QED
  BY <1>1, <1>2, <1>3 DEF QueueInv, CurrentInv

LEMMA WellFormedAtBoundary ==
  LowerBoundInv /\ QueueInv => FrontierWellFormed
<1> SUFFICES ASSUME LowerBoundInv, QueueInv, AtRoundBoundary
             PROVE  /\ CurrentSize \in 1 .. QueueCapacity
                    /\ \A i, j \in 0 .. CurrentSize - 1 :
                         i # j => frontiers[ReadSlot][i] # frontiers[ReadSlot][j]
                    /\ \A v \in CurrentFrontier : distance_bits[v] # Infinity
                    /\ controller.rounds_completed # 0 =>
                         \A v \in CurrentFrontier :
                           enqueue_generation[v] = controller.rounds_completed
  BY DEF FrontierWellFormed
<1>1. /\ CurrentInv /\ Running
      /\ \A v \in Vertices : enqueue_generation[v] # Generation
  BY AtBoundary
<1>2. ASSUME NEW v \in CurrentFrontier
      PROVE  /\ distance_bits[v] # Infinity
             /\ controller.rounds_completed # 0 =>
                  enqueue_generation[v] = controller.rounds_completed
  <2>1. PICK i \in 0 .. CurrentSize - 1 : v = frontiers[ReadSlot][i]
    BY DEF CurrentFrontier
  <2>2. /\ v \in Vertices /\ distance_bits[v] # Infinity
        /\ controller.rounds_completed # 0 =>
             enqueue_generation[v] \in {controller.rounds_completed, Generation}
    BY <1>1, <2>1 DEF CurrentInv
  <2>3. QED
    BY <1>1, <2>2
<1>3. QED
  BY <1>1, <1>2 DEF CurrentInv

\* At the start of every round the frontier fits its queue, holds no vertex
\* twice and no stale entry, for any number of threads and any schedule of
\* their marks, claims and stores.
THEOREM FrontierStaysWellFormed == Spec => []FrontierWellFormed
BY Invariant, WellFormedAtBoundary, PTL

LEMMA NothingLostAtBoundary ==
  LowerBoundInv /\ QueueInv => NoDecreaseLost
<1> SUFFICES ASSUME LowerBoundInv, QueueInv, AtRoundBoundary, NEW e \in Admitted,
                    ~Relaxed(distance_bits, e)
             PROVE  Source[e] \in CurrentFrontier
  BY DEF NoDecreaseLost
<1>1. Running /\ \A v \in Vertices : enqueue_generation[v] # Generation
  BY AtBoundary
<1>2. \A t \in Threads : pc[t] = "enter"
  BY DEF AtRoundBoundary
<1>3. Source[e] \in Vertices
  BY EdgeType DEF Admitted
<1>4. ~Lowered(Source[e]) /\ ~Underway(e)
  BY <1>1, <1>2, <1>3 DEF Lowered, Underway, Trying
<1>5. Ahead(e)
  BY <1>1, <1>4 DEF QueueInv, ProgressInv
<1>6. QED
  BY <1>5 DEF Ahead, CurrentFrontier

\* Between two rounds every edge that can still lower a distance leaves a
\* vertex of the frontier: no interleaving of a decrease with the relaxation
\* of the lowered vertex in the same round loses it.
THEOREM NoDecreaseIsLost == Spec => []NoDecreaseLost
BY Invariant, NothingLostAtBoundary, PTL

-----------------------------------------------------------------------------
(***************************************************************************)
(* Why a run stops.  The length of the next queue counts the vertices the  *)
(* round has marked, less those whose marking thread has yet to claim a    *)
(* position: so the controller's tests of the length at the end of a round *)
(* are tests of what the threads lowered.                                  *)
(***************************************************************************)
Marked   == {v \in Vertices : enqueue_generation[v] = Generation}
Claimers == {t \in Threads : pc[t] = "claim"}

LengthCounts ==
  /\ Cardinality(Marked) = NextSize + Cardinality(Claimers)
  /\ Overflowed => NextSize > QueueCapacity

CountInv ==
  /\ Running => LengthCounts
  /\ stage # "initialize" /\ controller.done => StopReasonFits

LEMMA CountsAreNumbers ==
  /\ IsFiniteSet(Marked) /\ Cardinality(Marked) \in Nat
  /\ IsFiniteSet(Claimers) /\ Cardinality(Claimers) \in Nat
<1>1. IsFiniteSet(Vertices)
  BY FS_Interval, GraphAssumption DEF Vertices
<1>2. IsFiniteSet(Threads)
  BY FS_Interval, EngineAssumption DEF Threads
<1>3. Marked \in SUBSET Vertices /\ Claimers \in SUBSET Threads
  BY DEF Marked, Claimers
<1>4. IsFiniteSet(Marked) /\ IsFiniteSet(Claimers)
  BY <1>1, <1>2, <1>3, FS_Subset
<1>5. QED
  BY <1>4, FS_CardinalityType

\* The first thread to mark a vertex is the one that is to claim for it.
LEMMA CountMark ==
  ASSUME Steady, Running, LengthCounts, NEW t \in Threads, MarkGeneration(t),
         enqueue_generation[Endpoint(t)] # Generation
  PROVE  LengthCounts'
<1> DEFINE v == Endpoint(t)
<1>0. TypeOK /\ LocalTypes /\ RoundStep(t)
  BY TypeParts DEF Steady, LowerBoundInv, TypeInv, RoundStep
<1>1. /\ pc[t] = "mark" /\ pc'[t] = "claim"
      /\ enqueue_generation' = [enqueue_generation EXCEPT ![v] = Generation]
      /\ UNCHANGED controller
      /\ \A s \in Threads \ {t} : pc'[s] = pc[s]
  BY <1>0 DEF MarkGeneration, AtOperation, Goto, Endpoint, LocalTypes
<1>2. v \in Vertices
  BY <1>1, EdgeType DEF Endpoint, Admitted, OnEdge, Steady, LowerBoundInv, TypeInv
<1>3. Generation' = Generation /\ NextSize' = NextSize /\ (Overflowed' <=> Overflowed)
  BY <1>1 DEF Generation, NextSize, WriteSlot, Overflowed
<1>4. v \notin Marked /\ t \notin Claimers
  BY <1>1 DEF Marked, Claimers
<1> HIDE DEF v
<1>5. Marked' = Marked \union {v}
  BY <1>0, <1>1, <1>2, <1>3 DEF Marked, TypeOK
<1>6. Claimers' = Claimers \union {t}
  BY <1>1 DEF Claimers
<1>7. Cardinality(Marked') = Cardinality(Marked) + 1
  BY <1>4, <1>5, CountsAreNumbers, FS_AddElement
<1>8. Cardinality(Claimers') = Cardinality(Claimers) + 1
  BY <1>4, <1>6, CountsAreNumbers, FS_AddElement
<1>9. NextSize \in Nat
  BY <1>0 DEF TypeOK, DeviceControllers, NextSize, WriteSlot
<1>10. QED
  BY <1>3, <1>7, <1>8, <1>9, CountsAreNumbers DEF LengthCounts

LEMMA CountClaim ==
  ASSUME Steady, Running, LengthCounts, NEW t \in Threads, ClaimPosition(t)
  PROVE  LengthCounts'
<1>0. /\ TypeOK /\ LocalTypes /\ RoundStep(t)
      /\ UNCHANGED enqueue_generation
      /\ WriteSlot' = WriteSlot /\ Generation' = Generation
      /\ WriteSlot \in Slots
      /\ NextSize \in Nat
      /\ \A s \in Threads \ {t} : pc'[s] = pc[s]
  BY HeldStep
<1>1. pc[t] = "claim" /\ pc'[t] = "publish"
  BY <1>0 DEF ClaimPosition, AtOperation, Goto, LocalTypes
<1>2. NextSize' = NextSize + 1 /\ (Overflowed' <=> Overflowed)
  <2>1. /\ controller \in DeviceControllers
        /\ controller.frontier_size \in [Slots -> Nat]
    BY <1>0, ControlKept DEF TypeOK
  <2>2. /\ controller'.frontier_size = [controller.frontier_size EXCEPT
                                          ![WriteSlot] = @ + 1]
        /\ controller'.error_bits = controller.error_bits
    BY <2>1, ClaimEffect DEF ClaimPosition, WriteSlot
  <2>3. QED
    BY <1>0, <2>1, <2>2 DEF NextSize, Overflowed
<1>3. Marked' = Marked
  BY <1>0 DEF Marked
<1>4. Claimers' = Claimers \ {t} /\ t \in Claimers
  BY <1>0, <1>1 DEF Claimers
<1>5. Cardinality(Claimers') = Cardinality(Claimers) - 1
  BY <1>4, CountsAreNumbers, FS_RemoveElement
<1>6. Overflowed' => NextSize' > QueueCapacity
  BY <1>0, <1>2, EngineAssumption, GraphAssumption DEF LengthCounts
<1>7. QED
  BY <1>0, <1>2, <1>3, <1>5, <1>6, CountsAreNumbers DEF LengthCounts

\* A position beyond the queue was claimed before the length passed it.
LEMMA CountStore ==
  ASSUME Steady, Running, LengthCounts, NEW t \in Threads,
         PublishLane(t) \/ StoreEntry(t)
  PROVE  LengthCounts'
<1>0. /\ NextOK /\ TypeOK /\ LocalTypes /\ RoundStep(t)
      /\ UNCHANGED enqueue_generation
      /\ WriteSlot' = WriteSlot /\ Generation' = Generation
      /\ NextSize \in Nat
      /\ \A s \in Threads \ {t} : pc'[s] = pc[s]
  BY HeldStep
<1>1. pc[t] # "claim" /\ pc'[t] # "claim"
  BY <1>0 DEF PublishLane, StoreEntry, AtOperation, LeaveEdge, Goto, LocalTypes
<1>2. Marked' = Marked /\ Claimers' = Claimers
  BY <1>0, <1>1 DEF Marked, Claimers
<1>3. CASE PublishLane(t)
  <2>1. /\ controller'.frontier_size = controller.frontier_size
        /\ controller'.error_bits = controller.error_bits
    BY <1>0, <1>3, PublishEffect DEF PublishLane, TypeOK
  <2>2. NextSize' = NextSize /\ (Overflowed' <=> Overflowed)
    BY <1>0, <2>1 DEF NextSize, Overflowed
  <2>3. QED
    BY <1>2, <2>2 DEF LengthCounts
<1>4. CASE StoreEntry(t) /\ claim[t] < QueueCapacity
  <2>1. UNCHANGED controller
    BY <1>4 DEF StoreEntry
  <2>2. NextSize' = NextSize /\ (Overflowed' <=> Overflowed)
    BY <1>0, <2>1 DEF NextSize, Overflowed
  <2>3. QED
    BY <1>2, <2>2 DEF LengthCounts
<1>5. CASE StoreEntry(t) /\ ~(claim[t] < QueueCapacity)
  <2>1. controller' = RaiseError("queue_overflow") /\ pc[t] = "store"
    BY <1>5 DEF StoreEntry, AtOperation
  <2>2. "queue_overflow" \in ErrorReasons
    BY DEF ErrorReasons
  <2>3. controller'.frontier_size = controller.frontier_size
    BY <1>0, <2>1, <2>2, RaiseErrorEffect DEF RaiseError, TypeOK
  <2>4. NextSize' = NextSize
    BY <1>0, <2>3 DEF NextSize
  <2>5. claim[t] < NextSize /\ claim[t] \in Nat
    BY <1>0, <2>1 DEF NextOK, HolderInv, Placed, LocalTypes
  <2>6. NextSize' > QueueCapacity
    BY <1>0, <1>5, <2>4, <2>5, EngineAssumption, GraphAssumption
  <2>7. QED
    BY <1>2, <2>4, <2>6 DEF LengthCounts
<1>6. QED
  BY <1>3, <1>4, <1>5

LEMMA CountRound ==
  ASSUME Steady, Running, LengthCounts, NEW t \in Threads, RoundStep(t)
  PROVE  LengthCounts'
<1>0. TypeOK /\ LocalTypes
  BY TypeParts DEF Steady, LowerBoundInv, TypeInv
<1>1. CASE MarkGeneration(t) /\ enqueue_generation[Endpoint(t)] # Generation
  BY <1>1, CountMark
<1>2. CASE ClaimPosition(t)
  BY <1>2, CountClaim
<1>3. CASE PublishLane(t) \/ StoreEntry(t)
  BY <1>3, CountStore
<1>4. ASSUME UNCHANGED <<enqueue_generation, controller>>,
             pc[t] # "claim", pc'[t] # "claim"
      PROVE  LengthCounts'
  <2>1. \A s \in Threads : pc'[s] = "claim" <=> pc[s] = "claim"
    BY <1>0, <1>4, OnlyItself DEF OthersKept
  <2>2. Marked' = Marked /\ Claimers' = Claimers
    BY <1>4, <2>1 DEF Marked, Claimers, Generation
  <2>3. NextSize' = NextSize /\ (Overflowed' <=> Overflowed)
    BY <1>4 DEF NextSize, WriteSlot, Overflowed
  <2>4. QED
    BY <2>2, <2>3 DEF LengthCounts
<1>5. CASE MarkGeneration(t) /\ enqueue_generation[Endpoint(t)] = Generation
  <2>1. pc[t] = "mark" /\ pc'[t] = "edge" /\ UNCHANGED controller
    BY <1>0, <1>5 DEF MarkGeneration, AtOperation, LeaveEdge, Goto, LocalTypes, Endpoint
  <2>2. UNCHANGED enqueue_generation
    <3>1. enqueue_generation' = [enqueue_generation EXCEPT ![Endpoint(t)] = Generation]
      BY <1>5 DEF MarkGeneration, Endpoint
    <3>2. enqueue_generation \in [Vertices -> Nat]
      BY <1>0 DEF TypeOK
    <3>3. QED
      BY <1>5, <3>1, <3>2
  <2>3. QED
    BY <1>4, <2>1, <2>2
<1>6. CASE CompareAndSwap(t)
  <2>1. pc[t] = "cas" /\ UNCHANGED <<enqueue_generation, controller>>
    BY <1>6 DEF CompareAndSwap, AtOperation
  <2>2. pc'[t] # "claim"
    BY <1>0, <1>6 DEF CompareAndSwap, AtOperation, LeaveEdge, Goto, LocalTypes
  <2>3. QED
    BY <1>4, <2>1, <2>2
<1>7. CASE \/ EnterRound(t) \/ FetchSource(t) \/ FinishShare(t)
           \/ LoadSource(t) \/ FinishRow(t) \/ LoadDestination(t)
  <2>1. UNCHANGED <<enqueue_generation, controller>>
    BY <1>7, SharedEffect DEF CompareAndSwap, MarkGeneration, ClaimPosition,
       PublishLane, StoreEntry, EnterRound, FetchSource, FinishShare, LoadSource,
       FinishRow, LoadDestination, AtOperation
  <2>2. pc[t] # "claim"
    BY <1>7 DEF EnterRound, FetchSource, FinishShare, LoadSource, FinishRow,
       LoadDestination, AtOperation
  <2>3. pc'[t] # "claim"
    BY <1>0, <1>7 DEF EnterRound, FetchSource, FinishShare, LoadSource,
       FinishRow, LoadDestination, AtOperation, LeaveEdge, LeaveQueueEntry,
       Goto, LocalTypes
  <2>4. QED
    BY <1>4, <2>1, <2>2, <2>3
<1>8. QED
  BY <1>1, <1>2, <1>3, <1>5, <1>6, <1>7 DEF RoundStep

\* What ends a run whose round was valid.
LEMMA AdvanceStops ==
  ASSUME NEW c \in DeviceControllers, SoundControl(c), ~c.done,
         c.frontier_size[c.frontier_read_slot] # 0, NextFrontierConsistent(c),
         NEW d, d = AdvanceFrontierController(c), d.done
  PROVE  /\ d.rounds_completed = c.rounds_completed + 1
         /\ \/ /\ c.error_bits = {"queue_overflow"}
               /\ d.stop_reason = "queue_overflow"
            \/ /\ c.error_bits = {}
               /\ c.frontier_size[c.frontier_write_slot] = 0
               /\ d.stop_reason = "converged"
            \/ /\ c.error_bits = {}
               /\ c.frontier_size[c.frontier_write_slot] # 0
               /\ d.stop_reason = "maximum_rounds"
               /\ d.rounds_completed = d.maximum_rounds
<1> DEFINE s == SwapFrontiers(c)
<1>1. CommonSound(c) /\ RunningSound(c)
  BY DEF SoundControl
<1>2. /\ s \in DeviceControllers
      /\ s.rounds_completed = c.rounds_completed + 1
      /\ s.maximum_rounds = c.maximum_rounds
      /\ s.done = c.done
  BY <1>1, SwapSound
<1>3. FrontierRoundMayEnd(c)
  BY <1>1, LaneZero DEF FrontierRoundMayEnd, CommonSound, RunningSound,
                        DeviceControllers
<1>4. c.error_bits = {} \/ c.error_bits = {"queue_overflow"}
  BY <1>1 DEF RunningSound
<1>5. /\ c.rounds_completed \in Nat /\ c.maximum_rounds \in Nat
      /\ c.rounds_completed < c.maximum_rounds
      /\ c.maximum_rounds # 0
  BY <1>1 DEF RunningSound, CommonSound, DeviceControllers
<1>6. FrontierRoundErrorKnown(c)
  BY <1>4 DEF FrontierRoundErrorKnown
<1> HIDE DEF s
<1>7. CASE c.error_bits = {"queue_overflow"}
  <2>1. d = CanonicalizeFrontierError(s, "queue_overflow")
    BY <1>3, <1>6, <1>7 DEF AdvanceFrontierController, s
  <2>2. d.rounds_completed = s.rounds_completed
    BY <1>2, <1>5, <2>1 DEF CanonicalizeFrontierError
  <2>3. d.stop_reason = "queue_overflow"
    BY <2>1 DEF CanonicalizeFrontierError
  <2>4. QED
    BY <1>2, <1>7, <2>2, <2>3
<1>8. CASE c.error_bits = {} /\ c.frontier_size[c.frontier_write_slot] = 0
  <2>1. d = [s EXCEPT !.active_lane_mask    = {},
                      !.converged_lane_mask = c.valid_lane_mask,
                      !.execute_lane_mask   = {},
                      !.done                = TRUE,
                      !.stop_reason         = "converged"]
    BY <1>3, <1>6, <1>8 DEF AdvanceFrontierController, s
  <2>2. d.rounds_completed = s.rounds_completed /\ d.stop_reason = "converged"
    BY <1>2, <2>1 DEF DeviceControllers
  <2>3. QED
    BY <1>2, <1>8, <2>2
<1>9. CASE c.error_bits = {} /\ c.frontier_size[c.frontier_write_slot] # 0
  <2>1. s.rounds_completed = c.maximum_rounds
    <3>1. ASSUME s.rounds_completed # c.maximum_rounds PROVE FALSE
      <4>1. d = [s EXCEPT !.active_lane_mask  = c.valid_lane_mask,
                          !.execute_lane_mask = c.valid_lane_mask]
        BY <1>3, <1>6, <1>9, <3>1 DEF AdvanceFrontierController, s
      <4>2. d.done = s.done
        BY <1>2, <4>1 DEF DeviceControllers
      <4>3. QED
        BY <1>2, <4>2
    <3>2. QED
      BY <3>1
  <2>2. d = [s EXCEPT !.execute_lane_mask = {},
                      !.done              = TRUE,
                      !.stop_reason       = "maximum_rounds"]
    BY <1>3, <1>6, <1>9, <2>1 DEF AdvanceFrontierController, s
  <2>3. /\ d.rounds_completed = s.rounds_completed
        /\ d.maximum_rounds = s.maximum_rounds
        /\ d.stop_reason = "maximum_rounds"
    BY <1>2, <2>2 DEF DeviceControllers
  <2>4. QED
    BY <1>2, <1>9, <2>1, <2>3
<1>10. QED
  BY <1>4, <1>7, <1>8, <1>9

LEMMA CountAdvance ==
  ASSUME Steady, Running, LengthCounts, AdvanceController
  PROVE  CountInv'
<1>0. /\ TypeOK /\ NextOK /\ CurrentInv
      /\ controller \in DeviceControllers /\ SoundControl(controller)
      /\ ~controller.done /\ controller.error_bits \subseteq {"queue_overflow"}
  BY RunningRound DEF Steady, LowerBoundInv, TypeInv, TypeOK, QueueInv,
     ControlInv, NextInv, NextOK, Running, RunningSound
<1>1. /\ \A t \in Threads : pc[t] = "sync" /\ pc'[t] = "enter"
      /\ UNCHANGED enqueue_generation
      /\ controller' = AdvanceFrontierController(controller)
      /\ stage' # "initialize"
  BY DEF AdvanceController, workspaceVars
<1>2. /\ Claimers = {} /\ Claimers' = {}
      /\ \A t \in Threads : ~Holds(t) /\ ~Placed(t)
  BY <1>1 DEF Claimers, Holds, Placed
<1>3. /\ NextSize \in Nat /\ Generation \in Nat /\ Generation # 0
      /\ Generation = controller.rounds_completed + 1
      /\ QueueCapacity \in Nat
  BY <1>0, EngineAssumption, GraphAssumption
  DEF DeviceControllers, NextSize, WriteSlot, Generation
<1>4. Cardinality(Marked) = NextSize
  BY <1>2, <1>3, CountsAreNumbers, FS_EmptySet DEF LengthCounts
<1>5. ~Overflowed => NextSize <= QueueCapacity
  <2>1. ASSUME ~Overflowed, NextSize > QueueCapacity PROVE FALSE
    <3>1. NextSize - 1 \in 0 .. NextSize - 1
      BY <1>3, <2>1
    <3>2. NextSize - 1 \in Positions
      BY <1>0, <1>2, <2>1, <3>1 DEF NextOK, SizeInv
    <3>3. QED
      BY <1>3, <2>1, <3>2 DEF Positions
  <2>2. QED
    BY <1>3, <2>1
<1>6. NextFrontierConsistent(controller)
  <2>1. controller.valid_lane_mask = {0}
          /\ controller.next_frontier_lane_mask \subseteq {0}
    BY <1>0, LaneZero DEF SoundControl, CommonSound, DeviceControllers
  <2>2. controller.next_frontier_lane_mask # {} => NextSize # 0
    BY <1>0 DEF NextOK, SizeInv
  <2>3. controller.next_frontier_lane_mask = {} => NextSize = 0
    <3>1. ASSUME controller.next_frontier_lane_mask = {}, NextSize # 0
          PROVE  FALSE
      <4>1. 0 \in 0 .. NextSize - 1
        BY <1>3, <3>1
      <4>2. \E t \in Threads : pc[t] = "publish"
        BY <1>0, <3>1, <4>1 DEF NextOK, SizeInv
      <4>3. QED
        BY <1>1, <4>2
    <3>2. QED
      BY <3>1
  <2>4. QED
    BY <2>1, <2>2, <2>3 DEF NextFrontierConsistent, NextSize, WriteSlot
<1>7. CASE controller'.done
  <2>1. controller.frontier_size[controller.frontier_read_slot] # 0
    BY <1>0, EngineAssumption, GraphAssumption DEF CurrentInv, CurrentSize, ReadSlot
  <2>2. /\ controller'.rounds_completed = Generation
        /\ \/ /\ controller.error_bits = {"queue_overflow"}
              /\ controller'.stop_reason = "queue_overflow"
           \/ /\ controller.error_bits = {}
              /\ NextSize = 0
              /\ controller'.stop_reason = "converged"
           \/ /\ controller.error_bits = {}
              /\ NextSize # 0
              /\ controller'.stop_reason = "maximum_rounds"
              /\ controller'.rounds_completed = controller'.maximum_rounds
    BY <1>0, <1>1, <1>3, <1>6, <1>7, <2>1, AdvanceStops DEF NextSize, WriteSlot
  <2>3. LastLowered' = Marked
    BY <1>1, <2>2 DEF LastLowered, Marked
  <2>4. NextSize = 0 => Marked = {}
    BY <1>4, CountsAreNumbers, FS_EmptySet
  <2>5. StopReasonFits'
    <3>1. CASE controller.error_bits = {"queue_overflow"}
      <4>1. NextSize > QueueCapacity /\ controller'.stop_reason = "queue_overflow"
        BY <2>2, <3>1 DEF LengthCounts, Overflowed
      <4>2. QED
        BY <1>3, <1>4, <2>2, <2>3, <4>1 DEF StopReasonFits
    <3>2. CASE controller.error_bits = {} /\ NextSize = 0
      <4>1. controller'.stop_reason = "converged"
        BY <2>2, <3>2
      <4>2. QED
        BY <1>3, <2>2, <2>3, <2>4, <3>2, <4>1 DEF StopReasonFits
    <3>3. CASE controller.error_bits = {} /\ NextSize # 0
      <4>1. /\ controller'.stop_reason = "maximum_rounds"
            /\ controller'.rounds_completed = controller'.maximum_rounds
            /\ NextSize \in 1 .. QueueCapacity
        BY <1>3, <1>5, <2>2, <3>3 DEF Overflowed
      <4>2. QED
        BY <1>3, <1>4, <2>2, <2>3, <4>1 DEF StopReasonFits
    <3>4. QED
      BY <2>2, <3>1, <3>2, <3>3
  <2>6. QED
    BY <1>7, <2>5 DEF CountInv, Running
<1>8. CASE ~controller'.done
  <2>1. /\ controller'.error_bits = {}
        /\ controller'.rounds_completed = controller.rounds_completed + 1
        /\ WriteSlot' = ReadSlot
        /\ controller'.frontier_size = [controller.frontier_size EXCEPT
                                          ![ReadSlot] = 0]
    BY <1>0, <1>1, <1>8, AdvanceEffect DEF ReadSlot, WriteSlot
  <2>2. NextSize' = 0 /\ Generation' = Generation + 1 /\ ~Overflowed'
    BY <1>0, <1>3, <2>1
    DEF NextSize, Generation, Overflowed, DeviceControllers, ReadSlot
  <2>3. Marked' = {}
    <3>1. \A v \in Vertices : enqueue_generation[v] <= Generation
            /\ enqueue_generation[v] \in Nat
      BY <1>0 DEF NextOK, MarkInv, TypeOK
    <3>2. QED
      BY <1>1, <1>3, <2>2, <3>1 DEF Marked
  <2>4. LengthCounts'
    BY <1>2, <2>2, <2>3, FS_EmptySet DEF LengthCounts
  <2>5. QED
    BY <1>8, <2>4 DEF CountInv
<1>9. QED
  BY <1>7, <1>8

LEMMA CountStart ==
  ASSUME Steady, FinishInitialize
  PROVE  CountInv'
<1>0. TypeOK /\ SeedInv
  BY DEF Steady, LowerBoundInv, TypeInv, QueueInv
<1>1. /\ stage = "initialize" /\ stage' = "round"
      /\ \A t \in Threads : pc[t] = "sync" /\ pc'[t] = "enter"
      /\ UNCHANGED <<enqueue_generation, controller>>
  BY DEF FinishInitialize, workspaceVars
<1>2. controller = SeededController
  BY <1>0, <1>1, EngineAssumption DEF SeedInv, Threads
<1>3. OptionsOK(run_options)
  BY <1>0, EngineAssumption DEF TypeOK, OptionsOK
<1>4. CASE Len(SourceList) > QueueCapacity
  <2>1. controller = CanonicalizeFrontierError(FreshController(run_options),
                                               "queue_overflow")
    BY <1>2, <1>4 DEF SeededController, FreshController
  <2>2. /\ FreshController(run_options) \in DeviceControllers
        /\ FreshController(run_options).rounds_completed = 0
    BY <1>3, FreshControllerType, FreshSound
  <2>3. /\ controller.done
        /\ controller.stop_reason = "queue_overflow"
        /\ controller.rounds_completed = 0
    BY <2>1, <2>2 DEF CanonicalizeFrontierError, DeviceControllers
  <2>4. QED
    BY <1>1, <1>4, <2>3 DEF CountInv, StopReasonFits, Running
<1>5. CASE ~(Len(SourceList) > QueueCapacity)
  <2>1. controller = FreshController(run_options)
    BY <1>2, <1>5 DEF SeededController, FreshController
  <2>2. /\ ~controller.done
        /\ controller.error_bits = {}
        /\ controller.rounds_completed = 0
        /\ controller.frontier_write_slot = 1
        /\ controller.frontier_size[1] = 0
    BY <1>3, <2>1, FreshSound
  <2>3. NextSize' = 0 /\ Generation' = 1 /\ ~Overflowed'
    BY <1>1, <2>2 DEF NextSize, WriteSlot, Generation, Overflowed
  <2>4. Marked' = {}
    <3>1. \A v \in Vertices : enqueue_generation[v] = 0
      BY <1>1, ThreadOf DEF Steady, LowerBoundInv, ResetBySynced
    <3>2. QED
      BY <1>1, <2>3, <3>1 DEF Marked
  <2>5. Claimers' = {}
    BY <1>1 DEF Claimers
  <2>6. LengthCounts'
    BY <2>3, <2>4, <2>5, FS_EmptySet DEF LengthCounts
  <2>7. QED
    BY <1>1, <2>2, <2>6 DEF CountInv
<1>6. QED
  BY <1>4, <1>5

\* Steps that leave what is counted as it is.
LEMMA CountStays ==
  ASSUME CountInv, UNCHANGED <<enqueue_generation, controller>>,
         stage' = "initialize" \/ stage # "initialize",
         Running' => Running /\ UNCHANGED pc
  PROVE  CountInv'
<1>1. StopReasonFits' <=> StopReasonFits
  BY DEF StopReasonFits, LastLowered
<1>2. Running' => LengthCounts'
  <2> SUFFICES ASSUME Running' PROVE LengthCounts'
    OBVIOUS
  <2>1. Marked' = Marked /\ Claimers' = Claimers
    BY DEF Marked, Claimers, Generation
  <2>2. NextSize' = NextSize /\ (Overflowed' <=> Overflowed)
    BY DEF NextSize, WriteSlot, Overflowed
  <2>3. QED
    BY <2>1, <2>2 DEF CountInv, LengthCounts
<1>3. QED
  BY <1>1, <1>2 DEF CountInv

LEMMA CountNext ==
  LowerBoundInv /\ QueueInv /\ CountInv /\ [Next]_vars => CountInv'
<1> SUFFICES ASSUME LowerBoundInv, QueueInv, CountInv, [Next]_vars
             PROVE  CountInv'
  OBVIOUS
<1>0. Steady
  BY LowerBoundNext DEF Steady
<1>1. ASSUME NEW t \in Threads, InitializeVertices(t) PROVE CountInv'
  BY <1>1 DEF InitializeVertices, CountInv, Running, hostVars
<1>2. ASSUME NEW t \in Threads, RoundStep(t) PROVE CountInv'
  <2>1. CASE Running
    <3>1. LengthCounts'
      BY <1>0, <1>2, <2>1, CountRound DEF CountInv
    <3>2. Running'
      BY <1>0, <1>2, <2>1, RoundKept
    <3>3. QED
      BY <3>1, <3>2 DEF CountInv, Running
  <2>2. CASE ~Running
    <3>1. stage = "round" /\ stage' = "round"
      BY <1>2, OnlyItself DEF LowerBoundInv, TypeInv
    <3>2. controller.done
      BY <2>2, <3>1 DEF Running
    <3>3. ~Inside(t)
      BY <3>1, <3>2 DEF LowerBoundInv, TypeInv, InsideRound, Execute
    <3>4. EnterRound(t)
      BY <1>2, <3>3 DEF RoundStep, Inside, EnterRound, FetchSource, FinishShare,
         LoadSource, FinishRow, LoadDestination, CompareAndSwap,
         MarkGeneration, ClaimPosition, PublishLane, StoreEntry, AtOperation
    <3>5. UNCHANGED <<enqueue_generation, controller>>
      BY <3>2, <3>4 DEF EnterRound, Execute, workspaceVars
    <3>6. ~Running'
      BY <3>2, <3>5 DEF Running
    <3>7. QED
      BY <3>1, <3>5, <3>6, CountStays
  <2>3. QED
    BY <2>1, <2>2
<1>3. CASE FinishInitialize
  BY <1>0, <1>3, CountStart
<1>4. CASE AdvanceController
  <2>1. stage = "round" /\ stage' # "initialize" /\ UNCHANGED enqueue_generation
          /\ controller' = AdvanceFrontierController(controller)
    BY <1>4 DEF AdvanceController, workspaceVars
  <2>2. CASE Running
    BY <1>0, <1>4, <2>2, CountAdvance DEF CountInv
  <2>3. CASE ~Running
    <3>1. controller.done /\ UNCHANGED controller
      BY <2>1, <2>3 DEF Running, AdvanceFrontierController
    <3>2. QED
      BY <2>1, <3>1, CountStays DEF Running
  <2>4. QED
    BY <2>2, <2>3
<1>5. CASE HostPoll
  BY <1>5, CountStays DEF HostPoll, Running, workspaceVars
<1>6. CASE Finalize
  BY <1>6, CountStays DEF Finalize, Running, workspaceVars
<1>7. CASE UNCHANGED vars
  BY <1>7, CountStays DEF vars, Running, workspaceVars
<1>8. QED
  BY <1>1, <1>2, <1>3, <1>4, <1>5, <1>6, <1>7
  DEF Next, ThreadStep, RoundStep, GridStep, Terminated

\* Over every schedule the length of the next queue counts the vertices the
\* round has lowered for the first time, so what ended a run is what it did.
THEOREM StopsForItsReason == Spec => []CountInv
<1>1. Init => CountInv
  BY DEF Init, CountInv, Running
<1>2. (LowerBoundInv /\ QueueInv) /\ CountInv /\ [Next]_vars => CountInv'
  BY CountNext
<1>3. QED
  BY <1>1, <1>2, Invariant, PTL DEF Spec

-----------------------------------------------------------------------------
(***************************************************************************)
(* The status.                                                             *)
(***************************************************************************)
LEMMA ConvergedDistances ==
  ASSUME LowerBoundInv, QueueInv, stage # "initialize",
         controller.stop_reason = "converged"
  PROVE  IsShortest(distance_bits)
<1>1. distance_bits \in Potentials
  BY DEF Potentials, LowerBoundInv, TypeInv, TypeOK, QueueInv, SeedInv, ProgressInv
<1>2. QED
  BY <1>1 DEF IsShortest, LowerBoundInv, AbovePotentials

\* At the end of a run, for whatever targets the status were computed.
LEMMA StatusClassifies ==
  ASSUME LowerBoundInv, QueueInv, stage = "exit", NEW targets \in TargetSets
  PROVE  Classifies(CompletedFrontierStatus(targets), targets)
<1> DEFINE result == CompletedFrontierStatus(targets)
           reachedAll == \A v \in targets : distance_bits[v] # Infinity
           reached == IF reachedAll THEN StandaloneLane ELSE {}
           missed  == IF reachedAll THEN {} ELSE StandaloneLane
<1>1. result = MakeRunStatus(controller, 0, reached, missed)
  BY DEF CompletedFrontierStatus
<1>2. CommonSound(controller) /\ FinishedSound(controller)
  BY DEF QueueInv, ControlInv, SoundControl
<1>3. reachedAll \in BOOLEAN /\ StandaloneLane = {0}
  BY LaneZero
<1>4. controller.stop_reason = "converged" =>
        (reachedAll <=> \A v \in targets : ReferenceDistance[v] # Infinity)
  <2>1. ASSUME controller.stop_reason = "converged"
        PROVE  distance_bits = ReferenceDistance
    BY <2>1, ConvergedDistances, ShortestIsReference
  <2>2. QED
    BY <2>1
<1> HIDE DEF reachedAll, result
<1>5. /\ result.valid_lane_mask = {0}
      /\ result.active_lane_mask = controller.active_lane_mask
      /\ result.converged_lane_mask = controller.converged_lane_mask
      /\ result.stop_reason = controller.stop_reason
      /\ result.error_bits = controller.error_bits
      /\ result.converged <=> controller.stop_reason = "converged"
  BY <1>1, <1>2 DEF MakeRunStatus, CommonSound
<1>6. result.reached_target_mask =
        IF controller.stop_reason = "converged" /\ reachedAll THEN {0} ELSE {}
  BY <1>1, <1>2, <1>3 DEF MakeRunStatus, CommonSound
<1>7. controller.stop_reason = "converged" => controller.error_bits = {}
  BY <1>2 DEF FinishedSound, ExpectedErrorBits, ErrorReasons
<1>8. result.bounding_box_miss_mask =
        IF controller.stop_reason = "converged" /\ ~reachedAll THEN {0} ELSE {}
  BY <1>1, <1>2, <1>3, <1>7 DEF MakeRunStatus, CommonSound
<1>9. /\ controller.active_lane_mask \subseteq {0}
      /\ controller.converged_lane_mask \subseteq {0}
  BY LaneZero DEF LowerBoundInv, TypeInv, TypeOK, DeviceControllers
<1>10. ValidDeviceRunStatus(result)
  <2>1. /\ result.valid_lane_mask # {}
        /\ result.reached_target_mask \union result.bounding_box_miss_mask
             \union result.active_lane_mask \union result.converged_lane_mask
             \subseteq result.valid_lane_mask
        /\ result.reached_target_mask \intersect result.bounding_box_miss_mask = {}
    BY <1>5, <1>6, <1>8, <1>9
  <2>2. /\ result.active_lane_mask \intersect result.converged_lane_mask = {}
        /\ result.converged <=> result.stop_reason = "converged"
        /\ result.converged =>
             result.active_lane_mask = {} /\ result.converged_lane_mask = result.valid_lane_mask
        /\ result.error_bits = ExpectedErrorBits(result.stop_reason)
    BY <1>2, <1>5 DEF FinishedSound
  <2>3. result.error_bits # {} => result.bounding_box_miss_mask = {}
    BY <1>5, <1>7, <1>8
  <2>4. QED
    BY <2>1, <2>2, <2>3 DEF ValidDeviceRunStatus
<1>11. Classifies(result, targets)
  BY <1>3, <1>4, <1>5, <1>6, <1>8, <1>10 DEF Classifies
<1>12. QED
  BY <1>11 DEF result

LEMMA StatusAtExit ==
  LowerBoundInv /\ QueueInv /\ CountInv => StatusTellsTheTruth
<1> SUFFICES ASSUME LowerBoundInv, QueueInv, CountInv PROVE StatusTellsTheTruth
  OBVIOUS
<1>1. ASSUME stage = "exit" PROVE Classifies(status, Targets)
  BY <1>1, StatusClassifies, QueryAssumption DEF QueueInv, SeedInv
<1>2. QED
  BY <1>1, StatusClassifies, ConvergedDistances DEF StatusTellsTheTruth, CountInv

\* A run that reports convergence holds the shortest distances, every run
\* stops for the reason it reports, and its status classifies any targets by
\* the distances of the CPU reference.
THEOREM StatusIsTrue == Spec => []StatusTellsTheTruth
BY Invariant, StopsForItsReason, StatusAtExit, PTL

-----------------------------------------------------------------------------
(***************************************************************************)
(* The engine implements Relaxation.                                       *)
(***************************************************************************)
Kept == UNCHANGED <<RelaxationDistances, RelaxationOutcome>>

\* The instance speaks of the same query.
LEMMA SameProblem ==
  /\ R!Vertices = Vertices /\ R!Distances = Distances
  /\ R!InitialDistance = InitialDistance
  /\ R!Admitted = Admitted
  /\ \A d, e : R!Relaxed(d, e) <=> Relaxed(d, e)
  /\ \A a, b : R!Plus(a, b) = Plus(a, b)
<1>1. R!Vertices = Vertices /\ R!Distances = Distances /\ R!Sources = Sources
  BY DEF R!Vertices, Vertices, R!Distances, Distances, R!Sources, Sources
<1>2. R!InitialDistance = InitialDistance
  BY <1>1 DEF R!InitialDistance, InitialDistance
<1>3. R!Admitted = Admitted
  BY DEF R!Admitted, Admitted, R!Edges, Edges, R!InSelectedTile, InSelectedTile
<1>4. \A d, e : R!Relaxed(d, e) <=> Relaxed(d, e)
  BY DEF R!Relaxed, Relaxed, R!Plus, Plus
<1>5. \A a, b : R!Plus(a, b) = Plus(a, b)
  BY DEF R!Plus, Plus
<1>6. QED
  BY <1>1, <1>2, <1>3, <1>4, <1>5

LEMMA RelaxationInit == Init => R!Init
<1> SUFFICES ASSUME Init
             PROVE  RelaxationDistances = InitialDistance /\ RelaxationOutcome = "running"
  BY SameProblem DEF R!Init
<1>1. QED
  BY DEF Init, RelaxationDistances, RelaxationOutcome

\* A step of a thread is a decrease its edge justifies, or no step.
LEMMA RelaxationRound ==
  ASSUME Steady, NEW t \in Threads, RoundStep(t)
  PROVE  R!Relax \/ Kept
<1>0. TypeOK /\ LowerBoundInv
  BY DEF Steady, LowerBoundInv, TypeInv
<1>1. stage = "round" /\ stage' = "round"
  BY <1>0, OnlyItself
<1>2. RelaxationDistances = distance_bits
        /\ RelaxationDistances' = distance_bits'
  BY <1>1 DEF RelaxationDistances
<1>3. CASE ~Running
  <2>1. ~Execute
    BY <1>1, <1>3 DEF Running, Execute
  <2>2. ~Inside(t)
    BY <2>1 DEF Steady, LowerBoundInv, TypeInv, InsideRound
  <2>3. EnterRound(t)
    BY <2>2 DEF Inside, RoundStep, FetchSource, FinishShare, LoadSource,
       FinishRow, LoadDestination, CompareAndSwap, MarkGeneration,
       ClaimPosition, PublishLane, StoreEntry, AtOperation
  <2>4. UNCHANGED <<distance_bits, controller, stage>>
    BY <1>1, <2>1, <2>3 DEF EnterRound, workspaceVars
  <2>5. QED
    BY <1>2, <2>4 DEF Kept, RelaxationOutcome
<1>4. CASE Running
  <2>1. ~controller.done /\ ~controller'.done
    BY <1>4, RoundKept DEF Running
  <2>2. RelaxationOutcome = "running" /\ RelaxationOutcome' = "running"
    BY <2>1 DEF RelaxationOutcome
  <2>3. CASE UNCHANGED distance_bits
    BY <1>2, <2>2, <2>3 DEF Kept
  <2>4. CASE ~UNCHANGED distance_bits
    <3>1. CompareAndSwap(t)
      BY <1>4, <2>4, SharedEffect
    <3>2. distance_bits[Endpoint(t)] = observed[t]
      BY <2>4, <3>1 DEF CompareAndSwap, Endpoint
    <3>3. /\ edge[t] \in Admitted /\ Source[edge[t]] = source[t]
          /\ Endpoint(t) \in Vertices
          /\ distance_bits' = [distance_bits EXCEPT ![Endpoint(t)] = candidate[t]]
          /\ candidate[t] < distance_bits[Endpoint(t)]
      BY <1>0, <3>1, <3>2, SwapLowers
    <3>4. Plus(distance_bits[source[t]], Weight[edge[t]]) <= candidate[t]
      BY <3>1 DEF Steady, LowerBoundInv, CandidateSound, CompareAndSwap, AtOperation
    <3>5. Destination[edge[t]] = Endpoint(t)
      BY DEF Endpoint
    <3> HIDE DEF Endpoint
    <3>6. ASSUME NEW v \in Vertices, distance_bits'[v] # distance_bits[v]
          PROVE  /\ distance_bits'[v] < distance_bits[v]
                 /\ \E e \in Admitted :
                      /\ Destination[e] = v
                      /\ Plus(distance_bits[Source[e]], Weight[e]) <= distance_bits'[v]
      <4>1. v = Endpoint(t) /\ distance_bits'[v] = candidate[t]
        BY <1>0, <3>3, <3>6 DEF TypeOK
      <4>2. QED
        BY <3>3, <3>4, <3>5, <4>1
    <3>7. distance_bits' \in [Vertices -> Distances]
      BY DEF Steady, LowerBoundInv, TypeInv, TypeOK
    <3>8. QED
      BY <1>2, <2>2, <3>6, <3>7, SameProblem DEF R!Relax, R!Justified
  <2>5. QED
    BY <2>3, <2>4
<1>5. QED
  BY <1>3, <1>4

\* Between two rounds the engine goes on, reports convergence when no edge can
\* lower a distance, or gives up.
LEMMA RelaxationAdvance ==
  ASSUME Steady, AdvanceController
  PROVE  R!Converge \/ R!Stop \/ Kept
<1>1. QueueInv'
  BY QueueAdvance
<1>2. /\ stage = "round" /\ stage' # "initialize"
      /\ UNCHANGED distance_bits
      /\ controller' = AdvanceFrontierController(controller)
  BY DEF AdvanceController, workspaceVars
<1>3. RelaxationDistances = distance_bits /\ RelaxationDistances' = distance_bits
  BY <1>2 DEF RelaxationDistances
<1>4. CASE controller.done
  <2>1. controller' = controller
    BY <1>2, <1>4 DEF AdvanceFrontierController
  <2>2. QED
    BY <1>2, <1>3, <2>1 DEF Kept, RelaxationOutcome
<1>5. CASE ~controller.done /\ ~controller'.done
  BY <1>3, <1>5 DEF Kept, RelaxationOutcome
<1>6. CASE ~controller.done /\ controller'.done /\ controller'.stop_reason = "converged"
  <2>1. RelaxationOutcome = "running" /\ RelaxationOutcome' = "converged"
    BY <1>2, <1>6 DEF RelaxationOutcome
  <2>2. \A e \in Admitted : Relaxed(distance_bits, e)
    BY <1>1, <1>2, <1>6 DEF QueueInv, ProgressInv, Relaxed
  <2>3. \A e \in Admitted : R!Relaxed(RelaxationDistances, e)
    BY <1>3, <2>2 DEF R!Relaxed, Relaxed, R!Plus, Plus
  <2>4. QED
    BY <1>3, <2>1, <2>3, SameProblem DEF R!Converge
<1>7. CASE ~controller.done /\ controller'.done /\ controller'.stop_reason # "converged"
  <2>1. RelaxationOutcome = "running" /\ RelaxationOutcome' = "stopped"
    BY <1>2, <1>7 DEF RelaxationOutcome
  <2>2. QED
    BY <1>3, <2>1 DEF R!Stop
<1>8. QED
  BY <1>4, <1>5, <1>6, <1>7

\* The barrier after initialization ends an overfull query at once.
LEMMA RelaxationStart ==
  ASSUME Steady, FinishInitialize
  PROVE  R!Stop \/ Kept
<1>1. QueueInv' /\ LowerBoundInv'
  BY QueueStart DEF Steady
<1>2. stage = "initialize" /\ stage' = "round" /\ UNCHANGED <<distance_bits, controller>>
        /\ \A t \in Threads : pc[t] = "sync"
  BY DEF FinishInitialize, workspaceVars
<1>3. distance_bits = InitialDistance
  <2>1. \A v \in Vertices : distance_bits[v] = InitialDistance[v]
    BY <1>2, ThreadOf DEF Steady, LowerBoundInv, ResetBySynced
  <2>2. QED
    BY <2>1, InitialDistanceType DEF Steady, LowerBoundInv, TypeInv, TypeOK
<1>4. RelaxationDistances = InitialDistance /\ RelaxationDistances' = InitialDistance
        /\ RelaxationOutcome = "running"
  BY <1>2, <1>3 DEF RelaxationDistances, RelaxationOutcome
<1>5. CASE ~controller.done
  BY <1>2, <1>4, <1>5 DEF Kept, RelaxationOutcome
<1>6. CASE controller.done
  <2>1. controller = SeededController
    <3>1. 0 \in Threads
      BY EngineAssumption DEF Threads
    <3>2. QED
      BY <1>2, <3>1 DEF Steady, QueueInv, SeedInv
  <2>2. OptionsOK(run_options)
    BY EngineAssumption DEF Steady, LowerBoundInv, TypeInv, TypeOK, OptionsOK
  <2>3. ~FreshController(run_options).done
          /\ FreshController(run_options) \in DeviceControllers
    BY <2>2, FreshSound, FreshControllerType
  <2>4. "queue_overflow" \in ErrorReasons
    BY DEF ErrorReasons
  <2>5. controller.stop_reason = "queue_overflow"
    BY <1>6, <2>1, <2>3, <2>4, CanonicalErrorType DEF SeededController, FreshController
  <2>6. RelaxationOutcome' = "stopped"
    BY <1>2, <1>6, <2>5 DEF RelaxationOutcome
  <2>7. QED
    BY <1>4, <2>6 DEF R!Stop
<1>7. QED
  BY <1>5, <1>6

LEMMA RelaxationStep ==
  LowerBoundInv /\ QueueInv /\ [Next]_vars => [R!Next]_(R!relaxationVars)
<1> SUFFICES ASSUME LowerBoundInv, QueueInv, [Next]_vars
             PROVE  R!Next \/ Kept
  BY DEF Kept, R!relaxationVars
<1>0. Steady
  BY LowerBoundNext DEF Steady
<1>1. ASSUME NEW t \in Threads, ThreadStep(t) PROVE R!Next \/ Kept
  <2>1. CASE InitializeVertices(t)
    BY <2>1 DEF InitializeVertices, Kept, RelaxationDistances, RelaxationOutcome
  <2>2. CASE RoundStep(t)
    BY <1>0, <2>2, RelaxationRound DEF R!Next
  <2>3. QED
    BY <1>1, <2>1, <2>2 DEF ThreadStep, RoundStep
<1>2. CASE FinishInitialize
  BY <1>0, <1>2, RelaxationStart DEF R!Next
<1>3. CASE AdvanceController
  BY <1>0, <1>3, RelaxationAdvance DEF R!Next
<1>4. CASE HostPoll \/ Finalize
  BY <1>4 DEF HostPoll, Finalize, Kept, RelaxationDistances, RelaxationOutcome,
              workspaceVars
<1>5. CASE UNCHANGED vars
  BY <1>5 DEF vars, Kept, RelaxationDistances, RelaxationOutcome, workspaceVars
<1>6. QED
  BY <1>1, <1>2, <1>3, <1>4, <1>5 DEF Next, GridStep, Terminated

\* The engine implements Relaxation: the threads lower distances only to values
\* an admitted edge accounts for, and the controller reports convergence only
\* when no admitted edge can lower a distance.
THEOREM EngineIsRelaxation == Spec => ImplementsRelaxation
<1>1. Init => R!Init
  BY RelaxationInit
<1>2. LowerBoundInv /\ QueueInv /\ [Next]_vars => [R!Next]_(R!relaxationVars)
  BY RelaxationStep
<1>3. Spec => [](LowerBoundInv /\ QueueInv)
  BY Invariant
<1>4. QED
  BY <1>1, <1>2, <1>3, PTL DEF Spec, ImplementsRelaxation, R!Spec
=============================================================================
