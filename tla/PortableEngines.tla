--------------------------- MODULE PortableEngines ---------------------------
(***************************************************************************)
(* The portable engines for one query: run_host_jacobi_pull                *)
(* (src/src/jacobi_pull.cpp), run_host_dense_chaotic_push                  *)
(* (src/src/dense_chaotic_push.cpp) and run_host_frontier_push             *)
(* (src/src/frontier_push.cpp).  They relax one edge after the other on    *)
(* the host, so a run is a function of its round.                          *)
(*                                                                         *)
(* The control modes only decide how often the host looks: a pair queued   *)
(* behind the last round changes nothing.  Work counters and the layout of *)
(* the scratch memory are left out.                                        *)
(***************************************************************************)
EXTENDS BatchLayout, SweepController, FrontierController, SequencesExt

\* DenseHostSchedule
Schedules == {"csr_forward", "csr_reverse", "alternating"}

\* binary32 addition of non-negative numbers.
Plus(a, b) == IF a + b >= Infinity THEN Infinity ELSE a + b

Seeded(sources) == [v \in Vertices |-> IF v \in sources THEN 0 ELSE Infinity]

\* The lane masks of a query on its own.
SelectedMasks(query) ==
  [t \in Tiles |-> IF t \in query.selected_tiles THEN StandaloneLane ELSE {}]

\* The positions the run masks admit.
AdmittedPositions(query, runs) ==
  LET masks == TileRunLaneMasks(runs, SelectedMasks(query))
  IN UNION {runs[n].positions : n \in {m \in DOMAIN runs : masks[m] # {}}}

InOrder(positions) == LET Key(p) == <<p>> IN SortedBy(positions, Key)

-----------------------------------------------------------------------------
(***************************************************************************)
(* Jacobi                                                                  *)
(***************************************************************************)
\* validate_host_problem of jacobi_pull.cpp
ValidPullProblem(query) ==
  ValidRouteQuery(query) /\ ValidRuns(CscRuns, CscDestination, CscSource)

StartPull(query, options) ==
  [controller |-> InitializeDeviceController(options, StandaloneLane, 0),
   distances  |-> [slot \in Slots |-> Seeded(query.sources)]]

\* The labels a round writes to the other slot.
PullRound(query, old, next) ==
  LET admitted == AdmittedPositions(query, CscRuns)
      Candidates(v) == {Plus(old[CscSource[p]], CscWeight[p]) :
                          p \in {q \in admitted : CscDestination[q] = v}}
  IN [v \in Vertices |->
        IF OwnerTile[v] \in query.selected_tiles
          THEN Min({old[v]} \union Candidates(v)) ELSE next[v]]

PullPair(query, run) ==
  LET c       == run.controller
      old     == run.distances[c.distance_read_slot]
      best    == PullRound(query, old, run.distances[c.distance_write_slot])
      changed == IF \E v \in Vertices : best[v] < old[v]
                   THEN StandaloneLane ELSE {}
  IN IF c.done \/ c.execute_lane_mask = {} THEN run
     ELSE [controller |-> AdvanceJacobiController(
                            [c EXCEPT !.changed_lane_mask = @ \union changed]),
           distances  |-> [run.distances EXCEPT ![c.distance_write_slot] = best]]

\* run_host_jacobi_pull
PullAlone(query, options) ==
  LET after[k \in 0 .. options.maximum_rounds] ==
        IF k = 0 THEN StartPull(query, options)
                 ELSE PullPair(query, after[k - 1])
  IN after[options.maximum_rounds]

-----------------------------------------------------------------------------
(***************************************************************************)
(* Dense                                                                   *)
(***************************************************************************)
\* validate_host_problem of dense_chaotic_push.cpp
ValidPushProblem(query) ==
  ValidRouteQuery(query) /\ ValidRuns(CsrRuns, CsrSource, CsrDestination)

\* The schedule turns rows, runs and edges around alike.
IsReverse(schedule, rounds) ==
  \/ schedule = "csr_reverse"
  \/ schedule = "alternating" /\ rounds % 2 = 1

StartDense(query, options) ==
  [controller |-> InitializeDeviceController(options, StandaloneLane, 0),
   distances  |-> [slot \in Slots |-> Seeded(query.sources)]]

\* dense_atomic_min_bits on one edge
Relax(distance, p) ==
  [distance EXCEPT ![CsrDestination[p]] =
     Min({distance[CsrDestination[p]],
          Plus(distance[CsrSource[p]], CsrWeight[p])})]

\* A scan lowers the labels in place.
DensePair(query, options, run) ==
  LET c       == run.controller
      order   == InOrder(AdmittedPositions(query, CsrRuns))
      scanned == FoldLeft(Relax, run.distances[0],
                          IF IsReverse(options.schedule, c.rounds_completed)
                            THEN Reverse(order) ELSE order)
      changed == IF scanned # run.distances[0] THEN StandaloneLane ELSE {}
  IN IF c.done \/ c.execute_lane_mask = {} THEN run
     ELSE [controller |-> AdvanceDenseController(
                            [c EXCEPT !.changed_lane_mask = @ \union changed]),
           distances  |-> [run.distances EXCEPT ![0] = scanned]]

\* run_host_dense_chaotic_push
DenseAlone(query, options) ==
  LET after[k \in 0 .. options.maximum_rounds] ==
        IF k = 0 THEN StartDense(query, options)
                 ELSE DensePair(query, options, after[k - 1])
  IN after[options.maximum_rounds]

-----------------------------------------------------------------------------
(***************************************************************************)
(* Frontier                                                                *)
(***************************************************************************)
\* make_frontier_scratch_layout and its batched twin
QueueCapacity(options) ==
  IF options.queue_capacity = 0 THEN VertexCount ELSE options.queue_capacity

\* validate_host_problem of frontier_push.cpp
ValidFrontierProblem(query, options) ==
  ValidPushProblem(query) /\ QueueCapacity(options) \in 1 .. VertexCount

Kept(queue, capacity) == SubSeq(queue, 1, Min({capacity, Len(queue)}))

\* initialize_host_state
StartFrontier(query, options) ==
  LET sources == InOrder(query.sources)
      c == InitializeDeviceController(options, StandaloneLane, Len(sources))
  IN [controller         |-> IF Len(sources) > QueueCapacity(options)
                               THEN CanonicalizeFrontierError(c, "queue_overflow")
                               ELSE c,
      distances          |-> [slot \in Slots |-> Seeded(query.sources)],
      frontiers          |-> [slot \in Slots |->
                                IF slot = 0
                                  THEN Kept(sources, QueueCapacity(options))
                                  ELSE <<>>],
      enqueue_generation |-> [v \in Vertices |-> 0]]

\* One edge: a decrease claims an entry of the next queue, once per vertex and
\* round.
PushEdge(f, p, capacity) ==
  LET v         == CsrDestination[p]
      candidate == Plus(f.distance[CsrSource[p]], CsrWeight[p])
      claims    == f.enqueue_generation[v] # f.generation
  IN IF candidate >= f.distance[v] THEN f
     ELSE IF ~claims THEN [f EXCEPT !.distance[v] = candidate]
     ELSE [f EXCEPT
             !.distance[v]           = candidate,
             !.enqueue_generation[v] = f.generation,
             !.size                  = @ + 1,
             !.queue                 = IF f.size < capacity
                                         THEN Append(@, v) ELSE @,
             !.error_bits            = IF f.size < capacity
                                         THEN @ ELSE {"queue_overflow"}]

\* The edges of the current queue, in its order.
FrontierEdges(query, queue) ==
  LET admitted == AdmittedPositions(query, CsrRuns)
  IN FlattenSeq([n \in DOMAIN queue |->
                   InOrder({p \in admitted : CsrSource[p] = queue[n]})])

\* execute_host_round and the transition; the tests of the code that end in
\* invalid_controller_state are the first case.
FrontierPair(query, options, run) ==
  LET c        == run.controller
      read     == c.frontier_read_slot
      write    == c.frontier_write_slot
      capacity == QueueCapacity(options)
      queue    == run.frontiers[read]
      start    == [distance           |-> run.distances[0],
                   enqueue_generation |-> run.enqueue_generation,
                   generation         |-> c.rounds_completed + 1,
                   queue              |-> <<>>,
                   size               |-> 0,
                   error_bits         |-> c.error_bits]
      Step(f, p) == PushEdge(f, p, capacity)
      end      == FoldLeft(Step, start, FrontierEdges(query, queue))
      executed == [c EXCEPT !.frontier_size[write]    = end.size,
                            !.next_frontier_lane_mask = IF end.size = 0
                                                          THEN @
                                                          ELSE StandaloneLane,
                            !.error_bits              = end.error_bits]
  IN IF c.done \/ c.execute_lane_mask = {} THEN run
     ELSE IF \/ c.frontier_size[read] \notin 1 .. capacity
             \/ c.frontier_size[write] # 0
             \/ \E n \in DOMAIN queue :
                  OwnerTile[queue[n]] \notin query.selected_tiles
       THEN [run EXCEPT !.controller =
               CanonicalizeFrontierError(c, "invalid_controller_state")]
     ELSE [controller         |-> AdvanceFrontierController(executed),
           distances          |-> [run.distances EXCEPT ![0] = end.distance],
           frontiers          |-> [run.frontiers EXCEPT ![write] = end.queue],
           enqueue_generation |-> end.enqueue_generation]

\* run_host_frontier_push
FrontierAlone(query, options) ==
  LET after[k \in 0 .. options.maximum_rounds] ==
        IF k = 0 THEN StartFrontier(query, options)
                 ELSE FrontierPair(query, options, after[k - 1])
  IN after[options.maximum_rounds]

-----------------------------------------------------------------------------
\* What a portable engine answers for one query.
RunAlone(query, options) ==
  CASE options.engine = "jacobi_pull"        -> PullAlone(query, options)
    [] options.engine = "dense_chaotic_push" -> DenseAlone(query, options)
    [] options.engine = "frontier_push"      -> FrontierAlone(query, options)

FinalDistances(run) == run.distances[run.controller.distance_read_slot]

\* The status and the exceptions at the end of the three run functions.
ReachesTargets(query, run) ==
  \A v \in query.targets : FinalDistances(run)[v] # Infinity

StatusAlone(query, run) ==
  MakeRunStatus(run.controller, run.controller.distance_read_slot,
                IF ReachesTargets(query, run) THEN StandaloneLane ELSE {},
                IF ReachesTargets(query, run) THEN {} ELSE StandaloneLane)

ValidAlone(query, options) ==
  LET run == RunAlone(query, options)
  IN /\ CASE options.engine = "jacobi_pull"        -> ValidPullProblem(query)
          [] options.engine = "dense_chaotic_push" -> ValidPushProblem(query)
          [] options.engine = "frontier_push" ->
               ValidFrontierProblem(query, options)
     /\ ValidDeviceController(run.controller)
     /\ ValidDeviceRunStatus(StatusAlone(query, run))
=============================================================================
