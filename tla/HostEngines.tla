----------------------------- MODULE HostEngines -----------------------------
(***************************************************************************)
(* The portable batched engines (src/src/batched_jacobi_pull.cpp,          *)
(* src/src/batched_dense_chaotic_push.cpp and                              *)
(* src/src/batched_frontier_push.cpp).  They read what they need of the    *)
(* batch from its BatchDeviceDescription and route all its lanes at once:  *)
(* an edge is loaded for a run and relaxed in the lanes of the run's mask. *)
(*                                                                         *)
(* run is the record of one engine run:                                    *)
(*   controller, distances of the two slots, the two frontier queues, the  *)
(*   activity masks of the vertices in them, convergence_round_by_lane,    *)
(*   the work counted so far and the pairs queued                          *)
(* Distances of a lane outside its tiles are infinite and are not counted. *)
(***************************************************************************)
EXTENDS PortableEngines

NoRun == <<>>

-----------------------------------------------------------------------------
(***************************************************************************)
(* validate_host_batch.  Each engine has a copy of its own, which differs  *)
(* in the orientation it looks at.                                         *)
(***************************************************************************)
\* The lanes and their terminals.
AcceptsLanes(d, queries, entry) ==
  /\ entry.valid_lane_mask # {} /\ entry.valid_lane_mask \subseteq Lanes
  /\ d.run_representation_initialized
  /\ d.valid_lane_mask = entry.valid_lane_mask
  /\ \A l \in entry.valid_lane_mask :
       LET q == entry.query_ids_by_lane[l]
       IN /\ q \in DOMAIN queries
          /\ d.query_ids_by_lane[l] = q
          /\ {d.expansion_generations_by_lane[l],
              entry.expansion_generations_by_lane[l]}
               = {queries[q].expansion_generation}
          /\ d.sources_by_lane[l] = queries[q].sources
          /\ d.targets_by_lane[l] = queries[q].targets
          /\ \A k \in entry.valid_lane_mask :
               entry.query_ids_by_lane[k] = q => k = l

\* The tile masks follow from the queries, and so do the union and the
\* vertices of the lanes.
AcceptsTiles(d, queries, entry) ==
  LET tilesOf(l)  == queries[entry.query_ids_by_lane[l]].selected_tiles
      expected(t) == {l \in entry.valid_lane_mask : t \in tilesOf(l)}
      union       == {t \in Tiles : expected(t) # {}}
  IN /\ \A t \in Tiles : d.tile_lane_masks[t] = expected(t)
     /\ d.union_tiles = union /\ entry.union_tiles = union
     /\ \A t \in union : entry.union_tile_lane_masks[t] = expected(t)
     /\ entry.union_vertex_count = SelectedVertexCount(union)
     /\ \A l \in entry.valid_lane_mask :
          /\ TerminalTiles(d.sources_by_lane[l] \union d.targets_by_lane[l])
               \subseteq tilesOf(l)
          /\ d.selected_vertex_counts_by_lane[l]
               = SelectedVertexCount(tilesOf(l))

\* The run masks are those the tile masks imply, in either form.
AcceptsRunStorage(d, storage, runs, entry) ==
  LET masks  == TileRunLaneMasks(runs, d.tile_lane_masks)
      active == ActiveRuns(runs, d.tile_lane_masks)
      retained ==
        [NoRunStorage EXCEPT !.run_lane_masks = masks,
                             !.touched_runs   = active]
  IN /\ storage = IF d.run_representation = "retained_per_run_masks"
                    THEN retained
                    ELSE WriteDescriptors(runs, d.tile_lane_masks,
                                          entry.union_tiles)
     /\ CoverageMatches(runs, entry, d)

\* Rows (columns) are covered by runs, and tiles own a stretch of vertices.
AcceptsGraph(runs, local, remote) == ValidTiles /\ ValidRuns(runs, local, remote)

AcceptsBatch(d, queries, entry, runs, storage, local, remote) ==
  /\ d.run_representation # "device_materialized_run_masks"
  /\ AcceptsGraph(runs, local, remote)
  /\ AcceptsLanes(d, queries, entry)
  /\ AcceptsTiles(d, queries, entry)
  /\ AcceptsRunStorage(d, storage, runs, entry)

ValidHostBatch(d, queries, entry, options) ==
  IF options.engine = "jacobi_pull"
    THEN AcceptsBatch(d, queries, entry, CscRuns, d.csc,
                      CscDestination, CscSource)
    ELSE AcceptsBatch(d, queries, entry, CsrRuns, d.csr,
                      CsrSource, CsrDestination)

-----------------------------------------------------------------------------
(***************************************************************************)
(* The edges of a vertex as an engine visits them: positions, and the      *)
(* lanes of the run each lies in.  Retained masks are found by the run's   *)
(* number, descriptors by the vertex's place in the packed union.          *)
(***************************************************************************)
RunsOf(d, storage, runs, v) ==
  LET own      == InOrder({n \in DOMAIN runs : runs[n].local = v})
      vertices == UnionVertices(d.union_tiles)
      place    == CHOOSE k \in DOMAIN vertices : vertices[k] = v
      offsets  == storage.descriptor_offsets_by_union_vertex
      masks    == ExpandedRunMasks(d, storage, runs)
  IN IF d.run_representation = "compact_nonzero_descriptors"
       THEN SubSeq(storage.run_descriptors, offsets[place - 1] + 1,
                   offsets[place])
       ELSE [m \in DOMAIN own |-> [run_id    |-> own[m],
                                   lane_mask |-> masks[own[m]]]]

EdgesOf(d, storage, runs, v) ==
  LET own == RunsOf(d, storage, runs, v)
      Visits(run) ==
        LET positions == InOrder(runs[run.run_id].positions)
        IN [n \in DOMAIN positions |->
              [position |-> positions[n], lanes |-> run.lane_mask]]
  IN FlattenSeq([m \in DOMAIN own |-> Visits(own[m])])

\* The visits in the lanes that take part in the round.
Narrowed(visits, lanes) ==
  [n \in DOMAIN visits |-> [visits[n] EXCEPT !.lanes = @ \intersect lanes]]

(***************************************************************************)
(* The counters of a run.  An edge is loaded once for all lanes of its     *)
(* visit and relaxed once for each of them.                                *)
(***************************************************************************)
NoWork == [rounds_executed_by_lane            |-> [l \in Lanes |-> 0],
           edge_loads                         |-> 0,
           lane_edge_relaxations              |-> 0,
           frontier_vertex_entries            |-> 0,
           active_vertex_lane_pairs           |-> 0,
           queue_claims                       |-> 0,
           unique_next_vertex_lane_activations |-> 0]

CountRound(work, visits, lanes) ==
  LET Add(sum, visit) == sum + Cardinality(visit.lanes)
      Loads(visit)    == visit.lanes # {}
  IN [work EXCEPT
        !.rounds_executed_by_lane =
           [l \in Lanes |-> IF l \in lanes THEN @[l] + 1 ELSE @[l]],
        !.edge_loads            = @ + Len(SelectSeq(visits, Loads)),
        !.lane_edge_relaxations = FoldLeft(Add, @, visits)]

-----------------------------------------------------------------------------
(***************************************************************************)
(* The start of a run                                                      *)
(***************************************************************************)
SeededLanes(d) ==
  [l \in Lanes |-> Seeded(IF l \in d.valid_lane_mask
                            THEN d.sources_by_lane[l] ELSE {})]

SeededMasks(d) ==
  [v \in Vertices |-> {l \in d.valid_lane_mask : v \in d.sources_by_lane[l]}]

\* The initial queue: the sources lane by lane, a vertex in its first lane.
SeededQueue(d) ==
  LET masks  == SeededMasks(d)
      Key(v) == <<Min(masks[v]), v>>
  IN SortedBy({v \in Vertices : masks[v] # {}}, Key)

StartRun(d, options) ==
  LET queue    == SeededQueue(d)
      pushes   == options.engine = "frontier_push"
      capacity == QueueCapacity(options)
      c        == InitializeDeviceController(options, d.valid_lane_mask,
                                             Len(queue))
  IN [controller |-> IF pushes /\ Len(queue) > capacity
                       THEN CanonicalizeFrontierError(c, "queue_overflow")
                       ELSE c,
      distances  |-> [slot \in Slots |-> SeededLanes(d)],
      queues     |-> [slot \in Slots |-> IF pushes /\ slot = 0
                                           THEN Kept(queue, capacity) ELSE <<>>],
      activity   |-> [slot \in Slots |->
                        IF pushes /\ slot = 0
                          THEN SeededMasks(d) ELSE [v \in Vertices |-> {}]],
      convergence_round_by_lane |-> [l \in Lanes |-> 0],
      work               |-> NoWork,
      queued_round_pairs |-> 0]

\* The first round that ended with evidence that the lane is done.
Publish(run, lanes, round) ==
  [l \in Lanes |->
     IF l \in lanes /\ run.convergence_round_by_lane[l] = 0
       THEN round ELSE run.convergence_round_by_lane[l]]

-----------------------------------------------------------------------------
(***************************************************************************)
(* Jacobi: the round of run_host_batched_jacobi_pull                       *)
(***************************************************************************)
\* The lanes that pull into a vertex in this round.
DestinationLanes(d, c, v) ==
  d.tile_lane_masks[OwnerTile[v]] \intersect c.execute_lane_mask

\* What the round writes in one lane: the best label, improved or not.
PullLane(d, c, l, old, next) ==
  LET Candidates(v) ==
        LET visits == EdgesOf(d, d.csc, CscRuns, v)
        IN {Plus(old[CscSource[visits[n].position]],
                 CscWeight[visits[n].position]) :
              n \in {m \in DOMAIN visits : l \in visits[m].lanes}}
  IN [v \in Vertices |-> IF l \in DestinationLanes(d, c, v)
                             THEN Min({old[v]} \union Candidates(v)) ELSE next[v]]

\* The columns of the union, run by run.
PullOrder(d) ==
  LET vertices == UnionVertices(d.union_tiles)
  IN FlattenSeq([k \in DOMAIN vertices |->
                   EdgesOf(d, d.csc, CscRuns, vertices[k])])

FinishPull(d, run, written) ==
  LET c       == run.controller
      old     == run.distances[c.distance_read_slot]
      changed == {l \in c.execute_lane_mask :
                    \E v \in Vertices : l \in DestinationLanes(d, c, v)
                                          /\ written[l][v] < old[l][v]}
  IN [run EXCEPT
        !.controller = AdvanceJacobiController(
                         [c EXCEPT !.changed_lane_mask = @ \union changed]),
        !.distances[c.distance_write_slot] = written,
        !.convergence_round_by_lane =
           Publish(run, c.execute_lane_mask \ changed, c.rounds_completed + 1),
        !.work = CountRound(@, Narrowed(PullOrder(d), c.execute_lane_mask),
                            c.execute_lane_mask)]

HostJacobiPair(d, run) ==
  LET c    == run.controller
      old  == run.distances[c.distance_read_slot]
      next == run.distances[c.distance_write_slot]
  IN FinishPull(d, run, [l \in Lanes |->
                           IF l \in c.execute_lane_mask
                             THEN PullLane(d, c, l, old[l], next[l])
                             ELSE next[l]])

-----------------------------------------------------------------------------
(***************************************************************************)
(* Dense: the round of run_host_batched_dense_chaotic_push                 *)
(***************************************************************************)
\* Fault variant, here and below, which no specification uses: an edge is
\* relaxed in every lane of the batch.
FaultRelaxLanes(distances, p, lanes) ==
  [l \in Lanes |-> Relax(distances[l], p)]

\* One edge, in the lanes given.
RelaxLanes(distances, p, lanes) ==
  [l \in Lanes |-> IF l \in lanes THEN Relax(distances[l], p) ELSE distances[l]]

ScanOrder(d, schedule, rounds) ==
  LET vertices == UnionVertices(d.union_tiles)
      visits == FlattenSeq([k \in DOMAIN vertices |->
                              EdgesOf(d, d.csr, CsrRuns, vertices[k])])
  IN IF IsReverse(schedule, rounds) THEN Reverse(visits) ELSE visits

FinishScan(run, visits, scanned) ==
  LET c       == run.controller
      changed == {l \in Lanes : scanned[l] # run.distances[0][l]}
  IN [run EXCEPT
        !.controller   = AdvanceDenseController(
                           [c EXCEPT !.changed_lane_mask = @ \union changed]),
        !.distances[0] = scanned,
        !.convergence_round_by_lane =
           Publish(run, c.execute_lane_mask \ changed, c.rounds_completed + 1),
        !.work = CountRound(@, visits, c.execute_lane_mask)]

HostDensePair(d, options, run) ==
  LET c == run.controller
      Step(distances, visit) ==
        RelaxLanes(distances, visit.position, visit.lanes)
      Scan(visits) ==
        FinishScan(run, visits, FoldLeft(Step, run.distances[0], visits))
  IN Scan(Narrowed(ScanOrder(d, options.schedule, c.rounds_completed),
                   c.execute_lane_mask))

-----------------------------------------------------------------------------
(***************************************************************************)
(* Frontier: the round of run_host_batched_frontier_push                   *)
(***************************************************************************)
InQueue(queue) == {queue[n] : n \in DOMAIN queue}

\* A queue holds every vertex with an activity mask, once.
QueueMatchesMasks(queue, activity) ==
  /\ \A m, n \in DOMAIN queue : queue[m] = queue[n] => m = n
  /\ InQueue(queue) = {v \in Vertices : activity[v] # {}}

\* The tests before the round.
FrontierReady(run, capacity) ==
  LET c     == run.controller
      read  == c.frontier_read_slot
      write == c.frontier_write_slot
  IN /\ c.frontier_size[read] \in 1 .. capacity /\ c.frontier_size[write] = 0
     /\ c.distance_read_slot = 0 /\ c.distance_write_slot = 0
     /\ \A v \in Vertices : run.activity[write][v] = {}
     /\ QueueMatchesMasks(run.queues[read], run.activity[read])
     /\ UNION {run.activity[read][v] : v \in Vertices} = c.execute_lane_mask

\* One edge: the lanes it lowers enter the vertex's next mask, and the first
\* of them claims an entry of the next queue.
PushLanes(f, visit, capacity) ==
  LET p      == visit.position
      v      == CsrDestination[p]
      lowers == {l \in visit.lanes : Relax(f.distances[l], p)[v]
                                       < f.distances[l][v]}
      claims == lowers # {} /\ f.activity[v] = {}
  IN [f EXCEPT
        !.distances   = RelaxLanes(@, p, lowers),
        !.activity[v] = @ \union lowers,
        !.lanes       = @ \union lowers,
        !.activated   = @ + Cardinality(lowers \ f.activity[v]),
        !.size        = IF claims THEN @ + 1 ELSE @,
        !.queue       = IF claims /\ f.size < capacity THEN Append(@, v) ELSE @,
        !.error_bits  = IF claims /\ f.size >= capacity
                          THEN {"queue_overflow"} ELSE @]

\* The edges of the queue's vertices, in the lanes they are active in.
ActiveVisits(d, queue, activity, execute) ==
  FlattenSeq([n \in DOMAIN queue |->
                Narrowed(EdgesOf(d, d.csr, CsrRuns, queue[n]),
                         activity[queue[n]] \intersect execute)])

\* The next queue after its round, when nothing went wrong.
FrontierWritten(f, capacity) ==
  f.error_bits = {} =>
    /\ f.size <= capacity
    /\ QueueMatchesMasks(f.queue, f.activity)
    /\ UNION {f.activity[v] : v \in Vertices} = f.lanes

\* The round itself.
PushRound(options, run, visits) ==
  LET c == run.controller
      Step(f, visit) == PushLanes(f, visit, QueueCapacity(options))
  IN FoldLeft(Step, [distances  |-> run.distances[0],
                     activity   |-> run.activity[c.frontier_write_slot],
                     lanes      |-> {},
                     queue      |-> <<>>,
                     activated  |-> 0,
                     size       |-> 0,
                     error_bits |-> c.error_bits], visits)

CountPush(run, visits, f) ==
  LET c     == run.controller
      read  == c.frontier_read_slot
      queue == run.queues[read]
      Pairs(sum, v) == sum + Cardinality(run.activity[read][v])
  IN [CountRound(run.work, visits, c.execute_lane_mask) EXCEPT
        !.frontier_vertex_entries  = @ + Len(queue),
        !.active_vertex_lane_pairs = FoldLeft(Pairs, @, queue),
        !.queue_claims             = @ + f.size,
        !.unique_next_vertex_lane_activations = @ + f.activated]

\* The controller after the round, and after its transition.
PushedController(run, f, capacity) ==
  LET executed == [run.controller EXCEPT
                     !.frontier_size[run.controller.frontier_write_slot] = f.size,
                     !.next_frontier_lane_mask = f.lanes,
                     !.error_bits              = f.error_bits]
  IN AdvanceBatchedFrontierController(
       IF FrontierWritten(f, capacity) THEN executed
       ELSE CanonicalizeFrontierError(executed, "invalid_controller_state"))

FinishPush(run, f, advanced, work) ==
  LET c      == run.controller
      read   == c.frontier_read_slot
      write  == c.frontier_write_slot
      proven == IF f.error_bits = {} /\ advanced.error_bits = {}
                  THEN c.execute_lane_mask \ f.lanes ELSE {}
  IN [run EXCEPT
        !.controller      = advanced,
        !.distances[0]    = f.distances,
        !.queues[write]   = f.queue,
        !.activity[write] = f.activity,
        !.activity[read]  = [v \in Vertices |->
                               IF v \in InQueue(run.queues[read]) THEN {}
                               ELSE @[v]],
        !.convergence_round_by_lane =
           Publish(run, proven, c.rounds_completed + 1),
        !.work = work]

HostFrontierPair(d, options, run) ==
  LET c        == run.controller
      read     == c.frontier_read_slot
      capacity == QueueCapacity(options)
      Pushed(visits, f) == FinishPush(run, f, PushedController(run, f, capacity),
                                      CountPush(run, visits, f))
      Push(visits)      == Pushed(visits, PushRound(options, run, visits))
  IN IF ~FrontierReady(run, capacity)
       THEN [run EXCEPT !.controller =
               CanonicalizeFrontierError(c, "invalid_controller_state")]
     ELSE Push(ActiveVisits(d, run.queues[read], run.activity[read],
                            c.execute_lane_mask))

\* An active lane has a finite label at its vertex, and a queued vertex a place
\* in the union; the code throws otherwise.
FrontierThrows(d, run) ==
  LET read == run.controller.frontier_read_slot
  IN \E v \in InQueue(run.queues[read]) :
       \/ OwnerTile[v] \notin d.union_tiles
       \/ \E l \in run.activity[read][v] : run.distances[0][l][v] = Infinity

-----------------------------------------------------------------------------
(***************************************************************************)
(* The run functions                                                       *)
(***************************************************************************)
\* A pair is a round and its transition.
ExecuteRoundPair(d, options, run) ==
  CASE options.engine = "jacobi_pull"        -> HostJacobiPair(d, run)
    [] options.engine = "dense_chaotic_push" -> HostDensePair(d, options, run)
    [] options.engine = "frontier_push"      -> HostFrontierPair(d, options, run)

PairThrows(d, options, run) ==
  /\ options.engine = "frontier_push" /\ ~run.controller.done
  /\ FrontierThrows(d, run)

Queued(options, pair) ==
  IF options.control_mode = "persistent_cooperative" THEN pair
  ELSE [pair EXCEPT !.queued_round_pairs = @ + 1]

\* A pair queued behind the last round finds the controller done.
ExecutePair(d, options, run) ==
  Queued(options, IF run.controller.done THEN run
                  ELSE ExecuteRoundPair(d, options, run))

\* The host looks at the controller after every pair or after every chunk.
AtPoll(options, run) ==
  options.control_mode = "chunked_host_poll" =>
    run.queued_round_pairs % options.rounds_per_chunk = 0

(***************************************************************************)
(* The counters a finished run derives.                                    *)
(***************************************************************************)
CompletedHostChunks(options, run) ==
  CASE options.control_mode = "persistent_cooperative" -> 0
    [] options.control_mode = "per_round_host_poll" -> run.queued_round_pairs
    [] options.control_mode = "chunked_host_poll" ->
         run.queued_round_pairs \div options.rounds_per_chunk

HostChecks(options, run) ==
  IF options.control_mode = "persistent_cooperative" THEN 1
  ELSE CompletedHostChunks(options, run)

KernelDispatches(options, run) == 1 + 2 * run.queued_round_pairs

ActiveLaneRounds(d, run) ==
  MapThenSumSet(LAMBDA l : run.work.rounds_executed_by_lane[l],
                d.valid_lane_mask)

ValidLaneRoundCapacity(d, run) ==
  run.controller.rounds_completed * Cardinality(d.valid_lane_mask)

\* The rounds of the batch after the lane was done.
TailRounds(d, run, l) ==
  IF l \in d.valid_lane_mask /\ run.convergence_round_by_lane[l] # 0
    THEN run.controller.rounds_completed - run.convergence_round_by_lane[l]
    ELSE 0

\* What per-lane convergence spared a full scan.
AvoidedRelaxations(d, options, run) ==
  IF options.enable_per_lane_convergence = 1
    THEN MapThenSumSet(LAMBDA l : TailRounds(d, run, l)
                                    * d.selected_edge_estimates_by_lane[l],
                       d.valid_lane_mask)
    ELSE 0

\* The requires on the counters; the pull engine has none.
CountersThrow(d, options, run) ==
  \/ /\ options.engine # "jacobi_pull"
     /\ \/ ActiveLaneRounds(d, run) > ValidLaneRoundCapacity(d, run)
        \/ \E l \in d.valid_lane_mask :
             run.convergence_round_by_lane[l] > run.controller.rounds_completed
  \/ /\ options.engine = "dense_chaotic_push"
     /\ run.work.lane_edge_relaxations > run.work.edge_loads * LaneCount
  \/ /\ options.engine = "frontier_push"
     /\ \/ run.work.active_vertex_lane_pairs < run.work.frontier_vertex_entries
        \/ run.work.lane_edge_relaxations < run.work.edge_loads
        \/ run.work.unique_next_vertex_lane_activations < run.work.queue_claims

\* Fault: one target is enough.
FaultReachedLanes(d, run) ==
  {l \in d.valid_lane_mask :
     \E v \in d.targets_by_lane[l] : FinalDistances(run)[l][v] # Infinity}

\* all_targets_reached
ReachedLanes(d, run) ==
  {l \in d.valid_lane_mask :
     \A v \in d.targets_by_lane[l] : FinalDistances(run)[l][v] # Infinity}

RunStatus(d, run) ==
  MakeRunStatus(run.controller, run.controller.distance_read_slot,
                ReachedLanes(d, run), d.valid_lane_mask \ ReachedLanes(d, run))

\* selected_slots_are_bitwise_identical, of the lanes with a proven round.
IdenticalLanes(d, run) ==
  {l \in d.valid_lane_mask :
     /\ run.convergence_round_by_lane[l]
          \in 1 .. run.controller.rounds_completed
     /\ \A v \in Vertices : l \in d.tile_lane_masks[OwnerTile[v]] =>
          run.distances[0][l][v] = run.distances[1][l][v]}

FinishThrows(d, options, run) ==
  \/ CountersThrow(d, options, run)
  \/ ~ValidDeviceController(run.controller)
  \/ ~ValidDeviceRunStatus(RunStatus(d, run))
  \/ /\ options.engine = "jacobi_pull"
     /\ RunStatus(d, run).converged
     /\ IdenticalLanes(d, run) # d.valid_lane_mask
=============================================================================
