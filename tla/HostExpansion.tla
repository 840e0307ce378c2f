---------------------------- MODULE HostExpansion ----------------------------
(***************************************************************************)
(* run_host_batched_expansion (src/src/batched_expansion.cpp): the loop of *)
(* BatchedExpansion with everything it leaves open filled in.  The plan is *)
(* the one the planner builds, one BatchDeviceDescription is prepared for  *)
(* every batch in turn, and the lanes of a batch are reached when the      *)
(* engine's labels say so.  The loop's account of the campaign is kept:    *)
(* its metrics, and the trace of its batches.                              *)
(*                                                                         *)
(* A step plans a pass, prepares a batch and seeds its run, executes one   *)
(* round with its transition, retires the lanes of a finished run, or      *)
(* ends the pass.  An exception of any part leaves the loop.               *)
(***************************************************************************)
EXTENDS BatchAnswer

CONSTANTS
  QueryIds, QuerySources, QueryTargets, Padding, InitialGenerations,
  CountLimit, MarginLimit,
  Campaigns     \* options of BatchedExpansion, with those of the engines,
                \* of the planner and of HostBatchedExpansionOptions

\* The stop reasons a portable run may end with, and the statuses
\* reconstruct_compact_path_payload gives for exact labels.
Failures == {"maximum_rounds", "queue_overflow"}
Payloads == SUBSET {"complete", "unreachable"} \ {{}}

VARIABLES
  options, states, active, failed, planning_pass, stage,  \* BatchedExpansion's
  queries,        \* the RouteQuerys of the pass
  features,       \* their BatchQueryFeatures
  batches,        \* plan.batches
  batch_index,    \* the batch that is next, or runs
  description,    \* the BatchDeviceDescription all batches share
  run,            \* of the engine
  metrics,        \* BatchedExpansionMetrics, as far as the loop has got
  trace           \* an ExpansionBatchTrace for every batch

campaignVars == <<options, states, active, failed, planning_pass, stage>>
planVars     == <<queries, features, batches, batch_index>>
ledgerVars   == <<metrics, trace>>
vars         == <<campaignVars, planVars, description, run, ledgerVars>>

Lane(q) == [generation |-> queries[q].expansion_generation,
            tiles      |-> queries[q].selected_tiles]

RemainingBatches ==
  {[q \in EntryQueries(batches[n]) |-> Lane(q)] :
     n \in batch_index .. Len(batches)}

BE == INSTANCE BatchedExpansion WITH
        Source <- CsrSource, Destination <- CsrDestination,
        LaneWidth <- LaneCount, plan <- RemainingBatches

ASSUME HostAssumption ==
  \A c \in Campaigns :
    /\ c.engine \in EngineKinds
    /\ c.enable_per_lane_convergence \in Slots
    /\ c.maximum_rounds \in Nat \ {0}
    /\ c.representation \in Representations
    /\ c.schedule \in Schedules
    /\ c.queue_capacity \in Nat
    /\ c.control_mode \in ControlModes /\ c.rounds_per_chunk \in Nat \ {0}
    /\ ValidPolicy(c.policy)
    /\ ValidBinding(c)
    /\ c.returns_distances = (c.transfer = "host" /\ ~c.enable_compact_paths)

-----------------------------------------------------------------------------
RouteQuery(q) ==
  [expansion_generation |-> states[q].expansion_generation,
   sources              |-> QuerySources[q],
   targets              |-> QueryTargets[q],
   selected_tiles       |-> states[q].selected_tiles]

\* The tests before the loop.
ValidProblem ==
  /\ ValidWeightedGraph /\ ValidTileRunLayout
  /\ \A q \in QueryIds : ValidRouteQuery(RouteQuery(q))

\* output.metrics, without what is read off the states at the end.
NoMetrics ==
  [initial_reached_queries          |-> 0,
   initial_batches_executed         |-> 0,
   retry_batches_executed           |-> 0,
   retry_valid_lane_observations    |-> 0,
   retry_lane_capacity              |-> 0,
   attempted_selected_vertex_count  |-> 0,
   attempted_selected_edge_estimate |-> 0,
   work_measured_batches            |-> 0,
   shared_edge_work                 |-> 0,
   logical_lane_edge_work           |-> 0,
   retry_shared_edge_work           |-> 0,
   retry_logical_lane_edge_work     |-> 0,
   failed_lane_observations         |-> 0,
   failed_origin_valid_lane_observations |-> 0,
   failed_batch_logical_lane_edge_work   |-> 0,
   device_work                      |-> NoDeviceWork,
   compact_transfer                 |-> NoTransfer,
   transport                        |-> NoTransport,
   device_timing_measured_batches   |-> 0,
   host_timing_measured_batches     |-> 0,
   scheduled_expansions             |-> 0,
   full_region_fallbacks            |-> 0,
   repeated_selected_edge_estimate  |-> 0]

Init ==
  /\ options \in Campaigns
  /\ states = [q \in QueryIds |-> BE!InitialState(q)]
  /\ active = QueryIds
  /\ failed = {}
  /\ planning_pass = 0
  /\ stage = IF ~ValidProblem THEN "aborted"
             ELSE IF QueryIds = {} THEN "done" ELSE "plan"
  /\ queries = <<>> /\ features = <<>>
  /\ batches = <<>> /\ batch_index = 1
  /\ description = EmptyDescription
  /\ run = NoRun
  /\ metrics = NoMetrics /\ trace = <<>>

Abort == stage' = "aborted" /\ UNCHANGED <<options, states, active, failed,
                                           planning_pass>>

\* make_batch_query_features, make_overlapping_batch_plan and its validation.
PlanPass ==
  LET asked  == [q \in active |-> RouteQuery(q)]
      priced == [q \in active |-> QueryFeatures(asked[q])]
  IN /\ stage = "plan"
     /\ \E plan \in {BuildPlan(priced, options.policy)} :
          IF \/ \E q \in active : states[q].terminal
             \/ ~ValidBatchPlan(priced, options.policy, plan)
            THEN Abort /\ UNCHANGED planVars
            ELSE /\ queries' = asked /\ features' = priced
                 /\ batches' = plan /\ batch_index' = 1
                 /\ failed' = {}
                 /\ stage' = "execute"
                 /\ UNCHANGED <<options, states, active, planning_pass>>
     /\ UNCHANGED <<description, run, ledgerVars>>

\* The callback up to the engine's first round.
PrepareBatch ==
  LET entry    == batches[batch_index]
      prepared == PreparedDescription(description, queries, features, entry,
                                      BatchRepresentation(options))
  IN /\ stage = "execute" /\ run = NoRun
     /\ description' = prepared
     /\ IF \/ PreparationThrows(description, queries, features, entry,
                                BatchRepresentation(options), prepared)
           \/ ~EngineAccepts(prepared, queries, entry, options)
          THEN Abort /\ UNCHANGED run
          ELSE /\ run' = StartRun(prepared, options)
               /\ UNCHANGED campaignVars
     /\ UNCHANGED <<planVars, ledgerVars>>

\* One execute_pair of the engine.
ExecuteRound ==
  /\ stage = "execute" /\ run # NoRun
  /\ ~(run.controller.done /\ AtPoll(options, run))
  /\ IF PairThrows(description, options, run)
       THEN Abort /\ UNCHANGED run
       ELSE /\ run' = ExecutePair(description, options, run)
            /\ UNCHANGED campaignVars
  /\ UNCHANGED <<planVars, description, ledgerVars>>

\* The statuses of the query's compact path payload; none if there is none.
PathStatuses(execution, q) ==
  UNION {{payload.targets[t].reconstruction : t \in DOMAIN payload.targets} :
           payload \in {p \in ToSet(execution.compact_paths) : p.query_id = q}}

\* The state of the lane's query after the run.
LaneOutcome(l, execution) ==
  LET q         == description.query_ids_by_lane[l]
      status    == execution.status
      paths     == PathStatuses(execution, q)
      attempted == BE!Attempted(states[q], Lane(q))
      captured  == BE!WithPayload(attempted, Lane(q), paths)
  IN IF BE!AttemptsExhausted(states[q])
       THEN BE!SetTerminal([states[q] EXCEPT !.distances     = BE!Nothing,
                                             !.compact_paths = BE!Nothing],
                           "identity_or_count_overflow", status.stop_reason)
     ELSE IF ~status.converged
       THEN BE!EngineFailure(attempted, status.stop_reason)
     ELSE IF l \in status.reached_target_mask
       THEN BE!RetireReached(captured, paths)
     ELSE BE!KeepMissed(captured, paths)

\* The tests of the engine, of the answer, and at the top of the lane loop.
ResultThrows(execution) ==
  LET entry == batches[batch_index]
  IN \/ EngineThrows(description, options, run)
     \/ Rejected(execution, queries, entry, options)
     \/ \E q \in EntryQueries(entry) :
          \/ states[q].terminal
          \/ states[q].expansion_generation # queries[q].expansion_generation

\* The sum of two records, field by field.
AddFields(a, b) == [field \in DOMAIN a |-> a[field] + b[field]]

\* What a batch adds to the metrics, after its lane loop.
CountBatch(m, entry, x) ==
  LET lanes    == Cardinality(entry.valid_lane_mask)
      measured == IF x.work_evidence = "measured" THEN 1 ELSE 0
      retry    == IF planning_pass = 0 THEN 0 ELSE 1
      misses   == Cardinality(x.status.bounding_box_miss_mask)
      missed   == IF misses # 0 THEN 1 ELSE 0
      Timed(evidence) == IF evidence = "measured" THEN 1 ELSE 0
      first    == {q \in EntryQueries(entry) : states'[q].disposition = "reached"}
  IN [m EXCEPT
        !.initial_reached_queries  = @ + (1 - retry) * Cardinality(first),
        !.initial_batches_executed = @ + 1 - retry,
        !.retry_batches_executed   = @ + retry,
        !.retry_valid_lane_observations = @ + retry * lanes,
        !.retry_lane_capacity      = @ + retry * LaneCount,
        !.attempted_selected_vertex_count =
           @ + entry.selected_lane_vertex_count,
        !.attempted_selected_edge_estimate =
           @ + entry.selected_lane_edge_estimate,
        !.work_measured_batches    = @ + measured,
        !.shared_edge_work         = @ + x.shared_edge_work,
        !.logical_lane_edge_work   = @ + x.logical_lane_edge_work,
        !.retry_shared_edge_work   = @ + retry * x.shared_edge_work,
        !.retry_logical_lane_edge_work =
           @ + retry * x.logical_lane_edge_work,
        !.failed_lane_observations = @ + misses,
        !.failed_origin_valid_lane_observations = @ + missed * lanes,
        !.failed_batch_logical_lane_edge_work =
           @ + missed * x.logical_lane_edge_work,
        !.device_work              = AddFields(@, x.work),
        !.compact_transfer         = AddFields(@, x.compact_transfer),
        !.transport                = AddFields(@, x.transport),
        !.device_timing_measured_batches = @ + Timed(x.device_timing),
        !.host_timing_measured_batches   = @ + Timed(x.host_timing)]

BatchTrace(entry, x) ==
  [planning_pass                 |-> planning_pass,
   batch_index                   |-> batch_index,
   valid_lane_mask               |-> entry.valid_lane_mask,
   reached_lane_mask             |-> x.status.reached_target_mask,
   miss_lane_mask                |-> x.status.bounding_box_miss_mask,
   query_ids_by_lane             |-> entry.query_ids_by_lane,
   expansion_generations_by_lane |-> entry.expansion_generations_by_lane,
   shared_edge_work              |-> x.shared_edge_work,
   logical_lane_edge_work        |-> x.logical_lane_edge_work,
   work_evidence                 |-> x.work_evidence,
   stop_reason                   |-> x.status.stop_reason]

\* The answer of the engine and the lane loop.
FinishBatch ==
  LET entry     == batches[batch_index]
      LaneOf(q) == CHOOSE l \in entry.valid_lane_mask :
                     entry.query_ids_by_lane[l] = q
  IN /\ stage = "execute" /\ run # NoRun
     /\ run.controller.done /\ AtPoll(options, run)
     /\ \E execution \in {Execution(description, queries, options, run)} :
          IF ResultThrows(execution)
            THEN Abort /\ UNCHANGED <<batch_index, run, ledgerVars>>
            ELSE /\ states' = [q \in QueryIds |->
                                 IF q \in EntryQueries(entry)
                                   THEN LaneOutcome(LaneOf(q), execution)
                                   ELSE states[q]]
                 /\ failed' = failed \union {q \in EntryQueries(entry) :
                                               ~states'[q].terminal}
                 /\ metrics' = CountBatch(metrics, entry, execution)
                 /\ trace' = Append(trace, BatchTrace(entry, execution))
                 /\ batch_index' = batch_index + 1
                 /\ run' = NoRun
                 /\ stage' = IF batch_index = Len(batches) THEN "advance"
                             ELSE "execute"
                 /\ UNCHANGED <<options, active, planning_pass>>
     /\ UNCHANGED <<queries, features, batches, description>>

\* What the restarts of a pass add to the metrics: the tiles they give up.
CountRestarts(m) ==
  LET restarted == {q \in failed : states'[q].total_expansions
                                     > states[q].total_expansions}
      fallbacks == {q \in restarted : states'[q].fallback_used}
  IN [m EXCEPT
        !.scheduled_expansions  = @ + Cardinality(restarted \ fallbacks),
        !.full_region_fallbacks = @ + Cardinality(fallbacks),
        !.repeated_selected_edge_estimate =
           @ + MapThenSumSet(
                 LAMBDA q : SelectedEdgeCount(states[q].selected_tiles),
                 restarted)]

\* The end of the pass.
AdvanceFailedQueries ==
  /\ stage = "advance"
  /\ states' = [q \in QueryIds |-> IF q \in failed THEN BE!Advanced(q)
                                                   ELSE states[q]]
  /\ active' = {q \in failed : ~states'[q].terminal}
  /\ metrics' = CountRestarts(metrics)
  /\ LET throws == \/ \E q \in failed : ~BE!PayloadAgrees(states'[q])
                   \/ active' # {} /\ planning_pass = CountLimit
     IN /\ planning_pass' = IF active' # {} /\ ~throws
                              THEN planning_pass + 1 ELSE planning_pass
        /\ stage' = IF throws THEN "aborted"
                    ELSE IF active' = {} THEN "done" ELSE "plan"
  /\ UNCHANGED <<options, failed, planVars, description, run, trace>>

Terminated == stage \in {"done", "aborted"} /\ UNCHANGED vars

Next == \/ PlanPass \/ PrepareBatch \/ ExecuteRound \/ FinishBatch
        \/ AdvanceFailedQueries \/ Terminated

Spec == Init /\ [][Next]_vars

-----------------------------------------------------------------------------
(***************************************************************************)
(* Properties                                                              *)
(***************************************************************************)
\* The pipeline is a BatchedExpansion: its plans are among those the abstract
\* loop allows, a lane is reached just when its query can be reached within
\* the lane's tiles, whatever the engine, the run representation, the schedule
\* and the companions, and no part ever throws.
ImplementsExpansion == BE!Spec

\* The thresholds, in integers of which nothing can be lost.
Overlap(tiles, q) ==
  [common |-> Cardinality(tiles \intersect features[q].selected_tiles),
   all    |-> Cardinality(tiles \union features[q].selected_tiles)]

MayJoin(lanes, q) ==
  LET overlap == Overlap(UnionTiles(features, lanes), q)
      policy  == options.policy
      Size(f) == Cardinality(f.selected_tiles)
  IN /\ overlap.common * policy.jaccard.denominator
          >= policy.jaccard.numerator * overlap.all
     /\ overlap.all * (Cardinality(lanes) + 1) * policy.inflation.denominator
          <= policy.inflation.numerator
               * SumOver(features, lanes \union {q}, Size)

\* The plan is what the greedy rule promises, whatever the comparison of
\* fractions by continued quotients makes of it: every lane met both
\* thresholds against the lanes before it, none left for a later batch
\* overlapped more, and no later query would fit a batch with a lane to spare.
PlanIsGreedy ==
  stage = "execute" =>
    \A n \in DOMAIN batches :
      LET ids     == batches[n].query_ids_by_lane
          lanes   == batches[n].valid_lane_mask
          Left(l) == {ids[k] : k \in {j \in lanes : j < l}}
          later   == UNION {EntryQueries(batches[m]) : m \in n + 1 .. Len(batches)}
      IN /\ \A l \in lanes \ {0} :
              LET mine == Overlap(UnionTiles(features, Left(l)), ids[l])
              IN /\ MayJoin(Left(l), ids[l])
                 /\ \A q \in later : MayJoin(Left(l), q) =>
                      LET other == Overlap(UnionTiles(features, Left(l)), q)
                      IN other.common * mine.all <= mine.common * other.all
         /\ Cardinality(lanes) < LaneCount =>
              \A q \in later : ~MayJoin(EntryQueries(batches[n]), q)
         /\ \A q \in later : features[q].selected_edge_estimate
                               <= features[ids[0]].selected_edge_estimate

\* The description an engine runs on is the one a fresh description would have
\* become: nothing of the batches before shows in it, it passes its validator,
\* and a run's mask admits a lane just when both endpoints of every edge do.
ReuseIsInvisible ==
  (run # NoRun \/ stage = "aborted") /\ batch_index \in DOMAIN batches =>
    LET entry == batches[batch_index]
    IN /\ description = PreparedDescription(EmptyDescription, queries, features,
                                            entry,
                                            BatchRepresentation(options))
       /\ ValidDescription(description, queries, features, entry)
       /\ EndpointAdmission(description)

\* The query of a lane, alone, with as much room and time as it can need.
AloneOptions ==
  [options EXCEPT !.queue_capacity = 0, !.maximum_rounds = VertexCount + 1]

\* A lane of a converged batch ends with the labels its query gets from the
\* engine for one query; the full scans find them in as many rounds, too.
LanesRunAlone ==
  run # NoRun /\ run.controller.stop_reason = "converged" =>
    \A l \in description.valid_lane_mask :
      LET query == queries[description.query_ids_by_lane[l]]
          alone == RunAlone(query, AloneOptions)
      IN /\ ValidAlone(query, AloneOptions)
         /\ alone.controller.stop_reason = "converged"
         /\ FinalDistances(run)[l] = FinalDistances(alone)
         /\ options.engine # "frontier_push" =>
              run.convergence_round_by_lane[l]
                = alone.controller.rounds_completed

-----------------------------------------------------------------------------
(***************************************************************************)
(* The account                                                             *)
(***************************************************************************)
SumTrace(Value(_)) == FoldLeft(LAMBDA sum, t : sum + Value(t), 0, trace)

QuerySum(S, Value(_)) == MapThenSumSet(LAMBDA q : Value(q), S)

\* Between two passes: every lane of the trace is an attempt of its query, and
\* every attempt but the last ended in a restart.
AttemptsBalance ==
  LET retired == QueryIds \ active
      EdgesOfQuery(q) == SelectedEdgeCount(states[q].selected_tiles)
      Attempts(q)  == states[q].attempts
      Restarts(q)  == states[q].total_expansions
      LanesOfBatch(t)    == Cardinality(t.valid_lane_mask)
      restarts     == QuerySum(QueryIds, Restarts)
      missed       == {q \in retired : states[q].disposition \in
                         {"unreachable_in_full_region", "expansion_limit",
                          "region_stalled"}}
  IN /\ SumTrace(LanesOfBatch) = QuerySum(QueryIds, Attempts)
     /\ SumTrace(LanesOfBatch) = restarts + Cardinality(retired)
     /\ metrics.retry_valid_lane_observations
          = SumTrace(LanesOfBatch) - (IF trace = <<>> THEN 0 ELSE Cardinality(QueryIds))
     /\ metrics.retry_valid_lane_observations <= metrics.retry_lane_capacity
     /\ metrics.scheduled_expansions + metrics.full_region_fallbacks = restarts
     /\ metrics.attempted_selected_edge_estimate
          = metrics.repeated_selected_edge_estimate + QuerySum(retired, EdgesOfQuery)
     /\ metrics.failed_lane_observations = restarts + Cardinality(missed)

\* Within a finished run that met no error: the edges loaded and the lanes
\* relaxed are those of the rounds each lane took part in, whichever way they
\* are counted.
ScanBalances ==
  LET work == run.work
      Estimate(l) == description.selected_edge_estimates_by_lane[l]
      lanes       == description.valid_lane_mask
  IN /\ work.lane_edge_relaxations
          = MapThenSumSet(LAMBDA l : work.rounds_executed_by_lane[l] * Estimate(l),
                          lanes)
     /\ work.edge_loads = ExactEdgeRecords(description, options, run)
     /\ work.lane_edge_relaxations
          = ExactLaneEdgePairs(description, options, run)
     /\ work.lane_edge_relaxations
          + AvoidedRelaxations(description, options, run)
          = run.controller.rounds_completed
              * MapThenSumSet(LAMBDA l : Estimate(l), lanes)

\* Every vertex that enters a frontier leaves it by a round, or waits in it.
FrontierBalances ==
  LET work    == run.work
      waiting == run.controller.frontier_read_slot
      pending == run.activity[waiting]
      sources == SeededMasks(description)
      Pairs(masks) == MapThenSumSet(LAMBDA v : Cardinality(masks[v]), Vertices)
  IN /\ work.frontier_vertex_entries + Len(run.queues[waiting])
          = work.queue_claims + Len(SeededQueue(description))
     /\ work.active_vertex_lane_pairs + Pairs(pending)
          = work.unique_next_vertex_lane_activations + Pairs(sources)

RunBalances ==
  /\ \A l \in description.valid_lane_mask :
       run.work.rounds_executed_by_lane[l] = LaneExecutedRounds(options, run, l)
  /\ run.work.edge_loads <= run.work.lane_edge_relaxations
  /\ run.work.lane_edge_relaxations
       <= run.work.edge_loads * Cardinality(description.valid_lane_mask)
  /\ IF options.engine = "frontier_push" THEN FrontierBalances
                                         ELSE ScanBalances

\* The campaign's account balances: no attempt, restart, lane, round or edge
\* is lost or counted twice, across passes, retries and early convergence.
LedgerBalances ==
  /\ stage \in {"plan", "done"} => AttemptsBalance
  /\ run # NoRun /\ run.controller.done /\ run.controller.error_bits = {}
       => RunBalances
=============================================================================
