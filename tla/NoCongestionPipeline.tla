------------------------ MODULE NoCongestionPipeline ------------------------
(***************************************************************************)
(* What becomes of a finished campaign (src/src/no_congestion_pipeline.cpp *)
(* and execute_once of src/tools/gpu_batched_expansion.hip.cpp): a compact *)
(* result is extracted for every query, from the paths its last attempt    *)
(* brought or, failing these, from its distances; the transfer is          *)
(* accounted for; and a sample of the paths is compared with the best of   *)
(* the whole graph.  The stages are timed; that is left out.               *)
(***************************************************************************)
EXTENDS HostExpansion

CONSTANT QualitySampleCount    \* quality_sample_query_count

ASSUME QualitySampleAssumption == QualitySampleCount \in Nat

VARIABLES
  answers,      \* latest_compact_paths and latest_distances of every query
  pipeline,     \* the step that is next, or how the pipeline ended
  results,      \* the CompactQueryResult of every query
  accounting,   \* NoCongestionResultAccounting
  quality       \* CompactPathQualitySample

reportVars   == <<results, accounting, quality>>
pipelineVars == <<vars, answers, pipeline, reportVars>>

-----------------------------------------------------------------------------
(***************************************************************************)
(* The campaign.  The states of HostExpansion say which answers are kept.  *)
(***************************************************************************)
NoAnswer == [paths |-> {}, labels |-> NoImage]

LatestAnswer(q) ==
  LET lane == CHOOSE l \in description.valid_lane_mask :
                description.query_ids_by_lane[l] = q
      Of(execution) ==
        [paths  |-> {p \in ToSet(execution.compact_paths) : p.query_id = q},
         labels |-> IF execution.final_distances = NoImage THEN NoImage
                    ELSE execution.final_distances[lane]]
  IN Of(Execution(description, queries, options, run))

PipelineInit ==
  /\ Init
  /\ answers = [q \in QueryIds |-> NoAnswer]
  /\ pipeline = "extract"
  /\ results = <<>> /\ accounting = <<>> /\ quality = <<>>

CampaignStep ==
  /\ Next
  /\ answers' = [q \in QueryIds |->
                   IF states'[q].attempts # states[q].attempts
                     THEN LatestAnswer(q) ELSE answers[q]]
  /\ UNCHANGED <<pipeline, reportVars>>

-----------------------------------------------------------------------------
(***************************************************************************)
(* Extraction                                                              *)
(***************************************************************************)
KeptPaths(q) ==
  IF states[q].compact_paths.present THEN answers[q].paths ELSE {}
KeptLabels(q) ==
  IF states[q].distances.present THEN answers[q].labels ELSE NoImage

\* Fault variant, which no specification uses: a query that cannot be reached
\* is published like one that was given up.
FaultReachedAlone(q) == states[q].disposition = "reached"

HasVerdict(q) ==
  states[q].disposition \in {"reached", "unreachable_in_full_region"}

FailedTarget == [reconstruction |-> "query_terminal_failure",
                 distance       |-> Infinity,
                 path           |-> NoPath]

\* make_compact_query_result
CompactQueryResult(payload, q) == payload @@ [disposition |-> states[q].disposition]

\* make_failed_compact_query_result
FailedQueryResult(q) ==
  CompactQueryResult([query_id             |-> q,
                      expansion_generation |-> states[q].expansion_generation,
                      targets |-> [t \in QueryTargets[q] |-> FailedTarget]], q)

\* What the dispositions ask of the targets.
FitsDisposition(result) ==
  LET statuses == {result.targets[t].reconstruction : t \in DOMAIN result.targets}
      failures == {"query_terminal_failure", "no_tight_path"}
  IN CASE result.disposition = "reached" -> statuses = {"complete"}
       [] result.disposition = "unreachable_in_full_region" ->
            "unreachable" \in statuses /\ statuses \subseteq {"complete", "unreachable"}
       [] result.disposition = "engine_failure" -> statuses \intersect failures # {}
       [] OTHER -> statuses = {"query_terminal_failure"}

\* validate_compact_query_result
ValidQueryResult(q, result) ==
  ValidPayload(q, RouteQuery(q), result) /\ FitsDisposition(result)

\* validate_compact_query_result_against_distances
AgreesWithDistances(result, labels) ==
  \A t \in DOMAIN result.targets :
    LET answer == result.targets[t]
    IN CASE answer.reconstruction = "complete" ->
              \A n \in DOMAIN answer.path.vertices :
                answer.path.distance_labels[n] = labels[answer.path.vertices[n]]
         [] answer.reconstruction \in {"unreachable", "no_tight_path"} ->
              answer.distance = labels[t]
         [] OTHER -> TRUE

\* A turn of the loop of extract_host_compact_paths.
ExtractedResult(q) ==
  IF KeptPaths(q) # {}
    THEN CompactQueryResult(CHOOSE p \in KeptPaths(q) : TRUE, q)
  ELSE IF KeptLabels(q) # NoImage /\ HasVerdict(q)
    THEN CompactQueryResult(
           ReconstructPayload(q, RouteQuery(q), KeptLabels(q)), q)
  ELSE FailedQueryResult(q)

ExtractionThrows(q, result) ==
  LET validated == KeptPaths(q) # {} \/ result # FailedQueryResult(q)
  IN \/ KeptPaths(q) = {} /\ KeptLabels(q) = NoImage /\ HasVerdict(q)
     \/ validated /\ ~ValidQueryResult(q, result)
     \/ /\ KeptPaths(q) # {} /\ KeptLabels(q) # NoImage
        /\ ~AgreesWithDistances(result, KeptLabels(q))

\* The executor's caller asks for results only where it asked for paths.
WantsResults == options.transfer = "host" \/ options.enable_compact_paths

\* validate_complete_run, as far as the models can tell.
CompleteRun ==
  /\ \A n \in DOMAIN trace : trace[n].valid_lane_mask # {}
  /\ metrics.initial_reached_queries
       <= Cardinality({q \in QueryIds : states[q].disposition = "reached"})

\* execute_once wants every batch with paths timed by the device.
PathsAreTimed ==
  /\ trace # <<>>
  /\ metrics.device_timing_measured_batches = Len(trace)

Extract ==
  /\ stage = "done" /\ pipeline = "extract"
  /\ \E extracted \in {[q \in QueryIds |-> ExtractedResult(q)]} :
       IF \/ ~CompleteRun
          \/ /\ options.transfer # "host" /\ options.enable_compact_paths
             /\ ~PathsAreTimed
          \/ WantsResults /\ \E q \in QueryIds : ExtractionThrows(q, extracted[q])
         THEN pipeline' = "thrown" /\ UNCHANGED results
       ELSE IF ~WantsResults
         THEN pipeline' = "without_paths" /\ UNCHANGED results
       ELSE pipeline' = "measure" /\ results' = extracted
  /\ UNCHANGED <<vars, answers, accounting, quality>>

-----------------------------------------------------------------------------
(***************************************************************************)
(* measure_no_congestion_result_transfer                                   *)
(***************************************************************************)
TargetCount(reconstruction) ==
  MapThenSumSet(
    LAMBDA q : Cardinality({t \in QueryTargets[q] :
                              results[q].targets[t].reconstruction
                                = reconstruction}),
    QueryIds)

ResultList == LET ids == InOrder(QueryIds)
              IN [n \in DOMAIN ids |-> results[ids[n]]]

\* What the device says it has sent, against the number of batches.
ForeignTransfer ==
  LET transport == metrics.transport
      batches_run == Len(trace)
  IN IF transport.total_device_to_host_bytes = 0
       THEN transport # NoTransport
     ELSE \/ ~ConsistentTransfer(metrics.compact_transfer)
          \/ transport.status_bytes # batches_run * StatusBytes
          \/ transport.error_bytes \notin
               {n * WordBytes : n \in batches_run .. 2 * batches_run}
          \/ transport.total_device_to_host_bytes
               # metrics.compact_transfer.total_bytes
                   + transport.status_bytes + transport.error_bytes
          \/ transport.controller_poll_bytes
               # transport.controller_poll_count * ControllerBytes
          \/ transport.overall_device_to_host_bytes
               # transport.total_device_to_host_bytes
                   + transport.controller_poll_bytes

MeasureTransfer ==
  LET serialized == MeasureCompactTransfer(ResultList)
  IN /\ pipeline = "measure"
     /\ IF ForeignTransfer \/ \E q \in QueryIds : ~FitsDisposition(results[q])
          THEN pipeline' = "thrown" /\ UNCHANGED accounting
          ELSE /\ pipeline' = "sample"
               /\ accounting' =
                    [target_summary_count |->
                       MapThenSumSet(LAMBDA q : Cardinality(QueryTargets[q]),
                                     QueryIds),
                     complete_path_count    |-> TargetCount("complete"),
                     unreachable_target_count |-> TargetCount("unreachable"),
                     terminal_failure_target_count |->
                       TargetCount("query_terminal_failure"),
                     reconstruction_failure_target_count |->
                       TargetCount("no_tight_path"),
                     final_result_serialization |-> serialized,
                     modeled_final_transfer_bytes |->
                       Len(trace) * StatusBytes + serialized.total_bytes,
                     device_transfer_evidence |->
                       IF metrics.transport = NoTransport THEN "unavailable"
                                                          ELSE "measured"]
     /\ UNCHANGED <<vars, answers, results, quality>>

-----------------------------------------------------------------------------
(***************************************************************************)
(* sample_compact_path_quality.  A seed decides which queries are sampled; *)
(* any may be.                                                             *)
(***************************************************************************)
\* The distances within some tiles; those of dijkstra_oracle within all.
ShortestWithin(sources, tiles) ==
  LET admitted == {p \in Edges : {OwnerTile[CsrSource[p]],
                                  OwnerTile[CsrDestination[p]]} \subseteq tiles}
      Into(v)  == {p \in admitted : CsrDestination[p] = v}
      Round(d) == [v \in Vertices |->
                     Min({d[v]} \union {Plus(d[CsrSource[p]], CsrWeight[p]) :
                                          p \in Into(v)})]
      after[k \in 0 .. VertexCount - 1] ==
        IF k = 0 THEN Seeded(sources) ELSE Round(after[k - 1])
  IN after[VertexCount - 1]

Compared(q, t, bounded, best) ==
  [query_id           |-> q,
   target             |-> t,
   found              |-> best.reconstruction = "complete",
   absolute_cost_inflation   |-> bounded.distance - best.distance,
   absolute_length_inflation |-> Len(bounded.path.edge_ids)
                                   - Len(best.path.edge_ids)]

Observation(q, t) ==
  LET unbounded == [RouteQuery(q) EXCEPT !.selected_tiles = Tiles]
  IN Compared(q, t, results[q].targets[t],
              ReconstructTarget(
                unbounded, ShortestWithin(QuerySources[q], Tiles), t))

CompleteTargets(q) == {t \in QueryTargets[q] :
                         results[q].targets[t].reconstruction = "complete"}

\* The inflations of the observations, each told apart by where it was seen.
CostInflations(observations) ==
  {<<o.absolute_cost_inflation, o.query_id, o.target>> : o \in observations}
LengthInflations(observations) ==
  {<<o.absolute_length_inflation, o.query_id, o.target>> : o \in observations}

\* percentile: the value of the nearest rank, and 0 of no values.
Percentile(inflations, percent) ==
  LET sorted == SortedBy(inflations, LAMBDA i : i)
      rank   == (percent * Len(sorted) + 99) \div 100
  IN IF inflations = {} THEN 0 ELSE sorted[rank][1]

Samples == {s \in SUBSET QueryIds :
              Cardinality(s) = Min({QualitySampleCount, Cardinality(QueryIds)})}

QualityOf(sampled, observations) ==
  [sampled_query_ids |-> sampled,
   observations      |-> observations,
   cost_p50   |-> Percentile(CostInflations(observations), 50),
   cost_p95   |-> Percentile(CostInflations(observations), 95),
   length_p50 |-> Percentile(LengthInflations(observations), 50),
   length_p95 |-> Percentile(LengthInflations(observations), 95)]

SampleQuality ==
  /\ pipeline = "sample"
  /\ \E sampled \in Samples :
       \E observations \in {UNION {{Observation(q, t) : t \in CompleteTargets(q)} :
                                    q \in sampled}} :
         IF \/ \E q \in QueryIds : ~ValidQueryResult(q, results[q])
            \/ \E o \in observations : ~o.found
           THEN pipeline' = "thrown" /\ UNCHANGED quality
           ELSE /\ pipeline' = "published"
                /\ quality' = QualityOf(sampled, observations)
  /\ UNCHANGED <<vars, answers, results, accounting>>

PipelineNext == CampaignStep \/ Extract \/ MeasureTransfer \/ SampleQuality

PipelineSpec == PipelineInit /\ [][PipelineNext]_pipelineVars

-----------------------------------------------------------------------------
(***************************************************************************)
(* Properties                                                              *)
(***************************************************************************)
\* A verdict comes with the distances that are true within the region it was
\* reached in, under the generation of its last restart; what was given up
\* comes with nothing.
ResultIsTrue(q) ==
  LET result == results[q]
      state  == states[q]
      truth  == ShortestWithin(QuerySources[q], state.selected_tiles)
  IN /\ result.expansion_generation
          = InitialGenerations[q] + state.total_expansions
     /\ \A t \in QueryTargets[q] :
          IF state.disposition \in {"reached", "unreachable_in_full_region"}
            THEN /\ result.targets[t].distance = truth[t]
                 /\ result.targets[t].reconstruction =
                      IF truth[t] = Infinity THEN "unreachable" ELSE "complete"
            ELSE result.targets[t].reconstruction = "query_terminal_failure"
     /\ state.disposition = "reached" =>
          \A t \in QueryTargets[q] : truth[t] # Infinity
     /\ state.disposition = "unreachable_in_full_region" =>
          /\ state.selected_tiles = Tiles
          /\ \E t \in QueryTargets[q] : truth[t] = Infinity

\* Every target is accounted for once, and every word of the results was sent;
\* the device sent a summary of every target at every attempt.
AccountBalances ==
  LET sent      == metrics.compact_transfer
      published == accounting.final_result_serialization
      asked     == MapThenSumSet(
                     LAMBDA q : states[q].attempts * Cardinality(QueryTargets[q]),
                     QueryIds)
  IN /\ accounting.target_summary_count
          = accounting.complete_path_count + accounting.unreachable_target_count
              + accounting.terminal_failure_target_count
              + accounting.reconstruction_failure_target_count
     /\ options.enable_compact_paths =>
          /\ published.vertex_bytes <= sent.vertex_bytes
          /\ published.edge_id_bytes <= sent.edge_id_bytes
     /\ accounting.device_transfer_evidence = "measured" =>
          /\ sent.summary_bytes = SummaryBytes * asked
          /\ accounting.modeled_final_transfer_bytes
               < metrics.transport.total_device_to_host_bytes

\* No path of the sample is shorter than the best of the whole graph; a path
\* found in the full region is the best.  The percentiles are those of the
\* nearest rank.
SampleIsSound ==
  LET seen == quality.observations
      IsNearestRank(inflations, value, percent) ==
        /\ Cardinality({i \in inflations : i[1] <= value}) * 100
             >= percent * Cardinality(inflations)
        /\ inflations # {} =>
             Cardinality({i \in inflations : i[1] < value}) * 100
               < percent * Cardinality(inflations)
  IN /\ \A o \in seen :
          /\ o.absolute_cost_inflation >= 0
          /\ states[o.query_id].selected_tiles = Tiles =>
               o.absolute_cost_inflation = 0 /\ o.absolute_length_inflation = 0
     /\ IsNearestRank(CostInflations(seen), quality.cost_p50, 50)
     /\ IsNearestRank(CostInflations(seen), quality.cost_p95, 95)
     /\ IsNearestRank(LengthInflations(seen), quality.length_p50, 50)
     /\ IsNearestRank(LengthInflations(seen), quality.length_p95, 95)

\* What leaves the pipeline is true, whatever restarts and failures came
\* before, whether paths or distances were kept, and whichever part of the
\* host or the device found them; and the pipeline refuses no campaign.
PublishedIsTrue ==
  /\ pipeline # "thrown"
  /\ pipeline = "published" =>
       /\ \A q \in QueryIds : ResultIsTrue(q)
       /\ AccountBalances
       /\ SampleIsSound
=============================================================================
