------------------------------ MODULE BatchAnswer ------------------------------
(***************************************************************************)
(* What a batch runner gives back, and what the expansion loop takes: the  *)
(* ExpansionBatchExecution of the portable callback                        *)
(* (src/src/batched_expansion.cpp), that of BatchedExpansionExecutor       *)
(* (src/src/hip/batched_expansion.hip.cpp), and the tests of the loop's    *)
(* boundary.                                                               *)
(*                                                                         *)
(* options.transfer is "host" for the portable callback, or the            *)
(* BatchedExpansionTransferMode of the executor.  Durations are left out,  *)
(* but not whether they were taken.  The paths the device sends are those  *)
(* of the host's search, as CompactPaths shows of one batch.               *)
(***************************************************************************)
EXTENDS DeviceEngines

Transfers == CompactTransfers \union {"host", "status_and_work_evidence"}

\* validate_binding; and neither evidence nor paths where no one looks for
\* them.  A worklist without counters has no evidence to transfer.
ValidBinding(options) ==
  /\ options.transfer \in Transfers
  /\ options.instrumentation \in InstrumentationLevels
  /\ options.transfer \in CompactTransfers => options.instrumentation = "none"
  /\ options.transfer # "host" =>
       options.enable_compact_paths = (options.transfer = "compact_paths")
  /\ options.transfer = "status_and_work_evidence"
       /\ options.engine = "frontier_push" => options.instrumentation # "none"

BatchRepresentation(options) ==
  IF options.transfer = "host" THEN options.representation
                               ELSE DeviceRepresentation(options.engine)

\* The engine's judgement of the batch.  The queue of the device has room for
\* every vertex.
EngineAccepts(d, queries, entry, options) ==
  IF options.transfer = "host"
    THEN /\ ValidHostBatch(d, queries, entry, options)
         /\ QueueCapacity(options) \in 1 .. VertexCount
    ELSE ValidDeviceBatch(d, options)

EngineThrows(d, options, run) ==
  IF options.transfer = "host" THEN FinishThrows(d, options, run)
                               ELSE DeviceFinishThrows(d, options, run)

-----------------------------------------------------------------------------
(***************************************************************************)
(* The compact paths of a lane                                             *)
(***************************************************************************)
NoPath == [vertices |-> <<>>, distance_labels |-> <<>>, edge_ids |-> <<>>]

\* tight_choices, without the vertices on the path.
TightChoices(query, labels, v, path) ==
  {p \in DOMAIN CsrEdges :
     LET u == CsrSource[p]
     IN /\ CsrDestination[p] = v
        /\ OwnerTile[u] \in query.selected_tiles /\ u \notin path
        /\ labels[u] # Infinity /\ Plus(labels[u], CsrWeight[p]) = labels[v]}

\* The loop of reconstruct_target: back along the tight edge with the smallest
\* id, up to a source; a vertex that leads to none is left again.
Backtracked(query, labels, target) ==
  LET Walk[v \in Vertices, path \in SUBSET Vertices] ==
        LET From(p)   == Walk[CsrSource[p], path \union {CsrSource[p]}]
            leading   == {p \in TightChoices(query, labels, v, path) :
                            From(p).found}
            best      == CHOOSE p \in leading :
                           \A q \in leading : CsrEdges[p] <= CsrEdges[q]
        IN IF v \in query.sources THEN [found |-> TRUE, positions |-> <<>>]
           ELSE IF leading = {} THEN [found |-> FALSE, positions |-> <<>>]
           ELSE [found     |-> TRUE,
                 positions |-> Append(From(best).positions, best)]
  IN Walk[target, {target}]

TargetAnswer(labels, target, walk) ==
  LET n        == Len(walk.positions)
      vertices == [i \in 1 .. n + 1 |->
                     IF i = n + 1 THEN target ELSE CsrSource[walk.positions[i]]]
  IN IF labels[target] = Infinity
       THEN [reconstruction |-> "unreachable", distance |-> Infinity,
             path |-> NoPath]
     ELSE IF ~walk.found
       THEN [reconstruction |-> "no_tight_path", distance |-> labels[target],
             path |-> NoPath]
     ELSE [reconstruction |-> "complete", distance |-> labels[target],
           path |-> [vertices        |-> vertices,
                     distance_labels |-> [i \in 1 .. n + 1 |->
                                            labels[vertices[i]]],
                     edge_ids        |-> [i \in 1 .. n |->
                                            CsrEdges[walk.positions[i]]]]]

ReconstructTarget(query, labels, target) ==
  TargetAnswer(labels, target, Backtracked(query, labels, target))

\* reconstruct_compact_path_payload
ReconstructPayload(id, query, labels) ==
  [query_id             |-> id,
   expansion_generation |-> query.expansion_generation,
   targets              |-> [t \in query.targets |->
                               ReconstructTarget(query, labels, t)]]

ValidTargetPath(query, t, answer) ==
  LET path == answer.path
      n    == Len(path.edge_ids)
      Cost(sum, e) == Plus(sum, Weight[e])
  IN IF answer.reconstruction # "complete"
       THEN /\ path = NoPath
            /\ answer.distance = Infinity <=>
                 answer.reconstruction \in {"unreachable", "query_terminal_failure"}
       ELSE /\ Len(path.vertices) = n + 1 /\ Len(path.distance_labels) = n + 1
            /\ path.vertices[1] \in query.sources /\ path.vertices[n + 1] = t
            /\ \A i, j \in 1 .. n + 1 :
                 path.vertices[i] = path.vertices[j] => i = j
            /\ \A i \in 1 .. n + 1 :
                 OwnerTile[path.vertices[i]] \in query.selected_tiles
            /\ path.distance_labels[1] = 0
            /\ \A i \in 1 .. n :
                 LET e == path.edge_ids[i]
                 IN /\ NewSource[e] = path.vertices[i]
                    /\ NewDestination[e] = path.vertices[i + 1]
                    /\ Plus(path.distance_labels[i], Weight[e])
                         = path.distance_labels[i + 1]
            /\ FoldLeft(Cost, 0, path.edge_ids) = answer.distance
            /\ path.distance_labels[n + 1] = answer.distance

\* validate_compact_path_payload
ValidPayload(id, query, payload) ==
  /\ payload.query_id = id
  /\ payload.expansion_generation = query.expansion_generation
  /\ DOMAIN payload.targets = query.targets
  /\ \A t \in query.targets : ValidTargetPath(query, t, payload.targets[t])

-----------------------------------------------------------------------------
(***************************************************************************)
(* Bytes                                                                   *)
(***************************************************************************)
SummaryBytes    == 28    \* sizeof(CompactTargetSummary)
StatusBytes     == 48    \* sizeof(DeviceRunStatus)
ControllerBytes == 96    \* sizeof(DeviceController)
WordBytes       == 4

TransferOf(summaries, vertices, edges) ==
  [summary_bytes        |-> SummaryBytes * summaries,
   vertex_bytes         |-> WordBytes * vertices,
   distance_label_bytes |-> WordBytes * vertices,
   edge_id_bytes        |-> WordBytes * edges,
   total_bytes          |-> SummaryBytes * summaries + 2 * WordBytes * vertices
                              + WordBytes * edges]

NoTransfer == TransferOf(0, 0, 0)

PayloadSum(payloads, Size(_)) ==
  LET Add(sum, payload) ==
        sum + MapThenSumSet(LAMBDA t : Size(payload.targets[t].path),
                            DOMAIN payload.targets)
  IN FoldLeft(Add, 0, payloads)

MeasureCompactTransfer(payloads) ==
  TransferOf(PayloadSum(payloads, LAMBDA path : 1),
             PayloadSum(payloads, LAMBDA path : Len(path.vertices)),
             PayloadSum(payloads, LAMBDA path : Len(path.edge_ids)))

\* compact_status_bytes and the fields that follow it.
NoTransport ==
  [status_bytes |-> 0, error_bytes |-> 0, total_device_to_host_bytes |-> 0,
   controller_poll_count |-> 0, controller_poll_bytes |-> 0,
   overall_device_to_host_bytes |-> 0]

\* A second error word comes with the paths.
DeviceTransport(transfer, polls) ==
  LET errors == IF transfer.vertex_bytes # 0 THEN 2 * WordBytes ELSE WordBytes
      total  == transfer.total_bytes + StatusBytes + errors
  IN [status_bytes                 |-> StatusBytes,
      error_bytes                  |-> errors,
      total_device_to_host_bytes   |-> total,
      controller_poll_count        |-> polls,
      controller_poll_bytes        |-> polls * ControllerBytes,
      overall_device_to_host_bytes |-> total + polls * ControllerBytes]

-----------------------------------------------------------------------------
(***************************************************************************)
(* The executions                                                          *)
(***************************************************************************)
NoImage == <<>>

NoDeviceWork ==
  [edges_examined |-> 0, host_checks |-> 0, host_synchronizations |-> 0,
   controller_copies |-> 0, kernel_dispatches |-> 0]

\* An ExpansionBatchExecution with its status filled in.
StatusExecution(d, options, run) ==
  [engine_kind            |-> options.engine,
   control_mode           |-> options.control_mode,
   status                 |-> RunStatus(d, run),
   work                   |-> NoDeviceWork,
   work_evidence          |-> "unavailable",
   shared_edge_work       |-> 0,
   logical_lane_edge_work |-> 0,
   final_distances        |-> NoImage,
   compact_paths          |-> <<>>,
   compact_transfer       |-> NoTransfer,
   transport              |-> NoTransport,
   device_timing          |-> "unavailable",
   host_timing            |-> "unavailable"]

CleanConvergence(status) ==
  status.stop_reason = "converged" /\ status.error_bits = {}

\* The payloads of a clean batch, by query.
BatchPayloads(d, queries, run) ==
  LET Key(l)     == <<d.query_ids_by_lane[l]>>
      lanes      == SortedBy(d.valid_lane_mask, Key)
      Payload(l) == ReconstructPayload(
                      d.query_ids_by_lane[l],
                      queries[d.query_ids_by_lane[l]], FinalDistances(run)[l])
  IN IF CleanConvergence(RunStatus(d, run))
       THEN [n \in DOMAIN lanes |-> Payload(lanes[n])] ELSE <<>>

\* The callback of run_host_batched_expansion.
HostExecution(d, queries, options, run) ==
  LET checks == HostChecks(options, run)
      base   == [StatusExecution(d, options, run) EXCEPT
                   !.work_evidence          = "measured",
                   !.shared_edge_work       = run.work.edge_loads,
                   !.logical_lane_edge_work = run.work.lane_edge_relaxations,
                   !.work = [edges_examined |-> run.work.lane_edge_relaxations,
                             host_checks |-> checks,
                             host_synchronizations |-> checks,
                             controller_copies |-> checks,
                             kernel_dispatches |->
                               KernelDispatches(options, run)]]
      paths  == BatchPayloads(d, queries, run)
  IN IF options.enable_compact_paths
       THEN [base EXCEPT !.compact_paths    = paths,
                         !.compact_transfer = MeasureCompactTransfer(paths),
                         !.host_timing      = "measured"]
       ELSE [base EXCEPT !.final_distances = FinalDistances(run)]

\* What run_status_only counts on the host: the polls, the last copies, and
\* the kernels that surround the pairs when no one kernel runs them all.
DeviceWork(options, run) ==
  LET polls  == CompletedHostChunks(options, run)
      copies == IF options.engine = "jacobi_pull" THEN 1 ELSE 2
      around == IF options.engine = "frontier_push" THEN 4 ELSE 2
  IN [edges_examined        |-> IF options.instrumentation = "none" THEN 0
                                ELSE run.work.lane_edge_relaxations,
      host_checks           |-> polls,
      host_synchronizations |-> polls + 1,
      controller_copies     |-> polls + copies,
      kernel_dispatches     |->
        IF options.control_mode = "persistent_cooperative" THEN 1
        ELSE around + 2 * run.queued_round_pairs]

\* The scans' evidence is exact with or without counters.
EvidenceExecution(d, options, run) ==
  LET scans == options.engine # "frontier_push"
  IN [StatusExecution(d, options, run) EXCEPT
        !.work          = DeviceWork(options, run),
        !.work_evidence = IF scans \/ options.instrumentation # "none"
                            THEN "measured" ELSE "unavailable",
        !.shared_edge_work =
           IF scans THEN ExactEdgeRecords(d, options, run)
                    ELSE run.work.edge_loads,
        !.logical_lane_edge_work =
           IF scans THEN ExactLaneEdgePairs(d, options, run)
                    ELSE run.work.lane_edge_relaxations]

\* compact_path_execution, with the bytes of reconstruct(): it sends every
\* target's summary, after a run that is not clean too.
CompactPathExecution(d, queries, options, run) ==
  LET paths    == BatchPayloads(d, queries, run)
      targets  == MapThenSumSet(LAMBDA l : Cardinality(d.targets_by_lane[l]),
                                d.valid_lane_mask)
      transfer == IF CleanConvergence(RunStatus(d, run))
                    THEN MeasureCompactTransfer(paths)
                    ELSE TransferOf(targets, 0, 0)
      polls    == CompletedHostChunks(options, run)
  IN [StatusExecution(d, options, run) EXCEPT
        !.compact_paths    = paths,
        !.compact_transfer = transfer,
        !.transport        = DeviceTransport(transfer, polls),
        !.device_timing    = "measured",
        !.host_timing      = "measured"]

\* The runner's answer to a finished run.
Execution(d, queries, options, run) ==
  CASE options.transfer = "host" -> HostExecution(d, queries, options, run)
    [] options.transfer = "status_and_work_evidence" ->
         EvidenceExecution(d, options, run)
    [] options.transfer = "compact_status" -> StatusExecution(d, options, run)
    [] options.transfer = "compact_paths" ->
         CompactPathExecution(d, queries, options, run)

-----------------------------------------------------------------------------
(***************************************************************************)
(* The boundary: an answer the loop rejects                                *)
(***************************************************************************)
ForeignStatus(x, entry, options) ==
  \/ x.engine_kind # options.engine \/ x.control_mode # options.control_mode
  \/ ~ValidDeviceRunStatus(x.status)
  \/ x.status.valid_lane_mask # entry.valid_lane_mask

\* Numbers without evidence, or less logical than shared work.
MalformedWork(x) ==
  \/ /\ x.work_evidence = "unavailable"
     /\ \/ x.shared_edge_work # 0 \/ x.logical_lane_edge_work # 0
        \/ x.work # NoDeviceWork
  \/ /\ x.work_evidence = "measured"
     /\ x.logical_lane_edge_work < x.shared_edge_work

MalformedImage(x) ==
  x.final_distances # NoImage /\ DOMAIN x.final_distances # Lanes

ConsistentTransfer(transfer) ==
  transfer.summary_bytes + transfer.vertex_bytes
    + transfer.distance_label_bytes + transfer.edge_id_bytes
    = transfer.total_bytes

\* Without the device there are no bytes; with it they add up, and only a
\* host that polls has polled.
ConsistentTransport(x) ==
  LET bytes == x.transport
  IN IF bytes.total_device_to_host_bytes = 0 THEN bytes = NoTransport
     ELSE /\ x.compact_transfer.total_bytes + bytes.status_bytes
               + bytes.error_bytes = bytes.total_device_to_host_bytes
          /\ bytes.controller_poll_bytes
               = bytes.controller_poll_count * ControllerBytes
          /\ bytes.controller_poll_count = 0
               <=> x.control_mode = "persistent_cooperative"
          /\ bytes.total_device_to_host_bytes + bytes.controller_poll_bytes
               = bytes.overall_device_to_host_bytes

CarriesCompact(x) ==
  \/ x.compact_paths # <<>> \/ x.compact_transfer # NoTransfer
  \/ x.transport # NoTransport
  \/ x.device_timing # "unavailable" \/ x.host_timing # "unavailable"

\* A payload for every valid lane of a clean batch, by query, of the lane's
\* generation.
MalformedPaths(x, queries, entry) ==
  LET paths == x.compact_paths
      count == IF CleanConvergence(x.status)
                 THEN Cardinality(entry.valid_lane_mask) ELSE 0
  IN \/ Len(paths) # count
     \/ \E n \in 1 .. Len(paths) - 1 :
          paths[n].query_id >= paths[n + 1].query_id
     \/ \E n \in DOMAIN paths :
          LET id == paths[n].query_id
          IN ~\E l \in entry.valid_lane_mask :
                /\ entry.query_ids_by_lane[l] = id
                /\ entry.expansion_generations_by_lane[l]
                     = paths[n].expansion_generation
                /\ ValidPayload(id, queries[id], paths[n])

\* The bytes are those of the paths; after a run that is not clean those of
\* the summaries, if any were sent.
MalformedTransfer(x, queries, entry) ==
  LET sent     == x.transport.total_device_to_host_bytes # 0
      targets  == MapThenSumSet(
                    LAMBDA l : Cardinality(
                      queries[entry.query_ids_by_lane[l]].targets),
                    entry.valid_lane_mask)
      expected == CASE CleanConvergence(x.status) ->
                         MeasureCompactTransfer(x.compact_paths)
                    [] ~CleanConvergence(x.status) /\ sent ->
                         TransferOf(targets, 0, 0)
                    [] OTHER -> NoTransfer
      errors   == IF x.compact_transfer.vertex_bytes = 0 THEN 1 ELSE 2
  IN \/ x.compact_transfer # expected
     \/ sent /\ \/ x.transport.status_bytes # StatusBytes
                \/ x.transport.error_bytes # errors * WordBytes

Unclassified(status) ==
  IF CleanConvergence(status)
    THEN \/ Classified(status) # status.valid_lane_mask
         \/ status.reached_target_mask
              \intersect status.bounding_box_miss_mask # {}
    ELSE Classified(status) # {}

Rejected(x, queries, entry, options) ==
  \/ ForeignStatus(x, entry, options)
  \/ MalformedWork(x)
  \/ MalformedImage(x)
  \/ ~ConsistentTransfer(x.compact_transfer)
  \/ ~ConsistentTransport(x)
  \/ ~options.enable_compact_paths /\ CarriesCompact(x)
  \/ /\ options.enable_compact_paths
     /\ \/ x.host_timing # "measured"
        \/ MalformedPaths(x, queries, entry)
        \/ MalformedTransfer(x, queries, entry)
  \/ Unclassified(x.status)
=============================================================================
