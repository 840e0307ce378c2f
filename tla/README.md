# A TLA+ model of bfnew

`bfnew` routes queries on a resident FPGA graph.  A query is a set of source
vertices, a set of target vertices and a set of tiles; an engine computes
shortest distances from the sources within the tiles, several queries at a
time in the lanes of a batch, and a host loop grows the tiles of every query
that misses a target.  This directory models the way of a campaign from the
graph's construction to the published results: the kernels at the grain of
their atomic operations, the leases and streams they run in, the planner, the
description of a batch, the host loop, the paths and the report.  TLC checks
small instances; TLAPS proves, for every instance, that the CPU reference
computes the shortest distances, that the three standalone engines keep their
promises to it, and the safety of the workspace and of the expansion loop.

## The system and what is modelled

| Component | State it keeps | Operations | Modules |
|---|---|---|---|
| Graph construction and spatial order (`graph_builder.cpp`, `reorder.cpp`) | none (pure) | number the vertices tile after tile, give edges their identities, sort rows and columns, validate | `SpatialGraph`, `WeightedGraph` |
| Tile runs, region index, directory, device image (`device_layout.cpp`, `selected_region_index.cpp`, `tiled_graph.cpp`) | none (pure) | build, validate, price a region, fingerprint | `TileLayout`, `TileDirectory`, `DeviceLayout`, `TileRegions` |
| Query-induced problem (`query.cpp`, CPU Bellman-Ford) | none (pure) | admitted edges, binary32 addition without rounding, synchronous reference | `RoutingProblem` |
| What any engine promises | distances, outcome | relax, converge, stop | `Relaxation` |
| Controller and run status (`gpu_api`) | lane masks, round counts, slots, queue sizes, done, stop reason, errors | initialise, validate, publish a status | `GpuApi` |
| The controllers of the engines (`frontier_push.hpp`, `dense_chaotic_push.hpp`, `jacobi_pull.hpp`) | the controller | fail, advance a round | `FrontierController`, `SweepController` |
| Standalone HIP engines (`hip/frontier_push`, `hip/dense_chaotic_push`, `hip/jacobi`) | distances, queues and generations or slots, run masks, controller, registers | every atomic operation, barrier, poll | `FrontierPush`, `SweepEngine`, `DenseChaoticPush`, `JacobiPull` |
| Batched HIP engines (`hip/batched_frontier_push`, `hip/batched_dense_chaotic_push`, `hip/batched_jacobi`) | the same per lane, activity or execute masks, work counters, the previous batch's words | as above, several batches in one workspace, and the host's tests of the answer | `BatchProblem`, `BatchedFrontierPush`, `BatchedSweep` |
| Workspace and leases (`hip/workspace`, `hip/resident_graph`, `hip/runtime`, and the runs of the engines that use them) | lease, capacity, staging, streams with their queued work, upload | reserve, prepare, launch, download, retire, hand over, recover, destroy, lose the device | `RetainedWorkspace` |
| Path reconstruction (`hip/compact_path_results`, `compact_paths.cpp`, `path_reconstruct.cpp`, `reference_dijkstra.cpp`) | the walk, its mark words, ranges, the queue of the oracle | count, write, search on the host, validate, sample | `CompactPaths` |
| Batch planner (`batch_plan.cpp`) | none (pure) | features, greedy lanes, comparison of fractions, validate | `BatchPlanner` |
| Batch description (`batch_layout.cpp`) | the description that is reused, its ledgers | clear, fill, represent runs, validate | `BatchLayout` |
| Portable engines (`frontier_push.cpp`, ..., `batched_jacobi_pull.cpp`) | the record of a run | seed, execute a round, count work | `PortableEngines`, `HostEngines` |
| The host side of the batched HIP engines and the runner (`hip/batched_*.hip.cpp`, `hip/batched_expansion.hip.cpp`) | none beside a run's | test, reconstruct the work, transfer, answer | `DeviceEngines`, `BatchAnswer` |
| Batched expansion (`batched_expansion.cpp`) | a `QueryState` per query, the pass, its plan, the misses, the metrics, the trace | plan a pass, prepare and execute a batch, retire lanes, restart misses | `BatchedExpansion` (the promise), `HostExpansion` (the loop) |
| No-congestion pipeline (`no_congestion_pipeline.cpp`, `execute_once` of the expansion tool) | results, accounting, quality sample | extract, measure, sample | `NoCongestionPipeline` |

How they compose.  `NoCongestionPipeline` EXTENDS `HostExpansion`, which
extends the chain `BatchAnswer`, `DeviceEngines`, `HostEngines`,
`PortableEngines`, `BatchLayout`, `BatchPlanner`, `TileLayout`,
`WeightedGraph`: one campaign runs through all of them.  `HostExpansion` is
shown to implement `BatchedExpansion`.  The device modules stand beside this
chain: each models what the portable round stands for when the executor runs
on the device.  The engines implement `Relaxation` (the batched ones once per
lane).

Interaction.  `run_batched_expansion` calls the planner, then a batch callback,
which fills the description, runs an engine and answers; an engine leases a
retained workspace, queues work on a stream, polls or waits for the controller
it shares with the device, hands the lease to the reconstruction when paths
are wanted, and returns a status.  Threads of a grid communicate only through
global memory and barriers: the grid barrier of a persistent kernel, or the end
of a kernel in an in-order stream.  There is one host thread.

### Not modelled

* The engine shootout and the final audit, the benchmark harness: schedules of
  trials, the validation and ranking of recorded samples, and reports about
  recorded runs.  No part of it takes part in routing.
* File formats, arguments, profiles and printed reports.
* Durations: the schedule's time ledger, the stage ledger of the pipeline and
  the digest of the schedule.  Where code refuses a negative or missing time,
  only whether it was taken is modelled.
* The packed vertex mapping of a batch layout and `batch_workspace.cpp`, which
  only tests and benchmarks call.
* The edge-balanced schedules of the standalone dense kernels; the work
  counters of the standalone engines.
* Rounding.  Weights and distances are naturals with exact sums up to
  `Infinity`.  Two margins are one number; `int64` saturation of coordinates
  is left out (a bound past every tile admits the same tiles wherever it lies).
* The mixing of the fingerprint's hash: what is compared is the stream of words
  it is taken of.

## The hard parts of this code

* Threads lower the same label at once, from labels that are being lowered:
  nothing but the compare-and-swap loop protects a distance, and nothing but
  the generation exchange protects a queue from duplicates.
* Several lanes share a queue entry, a round limit and the fate of a run, but
  each converges alone.  A lane is published while the others go on, in a
  workspace that holds what the last batch left, an overflow's debris included.
* Errors, convergence and the round limit can fall in one round; rounds already
  launched run on after `done`.
* The host rebuilds the device's work counters from the rounds at which lanes
  converged, and refuses the run when they differ.
* Any call may throw.  A lease must come back exactly when no queued work can
  touch the workspace, also when it has been handed to the reconstruction.
* Zero-cost cycles make the graph of tight edges cyclic: the walk back from a
  target must back out and resume, in count and write alike, and take the same
  route as the host and the audit.
* A description is reused and only the entries its ledgers name are reset.
* A campaign carries distances and paths over batches, and must drop them at a
  restart; verdicts about a region must not be taken for verdicts about the
  graph; and its account is kept by steps of several passes.

`PROJECT.json` "hazards" names each of these at its line with the properties
that would fail.

## The models and the code

**RoutingProblem, Relaxation.**  An edge is admitted when the tiles of both its
endpoints are selected.  `Potentials` and `IsShortest` say what shortest
distances are without speaking of paths: the greatest assignment that is 0 on
the sources and that no admitted edge can lower.  `BellmanFord` is the CPU
reference, a recursive function over rounds.  In `Relaxation`, the abstract
engine, distances fall to values that some admitted edge accounts for, possibly
by a stale reading; convergence may be reported when no admitted edge can lower
a distance; an engine may stop without an answer at any time.

**FrontierPush.**  One action is one atomic operation of one thread with the
thread-local work around it:

| Action | Code |
|---|---|
| `InitializeVertices`, `FinishInitialize` | `initialize_frontier_state`, then the barrier |
| `EnterRound`, `FetchSource`, `FinishShare`, `FinishRow` | the loops of `perform_frontier_round` |
| `LoadSource` | the relaxed load of the source, once per edge |
| `LoadDestination`, `CompareAndSwap` | `atomic_min_nonnegative_float_bits` |
| `MarkGeneration` | `atomic_exchange_generation` |
| `ClaimPosition`, `PublishLane`, `StoreEntry` | `atomic_reserve_queue_position`, the lane mask, the store or the overflow bit |
| `AdvanceController` | the barrier, then `advance_frontier_controller` |
| `HostPoll`, `Finalize` | `run_impl`'s poll; `completed_frontier_status` |

**DenseChaoticPush, JacobiPull** over **SweepEngine**: a thread strides over
the vertices; the dense engine relaxes in place, Jacobi pulls the minimum over
the incoming edges from the read slot into the write slot, which nobody else
touches, so one vertex is one action.  A block's flags meet in its first thread.

**BatchedFrontierPush, BatchedSweep.**  `BatchProblem` is the list of batches;
each lane has its tiles, sources and targets, and `LaneRounds` and
`LaneReference` are the reference of its query, the definitions of
`RoutingProblem` with the batch and the lane as parameters.  `GridStep` seeds, enters and
ends a round, polls, finalises and reads back; a batch's end leaves its words
to the next.  In `BatchedFrontierPush` a thread relaxes the lanes of an entry
one atomic at a time and merges the improved lanes into the vertex's mask; two
adjacent operations are one action only when the second commutes with all other
threads.  In `BatchedSweep` a wave serves all lanes of a vertex; `Written`,
`InitialRunMasks` and `ConvergenceRounds` are the three places where early
convergence meets slots, masks and counters.  Instrumentation is always on
(light and debug together); `changed_round_publications` and its like, which no
test of the host reads, are left out.

**RetainedWorkspace.**  `streams` holds the work queued, `Step` executes one
operation, and the host's actions are the calls of a run in order, each of
which may fail instead (`FenceFails`, `Refuse`, `CatchRetires`,
`CatchRecovers`, ...).  Data are the number of the run they belong to, so a
buffer refilled too early shows as a foreign number in `results`.  `LoseDevice`
discards what is queued and makes later calls fail: the assumption is that a
failed synchronisation means a lost device.  The contract is
`docs/DESIGN.md:351-361`.  The destination of a download stays live until its
run ends.  Some in the code are locals of the `try` block
(`hip/frontier_push.hip.cpp:1078`, `hip/compact_path_results.hip.cpp:719`) and
are gone when the handler runs; the assumption is that HIP performs a copy to
such unpinned memory synchronously.  Not in the model: the stale-lease checks by
generation and the polls of the engine timers.

**CompactPaths.**  One action is one turn of a loop: the device's count and
write (`CountTarget`, `Descend`, `Backtrack`, `Summarize`, `PlanRanges`,
`EmitTarget`, `Emit`), the host's search, Dijkstra (`Settle`) and the sample.
Labels outside a lane's region are any of `StaleLabels`.

**SpatialGraph, WeightedGraph, TileLayout, TileDirectory, DeviceLayout.**  Pure
functions.  `MCHostExpansion` gives the graph of the run array by array and
`WebIsBuilt` has TLC build it from the input, in two orders of its records;
`DirectoryIsFaithful` and `DeviceImageIsFaithful` check that the built directory
and image agree with the graph and that their validators refuse every image
that differs in one place.  The agreement of the two adjacency arrays holds by
the identities they share.

**BatchPlanner, BatchLayout.**  The greedy plan with the code's comparison of
fractions by continued quotients, and the description with its three forms of
run masks.  Features are indexed by the query's identity.

**HostEngines, PortableEngines.**  A run is a function of its round, an edge at
a time; `HostEngines` is the batched form, which reads the description, and
`PortableEngines` the one for a single query, which `LanesRunAlone` compares it
with (given room and rounds enough).  **DeviceEngines** is what the HIP engines
do on the host around the kernels: tests of the description and of what comes
back, and the work they reconstruct.  Where the executor runs, the portable
round stands for the kernel; the device modules say why it may.

**BatchAnswer, HostExpansion.**  The answer of the portable callback and of the
executor in its four transfer modes, the loop's tests of an answer
(`ResultThrows`), the lane loop (`LaneOutcome`), the metrics and the trace.  A
thrown exception is `stage = "aborted"`.

**BatchedExpansion** is the promise of the loop.  `PlanPass` takes any partition
of the active queries into batches; `ExecuteBatch` runs one with any outcome and
any payload; a lane is reached exactly when all targets are reachable within
its tiles.  `HostExpansion` implements it (`ImplementsExpansion`).

**NoCongestionPipeline** goes on where the campaign is done: a result for every
query from its paths, from its distances, or a failure; the account of the
transfer; a sample of any `QualitySampleCount` queries against the whole graph
(the code's seed picks one; ratios are differences here).  The oracle stands as
shortest distances: `CompactPaths` has its loop.  The host's extraction and the
tool's `make_compact_results` are one model.  A campaign of the executor that
asked for no paths ends as `without_paths`.

## Runs

Every instance is in an `MC` module, its values in the `.cfg`.

| Run | Question | Bounds, and why they are enough |
|---|---|---|
| `frontier_race` | Is a lowering ever lost or a label too low, and is what ended the run reported? | 3 threads, 8 vertices, a queue of 3 that overflows only in some interleavings; a sum past the largest distance; a shortcut outside the region; a limit of 2 that meets an overflow or vertices left, a limit of 4 that meets convergence, chunks that go on after both; every target set classified |
| `frontier_requeue` | Does a run end when vertices come back? | 2 threads, two vertices queued twice; limits of 2, 5 and 6 rounds (too few, just enough, one to spare), all control modes, fair |
| `dense_contest` | Is a fixed point of chaotic sweeps shortest, and told truly? | 2 blocks of 2 threads, a zero-weight cycle, a late improvement that travels, so that a lost changed flag stops the run too early; a limit of 2 in chunks of 3; every target set classified, one vertex unreachable |
| `jacobi_web` | Is a round exactly a synchronous round, and does a run end? | 2 blocks of 2 threads, a round in which only one vertex changes, limits below and above the need, fair |
| `batched_frontier` | Do lanes, masks and shared queues keep each lane right? | 2 lanes that share and contend, a queue of 3 that overflows in some orders, a second batch in the same words with a padded lane |
| `batched_sweep` | Do lanes follow their own Bellman-Ford, and do the counters agree? | both engines, per-lane convergence on and off, a lane done two rounds early, two batches |
| `workspace` | Do queued work, leases and results survive failures? | 2 streams, 3 runs of sizes 1, 2, 1 (grow, then reuse), both classes of workspace, any call failing |
| `compact_paths` | Do device, host, oracle and validator agree? | 11 batches over one graph with a zero-cost cycle, a parallel route, and stale words that look tight |
| `host_batches` | Does a whole campaign do what the parts promise? | 15 campaigns (8 portable, 7 executor): every engine and run representation, all four transfer modes and three control modes, 4 queries in batches of up to 3, at least three passes, queue overflow and round limits |
| `expansion` | Are verdicts true whatever the batches and payloads? | 4 queries (cut off by 4 tiles, spill tile alone, across an island, unreachable), all schedules and policies, any batching up to 3, counters ending at 5 and margins at 9 |
| `expansion_paths`, `expansion_hybrid` | (findings) | |

Some runs ask of several campaigns at once (the initial states choose the
options), which keeps their number small.  Deadlock is checked everywhere but in
`workspace`: there the program may stop, idle, with a lost device or all runs
done.  Fault variants (`Fault...`) sit beside the definitions they break; no
specification uses them.

Fairness.  A cooperative launch makes the grid co-resident and an ordinary
kernel runs its threads to the end, so each thread is weakly fair; the barrier,
the controller and the polling host are weakly fair together (`GridStep`).  The
host loops (`BatchedExpansion`, `CompactPaths`) are one thread that never waits
for another, hence `WF(Next)`.  In `RetainedWorkspace` a run that has begun goes
on (`WF(Host)`) and each stream works off its queue; the beginning of a run, the
destruction and the loss of the device are not fair.  No strong fairness is
used.  The compare-and-swap loop needs none: a failed swap means that the label
fell, and labels fall finitely often.

## Properties

* *One query.*  `NoDecreaseLost`, `FrontierWellFormed`, `NeverBelowShortest`,
  `RoundsDominateBellmanFord` (chaotic sweeps are never behind the synchronous
  reference), `RoundIsBellmanFord`, `ImplementsRelaxation` and
  `StatusTellsTheTruth`: the distances are shortest when convergence is
  reported, and the status classifies a query by the reference's distances,
  whatever its targets, only after convergence; of the frontier also that
  overflow, limit and convergence are reported when they are what happened
  (`StopReasonFits`).  Neither kernel reads the targets before the end, so one
  run stands for all `TargetSets`.
* *Lanes.*  `PublishedLaneIsShortest`, `ConvergedLaneIsShortest` (in both slots,
  and for the rest of the batch), `LanesFollowBellmanFord`, `MasksMatchQueue`,
  `EveryLaneRelaxes` (each lane implements `Relaxation`) and `HostGetsTheTruth`
  (what the host accepts is what happened, and it accepts what is right).
* *Workspace.*  `QueuedWorkIsSafe`, `ResultsAreOwn`, `BatchedLeaseReturns`.
* *Paths.*  `AnswersAreShortest`, `SearchesAgree`, `ExpandedIsFinal`,
  `ValidatorIsExact` (it accepts exactly the tight routes within the region).
* *Campaign.*  `PlanIsGreedy`, `ReuseIsInvisible`, `LanesRunAlone`,
  `LedgerBalances` (attempts are restarts and retirements; the edges given up
  and the final ones are the edges attempted; a scan's work is that of the
  rounds its lanes took part in and the one reconstructed; what enters a
  frontier leaves it), `PublishedIsTrue`, `ImplementsExpansion`; and of the
  promise `VerdictsAreTrue`, `EvidenceIsCurrent`, `BatchingIsInvisible`,
  `NeverAborts`.
* *Progress.*  `Terminates`, `RunsReturn`, `EveryResultIsPublished`,
  `EveryQueryRetires`.

## What is proved

Each proof is in the module named after what it is about, and holds for every
value of the constants that the `...Assumption`s allow: any graph with
non-negative weights, any tiles, sources and targets; any grid, queue and options;
any streams and runs; any campaign.  TLC evaluates the assumptions in every run
of the module that declares them.  `IInv` names the inductive invariant of a
module; it is proved from `Init` and one lemma per action.

**RoutingProblemProofs: what the engines are compared with.**

* `BellmanFordRounds`: the recursive function of the rounds is one.
* `ShortestExists`: the greatest potential exists.  The value at a vertex is the
  greatest any potential has there; that these values together are a potential
  follows because saturating addition is monotone.
* `SelectedRoundsSuffice`, `ReferenceIsShortest`, `ShortestIsReference`: the
  reference computes the shortest distances, and has settled one round before
  the number of selected vertices.  There are no paths in the argument.
  Take the vertices in the order of their shortest distances, of which some are
  settled.  If no tight edge led from these to one of the nearest others
  (`TightEdge`), all of the nearest could be lifted, and there would be a
  greater potential; so every round settles one more.  Induction is on sets of
  numbers, which the provers can handle.

**FrontierPushProofs: the frontier engine.**

* `TypeCorrect`: `TypeInv` adds to `TypeOK` that a thread's edge is admitted and
  leaves its source, that only admitted edges are marked, and that a
  launched chunk has rounds left.
* `NeverBelow`: `LowerBoundInv` adds that a candidate a thread carries is no
  lower than any potential of its destination, however long ago it was
  computed.  It covers overflow and error paths, where queues hold garbage.
* `FrontierStaysWellFormed`, `NoDecreaseIsLost`: `QueueInv` describes both
  queues in the middle of a round.  A vertex marked with the round's generation
  is held by exactly one thread on its way into the queue, or is stored at
  exactly one position, or the queue has overflowed (`MarkInv`, `HolderInv`,
  `EntryInv`); the claimed positions are the held and the stored ones
  (`SizeInv`); a thread has dealt with what is behind it in its share
  (`ShareInv`).  `ProgressInv` is the heart: every admitted edge is relaxed, or
  its source was lowered in this round, or is still ahead in the queue
  read, or a thread has it in hand with the distance the source has now.
* `StopsForItsReason`: the length of the next queue counts the vertices marked
  in the round, less the threads that have marked one and not yet claimed its
  position (`LengthCounts`).  The controller decides by the length; so
  an overflow is reported only if more vertices were lowered than fit, and
  convergence only if none was.
* `StatusIsTrue`: at convergence the distances are a potential by `ProgressInv`
  and above every potential by `LowerBoundInv`, hence shortest; with
  `StopsForItsReason` and `ReferenceIsShortest` the rest follows, for any
  targets.
* `EngineIsRelaxation`: every step is a step of `Relaxation` or a stutter.

**SweepEngineProofs, JacobiPullProofs, DenseChaoticPushProofs: the sweeps.**  The
first holds what both share: the controller (`SoundController`), where the
threads of a grid may be in each stage (`GridInv`), and the end of a run.

* `RoundsAreBellmanFord`: the read slot of the pull engine holds
  `BellmanFord[Round]`, and a vertex of the write slot what it held before or
  `BellmanFord[Round + 1]`, according to whether its owner has passed it.
* `RoundsAreDominated`: the distances of the dense engine lie between every
  potential and `BellmanFord[Round]`.  In flight, a candidate is at most what
  its source offered when the round began and at least what the source allows
  now; an edge whose turn is over has delivered that offer, and is relaxed as
  long as nobody has lowered anything.
* `StatusIsTrue` and `ControllerIsSound`, for both: when the vertices of the
  region have had a round each nothing is lowered any more
  (`SelectedRoundsSuffice`, and for the dense engine the squeeze between the
  two bounds), so a run needs at most one round per selected vertex and a limit of
  that many never stops it.  At convergence the distances are shortest, and
  classify any targets.
* `EngineIsRelaxation`, for the dense engine.
* `RelaxationNeverBelow`, `RelaxationConvergedCorrect`: what that is worth,
  for every behaviour of `Relaxation` (variables of its own, instance `Any`).  A
  step writes only values an admitted edge accounts for, and every potential
  satisfies every admitted edge, so none is ever above the distances; at
  convergence the distances are themselves a potential.

**BatchedSweepProofs: the batched full-scan engines,** Jacobi and dense, for
any list of batches in one workspace.

* The lanes.  `LaneIsQuery` collects what is needed of `LaneRounds` and
  `LaneReference`.  The provers cannot cite a theorem of an instance with
  parameters, so `RoutingProblemProofs` is instantiated once, for one lane `Pick`
  that is chosen to violate `LaneIsQuery` if any lane does; the theorems show
  that this one does not (`LanesAreQueries`).  The instance's assumptions are
  discharged from `BatchAssumption`: the lane's sources are a block of the
  batch's, sorted.
* The shares.  A wave takes the selected vertices whose `Rank` is its own number
  modulo the waves; every selected vertex is taken exactly once a round
  (`SelectedVertexOfRank`), so at the barrier all have `Passed` and, under
  dense, all edges have been `Tried` (`BarrierFacts`).
* `IInv`: `PullInv` and `DenseInv` say of each lane what the engine proofs
  above say of one query, with one difference: a lane that is no longer executed
  stops there, while `Round` and the slots go on.  It was quiet for a round
  (`Quiet`: no wave has seen it change), hence settled (`SettledInv`), and what
  it has in both slots is also what the rounds it sits out would have given
  it (`SettledRound`).  `MaskInv` says that the run masks are this
  batch's where the engine reads them; stale words are confined to vertices
  the lane does not select.
* `ConvergedLanesAreShortest`, `LanesRunAsOnTheirOwn`: the two invariants of
  the run, from these.
* `ReturnedResultsAreTrue`, `DownloadedRecordsAgree`: `HostGetsTheTruth` but for
  the counts.  `SweepControllerIsSound`: every valid lane is active or converged
  with its round on record, until the engine stops with none active or at the
  limit.

**RetainedWorkspaceProofs: the workspace.**  `TypeCorrect`,
`QueuedWorkStaysSafe`, `ResultsStayOwn`, `LeaseAlwaysReturns`.  `SafetyInv` says
whose work is queued on which stream in which phase of a run, and that nothing
is queued on the workspace unless the host believes that there may be
(`device_work_may_be_in_flight`); the fence before every return empties the
stream, and a failed fence retires the workspace.  `DataInv`: what a run asked
for is there, or still waits in its own stream, unless the device is lost.

**BatchedExpansionProofs: the expansion loop.**  `TypeCorrect`, `VerdictsHold`,
`EvidenceStaysCurrent`, `LoopNeverAborts`: `IInv` is a predicate of each query
(its attempts, margin, tiles and evidence belong together), of the pass and of
the plan (disjoint batches of active queries, all at the same attempt).
`BatchesLeaveNoTrace`: what a query has become is what it would be after as
many attempts alone (`AloneInv`), shown attempt by attempt: two states
of a query that differ in their evidence only (`Alike`) go on alike.

### Only model-checked

* Liveness (`Terminates`, `EveryQueryRetires`, `RunsReturn`,
  `EveryResultIsPublished`): outside the reach of TLAPS.  The round bound above
  is the safety part of termination.
* The work counts in `HostGetsTheTruth` (`DownloadIsConsistent` beyond
  `RecordsAgree`): sums over the runs of a graph, and what a fold returns for
  every input is an induction over data.
* `BatchedFrontierPush` and `CompactPaths`.  `LaneIsQuery` is what the former
  needs of a lane; its queue invariant, per lane and with deferred masks, is not
  worked out.
* `HostExpansion`, its parts and `NoCongestionPipeline`: their work
  counts and ledgers are folds as well.
* `StatusTruthful` of `JacobiPull` and `ControllerSound` are the other way
  round: proved, and not the subject of a run.

## Findings

* `expansion_paths`.  The comment on `ExpansionQueryOutcome::compact_paths`
  (`include/bfnew/batched_expansion.hpp:207-209`) says they are present only
  for a reached generation or a terminal full-region miss.  A miss in a region
  that is not full and whose payload names a reconstruction failure becomes
  `engine_failure` and keeps the payload; `tests/compact_paths_test.cpp:658`
  relies on it.  The comment is behind the code.
* `expansion_hybrid`.  `docs/DESIGN.md:1615` gives the margins of the hybrid
  schedule as `1, 2, ... S, 2S, 4S`.  For a query that selects the spill tile
  alone the first expansion finds its box and resets the margin, but counts as a
  small step: with S = 3 it visits 0, 1, 2, 4.

Observed while modelling, and not claimed as findings:

* A standalone run stops its preparation timer outside the `try` that recovers
  the lease (`hip/frontier_push.hip.cpp:995`, dense `:980`, Jacobi `:931`).  If
  that record fails the lease stays out and later runs are refused;
  `BatchedLeaseReturns` is therefore about the batched class.
* An executor bound to the frontier engine with instrumentation `none` and
  `status_and_work_evidence` leaves its work unmeasured but not zero
  (`hip/batched_frontier_push.hip.cpp:2110-2124`), which the loop refuses
  (`batched_expansion.cpp:1025-1031`).  The command line forbids the
  combination (`gpu_batched_expansion.hip.cpp:386-391`), and `ValidBinding`
  leaves it out.

## Plan

1. The batched frontier engine: `MasksMatchQueue` needs no shortest distances and
   can be proved along `QueueInv`; `PublishedLaneIsShortest` also needs
   `LaneIsQuery`.
2. A bound on the rounds of `FrontierPush`, as for the sweeps: a round is never
   behind the synchronous one.
3. Lemmas on tight paths for `CompactPaths`.
4. The schedule's ledger, and the edge-balanced dense kernels.
