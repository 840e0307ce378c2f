--------------------------- MODULE BatchedExpansion ---------------------------
(***************************************************************************)
(* run_batched_expansion (src/src/batched_expansion.cpp): the host loop    *)
(* that routes all queries.  A pass plans the active queries into batches, *)
(* runs each batch on an engine, and retires the queries that are reached  *)
(* or failed for good.  A query whose bounding box cuts off a target gets  *)
(* a larger box and a new generation, and is planned anew in the next      *)
(* pass, until it is reached, covers the whole graph or is given up.       *)
(*                                                                         *)
(* An engine is what its own module shows it to be: a clean run reports,   *)
(* for every lane, whether all targets of the lane's query are reachable   *)
(* within the lane's tiles.  Telemetry, timing and byte accounting are     *)
(* left out, and so are the malformed results the callback boundary        *)
(* rejects.                                                                *)
(***************************************************************************)
EXTENDS TileRegions

CONSTANTS
  QueryIds,
  QuerySources, QueryTargets,   \* the terminals of each query
  Padding,                      \* tile padding of the initial boxes
  InitialGenerations,           \* generation each query comes in with
  LaneWidth,                    \* lanes of a batch
  CountLimit,                   \* UINT32_MAX
  MarginLimit,                  \* UINT64_MAX
  Campaigns,                    \* the options a campaign may be run with
  Failures,                     \* stop reasons of a run that is not clean
  Payloads                      \* target statuses a lane's payload may hold

PathStatuses == {"complete", "unreachable", "query_terminal_failure",
                 "no_tight_path", "path_length_overflow"}

ScheduleKinds == {"one_geometric_ring", "fixed_larger_ring",
                  "doubling_xy_margins", "hybrid_small_then_doubling"}

\* validate_batched_expansion_options, and what a query is.
ASSUME CampaignAssumption ==
  /\ QueryIds \in SUBSET Nat
  /\ IsFiniteSet(QueryIds)
  /\ \A sets \in {QuerySources, QueryTargets} :
       /\ sets \in [QueryIds -> SUBSET Vertices]
       /\ \A q \in QueryIds : sets[q] # {}
  /\ LaneWidth \in Nat \ {0}
  /\ CountLimit \in Nat \ {0}
  /\ MarginLimit \in Nat \ {0}
  /\ Padding \in Nat
  /\ InitialGenerations \in [QueryIds -> 0 .. CountLimit]
  /\ Payloads \in SUBSET ((SUBSET PathStatuses) \ {{}})
  /\ \A c \in Campaigns :
       /\ c.kind \in ScheduleKinds
       /\ c.fixed_ring_size \in Nat
       /\ c.kind = "fixed_larger_ring" <=> c.fixed_ring_size >= 2
       /\ c.hybrid_small_expansion_count \in Nat
       /\ c.kind = "hybrid_small_then_doubling"
            <=> c.hybrid_small_expansion_count # 0
       /\ c.maximum_expansions \in 0 .. CountLimit
       /\ c.terminal_policy \in {"full_region_fallback", "explicit_failure"}
       /\ c.enable_compact_paths \in BOOLEAN
       /\ c.returns_distances \in BOOLEAN      \* of the runner

VARIABLES
  options,          \* BatchedExpansionOptions of this campaign
  states,           \* the QueryState of every query
  active,           \* queries of the pass, or of the next one
  plan,             \* batches of the pass not yet run
  failed,           \* queries of the pass that missed a target
  planning_pass,
  stage             \* part of the loop; "aborted" once an exception is thrown

vars == <<options, states, active, plan, failed, planning_pass, stage>>

-----------------------------------------------------------------------------
(***************************************************************************)
(* QueryState.  The x and y margins move alike and are one number.         *)
(* Distances and compact paths are known by the generation and the tiles   *)
(* they were computed for.                                                 *)
(***************************************************************************)
Dispositions == {"none", "reached", "unreachable_in_full_region",
                 "expansion_limit", "region_stalled",
                 "identity_or_count_overflow", "engine_failure"}

Nothing == [present |-> FALSE]

InitialTiles(q) == SelectTiles(QuerySources[q] \union QueryTargets[q], Padding)

InitialState(q) ==
  [selected_tiles       |-> InitialTiles(q),
   expansion_generation |-> InitialGenerations[q],
   anchor               |-> LocatedBounds(InitialTiles(q)),
   intended_margin      |-> 0,
   attempts             |-> 0,
   scheduled_expansions |-> 0,
   total_expansions     |-> 0,
   fallback_used        |-> FALSE,
   terminal             |-> FALSE,
   disposition          |-> "none",
   stop_reason          |-> "none",
   distances            |-> Nothing,
   compact_paths        |-> Nothing]

SetTerminal(state, disposition, reason) ==
  [state EXCEPT !.terminal    = TRUE,
                !.disposition = disposition,
                !.stop_reason = reason]

Init ==
  /\ options \in Campaigns
  /\ states = [q \in QueryIds |-> InitialState(q)]
  /\ active = QueryIds
  /\ plan = {}
  /\ failed = {}
  /\ planning_pass = 0
  /\ stage = IF QueryIds = {} THEN "done" ELSE "plan"

-----------------------------------------------------------------------------
(***************************************************************************)
(* advance_failed_query: what becomes of a query that missed a target.     *)
(***************************************************************************)
\* The margin advance_margin_cursor moves to; past MarginLimit it refuses.
NextMargin(state) ==
  LET m == state.intended_margin
      doubled == IF m = 0 THEN 1 ELSE 2 * m
  IN CASE options.kind = "one_geometric_ring"  -> m + 1
       [] options.kind = "fixed_larger_ring"   -> m + options.fixed_ring_size
       [] options.kind = "doubling_xy_margins" -> doubled
       [] options.kind = "hybrid_small_then_doubling" ->
            IF state.scheduled_expansions < options.hybrid_small_expansion_count
              THEN m + 1 ELSE doubled

\* The tiles expanded_tiles returns.  A query that selects the spill tile
\* alone has no box yet, and takes its located neighbours.
ExpandedTiles(state) ==
  IF state.anchor.present
    THEN AdmitSpill(state.selected_tiles
                      \union BoxTiles(state.anchor, state.intended_margin))
  ELSE state.selected_tiles
         \union (NeighborTiles(SpillTile) \intersect LocatedTiles)

\* What expanded_tiles writes to the state: the first box of such a query.
SettleAnchor(state) ==
  IF state.anchor.present THEN state
  ELSE [state EXCEPT !.anchor          = LocatedBounds(ExpandedTiles(state)),
                     !.intended_margin = 0]

\* Fault variants, here and below, break one definition the way a slip in the
\* code would; the specification uses none of them.
\* Fault: the generation wraps.
FaultUncheckedRestart(state) == state.total_expansions # CountLimit

\* install_restart
MayRestart(state) ==
  state.expansion_generation # CountLimit /\ state.total_expansions # CountLimit

\* Fault: the evidence of the attempt that failed is kept.
FaultKeepEvidence(state, tiles) ==
  [state EXCEPT !.expansion_generation = @ + 1,
                !.total_expansions     = @ + 1,
                !.selected_tiles       = tiles]

Restart(state, tiles) ==
  [state EXCEPT !.expansion_generation = @ + 1,
                !.total_expansions     = @ + 1,
                !.selected_tiles       = tiles,
                !.distances            = Nothing,
                !.compact_paths        = Nothing]

Overflow(state) == SetTerminal(state, "identity_or_count_overflow", "converged")

\* A scheduled expansion: of the state whose margin has moved.
ExpandOnSchedule(moved) ==
  LET settled == SettleAnchor(moved)
  IN IF moved.scheduled_expansions # CountLimit /\ MayRestart(moved)
       THEN [Restart(settled, ExpandedTiles(moved))
               EXCEPT !.scheduled_expansions = @ + 1]
       ELSE Overflow(settled)

FallBackToFullRegion(state) ==
  IF MayRestart(state)
    THEN [Restart(state, Tiles) EXCEPT !.fallback_used = TRUE]
    ELSE Overflow(state)

\* Fault: a query is given up as unreachable when its box stops growing.
FaultStallIsUnreachable(state) ==
  LET moved  == [state EXCEPT !.intended_margin = NextMargin(state)]
      stalls == ExpandedTiles(moved) = moved.selected_tiles
      giveUp == options.terminal_policy = "explicit_failure"
  IN IF state.fallback_used \/ state.selected_tiles = Tiles \/ stalls
       THEN SetTerminal(state, "unreachable_in_full_region", "converged")
     ELSE IF state.scheduled_expansions < options.maximum_expansions
       THEN IF NextMargin(state) > MarginLimit THEN Overflow(state)
            ELSE ExpandOnSchedule(moved)
     ELSE IF giveUp THEN SetTerminal(state, "expansion_limit", "converged")
     ELSE FallBackToFullRegion(state)

\* The stop reason of the synthetic clean miss the caller passes is
\* "converged".
AdvanceFailedQuery(state) ==
  LET moved  == [state EXCEPT !.intended_margin = NextMargin(state)]
      stalls == ExpandedTiles(moved) = moved.selected_tiles
      giveUp == options.terminal_policy = "explicit_failure"
  IN IF state.fallback_used \/ state.selected_tiles = Tiles
       THEN SetTerminal(state, "unreachable_in_full_region", "converged")
     ELSE IF state.scheduled_expansions < options.maximum_expansions
       THEN IF NextMargin(state) > MarginLimit THEN Overflow(state)
            ELSE IF ~stalls THEN ExpandOnSchedule(moved)
            ELSE IF giveUp
              THEN SetTerminal(SettleAnchor(moved), "region_stalled", "converged")
            ELSE FallBackToFullRegion(SettleAnchor(moved))
     ELSE IF giveUp THEN SetTerminal(state, "expansion_limit", "converged")
     ELSE FallBackToFullRegion(state)

-----------------------------------------------------------------------------
(***************************************************************************)
(* One pass.  A batch maps its queries to the lane they get: the           *)
(* generation and the tiles of the query when the pass was planned.        *)
(***************************************************************************)
Lane(q) == [generation |-> states[q].expansion_generation,
            tiles      |-> states[q].selected_tiles]

\* The planner is any that passes validate_batch_plan: every active query has
\* one lane of one batch.
Groupings ==
  {groups \in SUBSET (SUBSET active \ {{}}) :
     /\ UNION groups = active
     /\ \A g, h \in groups : g # h => g \intersect h = {}
     /\ \A g \in groups : Cardinality(g) <= LaneWidth}

PlanPass ==
  /\ stage = "plan"
  /\ IF \E q \in active : states[q].terminal
       THEN stage' = "aborted" /\ UNCHANGED <<plan, failed>>
       ELSE /\ \E groups \in Groupings :
                 plan' = {[q \in g |-> Lane(q)] : g \in groups}
            /\ failed' = {}
            /\ stage' = "execute"
  /\ UNCHANGED <<options, states, active, planning_pass>>

\* Fault: every lane searches the union of the tiles of its batch.
FaultUnionTiles(q, batch) ==
  QueryTargets[q] \subseteq
    ReachableWithin(QuerySources[q], UNION {batch[r].tiles : r \in DOMAIN batch})

\* The lane's bit of reached_target_mask after a clean run.
ReachedTargets(q, batch) ==
  QueryTargets[q] \subseteq ReachableWithin(QuerySources[q], batch[q].tiles)

CleanConvergence(stop) == stop = "converged"

\* A lane gives the query's state its attempt and the distances of the lane.
Attempted(state, lane) ==
  [state EXCEPT
     !.attempts      = @ + 1,
     !.distances     = IF options.returns_distances
                         THEN [present |-> TRUE, generation |-> lane.generation,
                               tiles |-> lane.tiles]
                         ELSE Nothing,
     !.compact_paths = Nothing]

WithPayload(state, lane, statuses) ==
  IF options.enable_compact_paths
    THEN [state EXCEPT !.compact_paths =
            [present |-> TRUE, generation |-> lane.generation,
             statuses |-> statuses]]
    ELSE state

EngineFailure(state, stop) ==
  SetTerminal([state EXCEPT !.distances = Nothing], "engine_failure", stop)

WithoutPayload(state) == [state EXCEPT !.compact_paths = Nothing]

\* A reached lane retires its query, unless its paths are not complete; they
\* are kept when they name a reconstruction failure.
RetireReached(state, statuses) ==
  LET compact == options.enable_compact_paths
      taken   == IF compact THEN [state EXCEPT !.distances = Nothing] ELSE state
  IN IF ~compact \/ statuses = {"complete"}
       THEN SetTerminal(taken, "reached", "converged")
     ELSE IF statuses \subseteq {"complete", "unreachable"}
       THEN EngineFailure(WithoutPayload(taken), "converged")
     ELSE EngineFailure(taken, "converged")

\* Fault: the payload of a miss is believed.
FaultBelieveMiss(state, statuses) == state

\* A missed lane stays in the campaign, unless its paths contradict the miss.
KeepMissed(state, statuses) ==
  LET classified == statuses \subseteq {"complete", "unreachable"}
      consistent == classified /\ "unreachable" \in statuses
  IN IF options.enable_compact_paths => consistent THEN state
     ELSE IF classified THEN EngineFailure(WithoutPayload(state), "converged")
     ELSE EngineFailure(state, "converged")

AttemptsExhausted(state) == state.attempts = CountLimit

\* The state of query q after its lane of the batch has been looked at.
LaneOutcome(q, batch, stop, statuses) ==
  LET state     == states[q]
      attempted == Attempted(state, batch[q])
      captured  == WithPayload(attempted, batch[q], statuses)
  IN IF AttemptsExhausted(state)
       THEN SetTerminal([state EXCEPT !.distances = Nothing,
                                      !.compact_paths = Nothing],
                        "identity_or_count_overflow", stop)
     ELSE IF ~CleanConvergence(stop) THEN EngineFailure(attempted, stop)
     ELSE IF ReachedTargets(q, batch) THEN RetireReached(captured, statuses)
     ELSE KeepMissed(captured, statuses)

\* The check at the top of the lane loop.
LaneMatches(q, batch) ==
  ~states[q].terminal /\ states[q].expansion_generation = batch[q].generation

\* One batch is run, with any payload for each of its lanes.
ExecuteBatch ==
  /\ stage = "execute"
  /\ \E batch \in plan, stop \in {"converged"} \union Failures :
       LET lanes == DOMAIN batch
       IN \E statuses \in [lanes -> IF options.enable_compact_paths
                                      THEN Payloads ELSE {{}}] :
            IF \A q \in lanes : LaneMatches(q, batch)
              THEN /\ states' = [q \in QueryIds |->
                                   IF q \in lanes
                                     THEN LaneOutcome(q, batch, stop, statuses[q])
                                     ELSE states[q]]
                   /\ failed' = failed \union
                                  {q \in lanes : ~states'[q].terminal}
                   /\ plan' = plan \ {batch}
                   /\ stage' = IF plan' = {} THEN "advance" ELSE "execute"
              ELSE /\ stage' = "aborted"
                   /\ UNCHANGED <<states, failed, plan>>
  /\ UNCHANGED <<options, active, planning_pass>>

\* A failed query after its miss.  Only the terminal miss of the full region
\* keeps its payload, which must then agree with it.
Advanced(q) ==
  LET next    == AdvanceFailedQuery(states[q])
      verdict == next.disposition = "unreachable_in_full_region"
      paths   == next.compact_paths
  IN IF ~next.terminal THEN next
     ELSE IF ~verdict THEN WithoutPayload(next)
     ELSE IF paths.present
               => paths.statuses \subseteq {"complete", "unreachable"}
       THEN next
     ELSE [next EXCEPT !.disposition = "engine_failure"]

PayloadAgrees(state) ==
  state.terminal /\ state.disposition = "unreachable_in_full_region"
    /\ options.enable_compact_paths
      => state.compact_paths.present
           /\ "unreachable" \in state.compact_paths.statuses

\* Fault: the next pass takes the queries that were just given up, too.
FaultKeepAll(next) == failed

StillActive(next) == {q \in failed : ~next[q].terminal}

\* The end of the pass.
AdvanceFailedQueries ==
  /\ stage = "advance"
  /\ states' = [q \in QueryIds |-> IF q \in failed THEN Advanced(q)
                                                   ELSE states[q]]
  /\ active' = StillActive(states')
  /\ LET throws == \/ \E q \in failed : ~PayloadAgrees(states'[q])
                   \/ active' # {} /\ planning_pass = CountLimit
                   \/ active' = {} /\ \E q \in QueryIds : ~states'[q].terminal
     IN /\ planning_pass' = IF active' # {} /\ ~throws
                              THEN planning_pass + 1 ELSE planning_pass
        /\ stage' = IF throws THEN "aborted"
                    ELSE IF active' = {} THEN "done" ELSE "plan"
  /\ UNCHANGED <<options, plan, failed>>

\* The outcomes are returned, or the exception has left the function.
Terminated == stage \in {"done", "aborted"} /\ UNCHANGED vars

Next == PlanPass \/ ExecuteBatch \/ AdvanceFailedQueries \/ Terminated

Spec == Init /\ [][Next]_vars

\* The loop runs on one host thread, and an engine run always ends.
FairSpec == Spec /\ WF_vars(Next)

-----------------------------------------------------------------------------
(***************************************************************************)
(* Properties                                                              *)
(***************************************************************************)
Counts == 0 .. CountLimit

\* Type invariant.  Every counter stays within its machine word: a query that
\* cannot count any further is retired instead of wrapping.
TypeOK ==
  /\ options \in Campaigns
  /\ \A q \in QueryIds :
       LET state == states[q]
       IN /\ state.selected_tiles \subseteq Tiles
          /\ {state.expansion_generation, state.attempts,
              state.scheduled_expansions, state.total_expansions}
               \subseteq Counts
          /\ state.intended_margin \in 0 .. MarginLimit
          /\ {state.fallback_used, state.terminal} \subseteq BOOLEAN
          /\ state.disposition \in Dispositions
          /\ state.terminal <=> state.disposition # "none"
  /\ {active, failed} \subseteq SUBSET QueryIds
  /\ planning_pass \in Counts
  /\ stage \in {"plan", "execute", "advance", "done", "aborted"}

Target(q, tiles) ==
  QueryTargets[q] \subseteq ReachableWithin(QuerySources[q], tiles)

\* A verdict is true of the graph: "reached" within the query's last box,
\* "unreachable" in the whole graph, however the box grew; a query given up
\* under the explicit policy is one whose last box cuts off a target.
VerdictsAreTrue ==
  \A q \in QueryIds :
    LET state == states[q]
    IN /\ state.disposition = "reached" => Target(q, state.selected_tiles)
       /\ state.disposition = "unreachable_in_full_region" =>
            ~Target(q, Tiles)
       /\ state.disposition \in {"expansion_limit", "region_stalled"} =>
            /\ options.terminal_policy = "explicit_failure"
            /\ state.selected_tiles # Tiles
            /\ ~Target(q, state.selected_tiles)

\* Distances and paths never cross a restart: what a query carries was
\* computed for its current generation and tiles.
EvidenceIsCurrent ==
  \A q \in QueryIds :
    LET state == states[q]
    IN /\ state.distances.present =>
            /\ state.distances.generation = state.expansion_generation
            /\ state.distances.tiles = state.selected_tiles
       /\ state.compact_paths.present =>
            state.compact_paths.generation = state.expansion_generation

\* What becomes of a query that no engine failure touches, alone: an attempt,
\* and its state after k attempts, of which no query has more than CountLimit.
AttemptAlone(q, state) ==
  LET attempt == [state EXCEPT !.attempts = @ + 1]
  IN IF state.terminal THEN state
     ELSE IF state.attempts = CountLimit THEN Overflow(state)
     ELSE IF Target(q, state.selected_tiles)
       THEN SetTerminal(attempt, "reached", "converged")
     ELSE AdvanceFailedQuery(attempt)

AfterAttempts(q) ==
  LET after[k \in 0 .. CountLimit + 1] ==
        IF k = 0 THEN InitialState(q) ELSE AttemptAlone(q, after[k - 1])
  IN after

Alone(q) == AfterAttempts(q)[CountLimit + 1]

\* What an outcome says of the query, its evidence and stop reason aside.
Fate(state) == [state EXCEPT !.distances     = Nothing,
                             !.compact_paths = Nothing,
                             !.stop_reason   = "none"]

\* Batching is invisible: companions in a batch, the order of the batches and
\* the failures of other queries leave no trace in a query's fate.  (A query
\* that runs out of attempts reports the stop reason of its last batch.)
BatchingIsInvisible ==
  stage = "done" =>
    \A q \in QueryIds :
      states[q].disposition # "engine_failure" => Fate(states[q]) = Fate(Alone(q))

\* The campaign never trips over its own ledger: no exception of the loop is
\* reachable while the runner keeps its contract.
NeverAborts == stage # "aborted"

\* Every query gets an outcome.
EveryQueryRetires == <>(\A q \in QueryIds : states[q].terminal)

(***************************************************************************)
(* What comments and documents say of the campaign and its code does not   *)
(* do.                                                                     *)
(***************************************************************************)
\* ExpansionQueryOutcome: compact paths are "present only for a reached
\* terminal generation or a terminal full-region miss".
PathsOnlyForVerdicts ==
  \A q \in QueryIds :
    states[q].terminal /\ states[q].compact_paths.present =>
      \/ Target(q, states[q].selected_tiles)
      \/ states[q].selected_tiles = Tiles

\* DESIGN.md: the intended margins of the hybrid schedule are 1, 2, ... S, 2S,
\* 4S; also when the first expansion only found the box.
HybridDoublesAfterSmallSteps ==
  \A q \in QueryIds :
    LET state == states[q]
        small == options.hybrid_small_expansion_count
    IN options.kind = "hybrid_small_then_doubling" =>
         \/ state.intended_margin <= small
         \/ \E k \in 1 .. CountLimit : state.intended_margin = small * 2 ^ k
=============================================================================
