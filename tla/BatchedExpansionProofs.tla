----------------------- MODULE BatchedExpansionProofs -----------------------
(***************************************************************************)
(* Safety of the campaign of run_batched_expansion, for any graph, tiling, *)
(* queries and options: every verdict is true of the graph, evidence never *)
(* outlives the attempt that gave it, no counter wraps, none of the        *)
(* exceptions of the loop is reachable, and what becomes of a query is     *)
(* what would become of it alone.                                          *)
(***************************************************************************)
EXTENDS BatchedExpansion, WellFoundedInduction, TLAPS

-----------------------------------------------------------------------------
(***************************************************************************)
(* The state of one query                                                  *)
(***************************************************************************)
Anchors     == {LocatedBounds(tiles) : tiles \in SUBSET Tiles}
StopReasons == {"none", "converged"} \union Failures
Distances   == [present : {TRUE}, generation : Counts, tiles : SUBSET Tiles]
Paths       == [present : {TRUE}, generation : Counts, statuses : SUBSET PathStatuses]

QueryStates ==
  [selected_tiles       : SUBSET Tiles,
   expansion_generation : Counts,
   anchor               : Anchors,
   intended_margin      : 0 .. MarginLimit,
   attempts             : Counts,
   scheduled_expansions : Counts,
   total_expansions     : Counts,
   fallback_used        : BOOLEAN,
   terminal             : BOOLEAN,
   disposition          : Dispositions,
   stop_reason          : StopReasons,
   distances            : {Nothing} \union Distances,
   compact_paths        : {Nothing} \union Paths]

\* The disposition is true of a query with these tiles.
TrueDisposition(q, tiles, disposition) ==
  /\ disposition = "reached" => Target(q, tiles)
  /\ disposition = "unreachable_in_full_region" => ~Target(q, Tiles)
  /\ disposition \in {"expansion_limit", "region_stalled"} =>
       /\ options.terminal_policy = "explicit_failure"
       /\ tiles # Tiles
       /\ ~Target(q, tiles)

CurrentEvidence(state) ==
  /\ state.distances.present =>
       /\ state.distances.generation = state.expansion_generation
       /\ state.distances.tiles = state.selected_tiles
  /\ state.compact_paths.present =>
       state.compact_paths.generation = state.expansion_generation

\* What holds of a query between any two steps of the loop.
Sound(q, state) ==
  /\ state \in QueryStates
  /\ state.terminal <=> state.disposition # "none"
  /\ state.fallback_used => state.selected_tiles = Tiles
  /\ TrueDisposition(q, state.selected_tiles, state.disposition)
  /\ CurrentEvidence(state)

\* A query whose last attempt missed a target, with the paths that say so.
Missed(q, state) ==
  /\ ~state.terminal
  /\ ~Target(q, state.selected_tiles)
  /\ options.enable_compact_paths =>
       /\ state.compact_paths.present
       /\ state.compact_paths.statuses \subseteq {"complete", "unreachable"}
       /\ "unreachable" \in state.compact_paths.statuses

(***************************************************************************)
(* The campaign.  A query of the pass is in one batch still to run, or has *)
(* been retired, or has missed a target; every other query is retired.     *)
(***************************************************************************)
Planned(q) == \E batch \in plan : q \in DOMAIN batch

PassInv ==
  /\ options \in Campaigns
  /\ planning_pass \in Counts
  /\ stage \in {"plan", "execute", "advance", "done"}
  /\ active \subseteq QueryIds /\ failed \subseteq QueryIds
  /\ \A q \in QueryIds \ active : states[q].terminal

PlanInv ==
  /\ stage = "plan" =>
       \A q \in active : ~states[q].terminal /\ states[q].attempts = planning_pass
  /\ stage \in {"execute", "advance"} =>
       /\ failed \subseteq active
       /\ \A q \in active : Planned(q) \/ q \in failed \/ states[q].terminal
       /\ \A q \in failed : /\ Missed(q, states[q])
                            /\ states[q].attempts = planning_pass + 1
  /\ stage = "execute" =>
       /\ \A batch \in plan :
            /\ DOMAIN batch \subseteq active \ failed
            /\ \A q \in DOMAIN batch :
                 /\ batch[q] = Lane(q)
                 /\ ~states[q].terminal
                 /\ states[q].attempts = planning_pass
       /\ \A b, c \in plan : b # c => DOMAIN b \intersect DOMAIN c = {}
  /\ stage = "advance" => plan = {}

IInv ==
  /\ \A q \in QueryIds : Sound(q, states[q])
  /\ PassInv
  /\ PlanInv

-----------------------------------------------------------------------------
(***************************************************************************)
(* Regions                                                                 *)
(***************************************************************************)
LEMMA RegionTiles ==
  /\ SpillTile \in Tiles /\ LocatedTiles \subseteq Tiles
  /\ \A bounds, margin : BoxTiles(bounds, margin) \subseteq Tiles
  /\ \A tiles \in SUBSET Tiles : AdmitSpill(tiles) \in SUBSET Tiles
  /\ \A tiles \in SUBSET Tiles : LocatedBounds(tiles) \in Anchors
<1>1. SpillTile \in Tiles /\ LocatedTiles \subseteq Tiles
  BY TileAssumption DEF SpillTile, Tiles, LocatedTiles
<1>2. QED
  BY <1>1 DEF BoxTiles, AdmitSpill, Anchors

LEMMA InitialTilesAreTiles ==
  ASSUME NEW q \in QueryIds PROVE InitialTiles(q) \in SUBSET Tiles
<1> DEFINE terminals == QuerySources[q] \union QueryTargets[q]
           owners    == {OwnerTile[v] : v \in terminals}
<1>1. SelectTiles(terminals, Padding) \subseteq
        BoxTiles(LocatedBounds(owners), Padding) \union (owners \intersect {SpillTile})
  BY DEF SelectTiles
<1>2. QED
  BY <1>1, RegionTiles DEF InitialTiles

-----------------------------------------------------------------------------
(***************************************************************************)
(* A query that missed a target                                            *)
(***************************************************************************)
\* What the loop's options and limits are.
LEMMA CampaignFacts ==
  ASSUME options \in Campaigns
  PROVE  /\ options.kind \in ScheduleKinds
         /\ options.fixed_ring_size \in Nat
         /\ options.terminal_policy \in {"full_region_fallback", "explicit_failure"}
         /\ CountLimit \in Nat \ {0} /\ MarginLimit \in Nat \ {0}
         /\ Counts = 0 .. CountLimit /\ 0 \in Counts
         /\ Payloads \subseteq SUBSET PathStatuses
BY CampaignAssumption DEF Counts

\* The fields of a query's state.
LEMMA StateFields ==
  ASSUME NEW st \in QueryStates
  PROVE  /\ st.selected_tiles \in SUBSET Tiles
         /\ st.expansion_generation \in Counts
         /\ st.anchor \in Anchors
         /\ st.intended_margin \in 0 .. MarginLimit
         /\ st.attempts \in Counts
         /\ st.scheduled_expansions \in Counts
         /\ st.total_expansions \in Counts
         /\ st.fallback_used \in BOOLEAN
         /\ st.terminal \in BOOLEAN
         /\ st.disposition \in Dispositions
         /\ st.stop_reason \in StopReasons
         /\ st.distances \in {Nothing} \union Distances
         /\ st.compact_paths \in {Nothing} \union Paths
BY DEF QueryStates

\* Giving a query its outcome touches nothing else.
LEMMA SetTerminalFields ==
  ASSUME NEW st \in QueryStates, NEW d \in Dispositions, NEW r \in StopReasons
  PROVE  LET new == SetTerminal(st, d, r)
         IN /\ new \in QueryStates
            /\ new.terminal = TRUE /\ new.disposition = d
            /\ new.selected_tiles = st.selected_tiles
            /\ new.expansion_generation = st.expansion_generation
            /\ new.attempts = st.attempts
            /\ new.fallback_used = st.fallback_used
            /\ new.distances = st.distances
            /\ new.compact_paths = st.compact_paths
BY DEF SetTerminal, QueryStates

\* A new attempt starts without the evidence of the last one.
LEMMA RestartFields ==
  ASSUME NEW st \in QueryStates, MayRestart(st), NEW tiles \in SUBSET Tiles,
         CountLimit \in Nat
  PROVE  LET new == Restart(st, tiles)
         IN /\ new \in QueryStates
            /\ new.selected_tiles = tiles
            /\ new.scheduled_expansions = st.scheduled_expansions
            /\ new.attempts = st.attempts
            /\ new.fallback_used = st.fallback_used
            /\ new.terminal = st.terminal /\ new.disposition = st.disposition
            /\ new.distances = Nothing /\ new.compact_paths = Nothing
<1>1. st.expansion_generation + 1 \in Counts /\ st.total_expansions + 1 \in Counts
  BY StateFields DEF MayRestart, Counts
<1>2. QED
  BY <1>1 DEF Restart, QueryStates

\* The margin of the next expansion, if it is within the limit.
LEMMA MovedFields ==
  ASSUME options \in Campaigns, NEW st \in QueryStates, ~(NextMargin(st) > MarginLimit)
  PROVE  LET new == [st EXCEPT !.intended_margin = NextMargin(st)]
         IN /\ new \in QueryStates
            /\ new.selected_tiles = st.selected_tiles
            /\ new.expansion_generation = st.expansion_generation
            /\ new.scheduled_expansions = st.scheduled_expansions
            /\ new.total_expansions = st.total_expansions
            /\ new.attempts = st.attempts
            /\ new.fallback_used = st.fallback_used
            /\ new.terminal = st.terminal /\ new.disposition = st.disposition
            /\ new.distances = st.distances
            /\ new.compact_paths = st.compact_paths
<1>1. st.intended_margin \in Nat /\ options.fixed_ring_size \in Nat
      /\ options.kind \in ScheduleKinds /\ MarginLimit \in Nat
  BY CampaignFacts, StateFields
<1>2. NextMargin(st) \in Nat
  BY <1>1 DEF NextMargin, ScheduleKinds
<1>3. NextMargin(st) \in 0 .. MarginLimit
  BY <1>1, <1>2
<1>4. QED
  BY <1>3 DEF QueryStates

LEMMA ExpandedTilesAreTiles ==
  ASSUME NEW st \in QueryStates PROVE ExpandedTiles(st) \in SUBSET Tiles
<1>1. st.selected_tiles \in SUBSET Tiles
  BY StateFields
<1>2. st.selected_tiles \union BoxTiles(st.anchor, st.intended_margin) \in SUBSET Tiles
  BY <1>1, RegionTiles
<1>3. QED
  BY <1>1, <1>2, RegionTiles DEF ExpandedTiles

LEMMA SettledFields ==
  ASSUME NEW st \in QueryStates, MarginLimit \in Nat
  PROVE  LET new == SettleAnchor(st)
         IN /\ new \in QueryStates
            /\ new.selected_tiles = st.selected_tiles
            /\ new.expansion_generation = st.expansion_generation
            /\ new.scheduled_expansions = st.scheduled_expansions
            /\ new.total_expansions = st.total_expansions
            /\ new.attempts = st.attempts
            /\ new.fallback_used = st.fallback_used
            /\ new.terminal = st.terminal /\ new.disposition = st.disposition
            /\ new.distances = st.distances
            /\ new.compact_paths = st.compact_paths
<1>1. LocatedBounds(ExpandedTiles(st)) \in Anchors /\ 0 \in 0 .. MarginLimit
  BY ExpandedTilesAreTiles, RegionTiles
<1>2. QED
  BY <1>1 DEF SettleAnchor, QueryStates

\* Moving the margin or settling the box says nothing of the query's evidence.
LEMMA SameEvidence ==
  ASSUME NEW q \in QueryIds, NEW st, NEW new \in QueryStates, Sound(q, st),
         new.selected_tiles = st.selected_tiles,
         new.expansion_generation = st.expansion_generation,
         new.fallback_used = st.fallback_used,
         new.terminal = st.terminal, new.disposition = st.disposition,
         new.distances = st.distances, new.compact_paths = st.compact_paths
  PROVE  Sound(q, new) /\ (Missed(q, st) => Missed(q, new))
BY DEF Sound, Missed, CurrentEvidence

\* The outcome d of a query in state st, and nothing else.
SoundOutcome(q, st, d, new) ==
  /\ Sound(q, new)
  /\ new.attempts = st.attempts
  /\ new.terminal = TRUE /\ new.disposition = d
  /\ new.compact_paths = st.compact_paths

\* An outcome is sound when its verdict is true.
LEMMA OutcomeIsSound ==
  ASSUME NEW q \in QueryIds, NEW st, Sound(q, st),
         NEW d \in Dispositions \ {"none"}, NEW r \in StopReasons,
         TrueDisposition(q, st.selected_tiles, d)
  PROVE  SoundOutcome(q, st, d, SetTerminal(st, d, r))
<1> DEFINE new == SetTerminal(st, d, r)
<1>1. st \in QueryStates
  BY DEF Sound
<1>2. /\ new \in QueryStates
      /\ new.terminal = TRUE /\ new.disposition = d
      /\ new.selected_tiles = st.selected_tiles
      /\ new.expansion_generation = st.expansion_generation
      /\ new.attempts = st.attempts
      /\ new.fallback_used = st.fallback_used
      /\ new.distances = st.distances
      /\ new.compact_paths = st.compact_paths
  BY <1>1, SetTerminalFields
<1> HIDE DEF new
<1>3. Sound(q, new)
  BY <1>2 DEF Sound, CurrentEvidence
<1>4. QED
  BY <1>2, <1>3 DEF new, SoundOutcome

LEMMA OverflowIsSound ==
  ASSUME NEW q \in QueryIds, NEW st, Sound(q, st)
  PROVE  /\ Sound(q, Overflow(st))
         /\ Overflow(st).attempts = st.attempts
         /\ Overflow(st).terminal = TRUE
         /\ Overflow(st).disposition = "identity_or_count_overflow"
<1>1. /\ "identity_or_count_overflow" \in Dispositions \ {"none"}
      /\ "converged" \in StopReasons
  BY DEF Dispositions, StopReasons
<1>2. TrueDisposition(q, st.selected_tiles, "identity_or_count_overflow")
  BY DEF TrueDisposition
<1>3. SoundOutcome(q, st, "identity_or_count_overflow", Overflow(st))
  BY <1>1, <1>2, OutcomeIsSound DEF Overflow
<1>4. QED
  BY <1>3 DEF SoundOutcome

\* A restarted query has no evidence to be wrong about.
LEMMA RestartIsSound ==
  ASSUME options \in Campaigns, NEW q \in QueryIds, NEW st, Sound(q, st), ~st.terminal,
         MayRestart(st), NEW tiles \in SUBSET Tiles, st.fallback_used => tiles = Tiles
  PROVE  LET new == Restart(st, tiles)
         IN /\ Sound(q, new)
            /\ new.selected_tiles = tiles
            /\ new.scheduled_expansions = st.scheduled_expansions
            /\ new.attempts = st.attempts
            /\ ~new.terminal /\ new.disposition = "none"
<1> DEFINE new == Restart(st, tiles)
<1>1. st \in QueryStates /\ CountLimit \in Nat
  BY CampaignFacts DEF Sound
<1>2. /\ new \in QueryStates
      /\ new.selected_tiles = tiles
      /\ new.scheduled_expansions = st.scheduled_expansions
      /\ new.attempts = st.attempts
      /\ new.fallback_used = st.fallback_used
      /\ new.terminal = st.terminal /\ new.disposition = st.disposition
      /\ new.distances = Nothing /\ new.compact_paths = Nothing
  BY <1>1, RestartFields
<1> HIDE DEF new
<1>3. new.disposition = "none"
  BY <1>2 DEF Sound
<1>4. Sound(q, new)
  BY <1>2, <1>3 DEF Sound, TrueDisposition, CurrentEvidence, Nothing
<1>5. QED
  BY <1>2, <1>3, <1>4 DEF new

LEMMA ExpansionIsSound ==
  ASSUME options \in Campaigns, NEW q \in QueryIds, NEW moved, Sound(q, moved),
         ~moved.terminal, ~moved.fallback_used
  PROVE  LET new == ExpandOnSchedule(moved)
         IN /\ Sound(q, new)
            /\ new.attempts = moved.attempts
            /\ new.disposition # "unreachable_in_full_region"
<1> DEFINE settled == SettleAnchor(moved)
           tiles   == ExpandedTiles(moved)
           again   == Restart(settled, tiles)
           counted == [again EXCEPT !.scheduled_expansions = @ + 1]
<1>1. moved \in QueryStates /\ MarginLimit \in Nat /\ CountLimit \in Nat
  BY CampaignFacts DEF Sound
<1>2. /\ settled \in QueryStates
      /\ settled.selected_tiles = moved.selected_tiles
      /\ settled.expansion_generation = moved.expansion_generation
      /\ settled.scheduled_expansions = moved.scheduled_expansions
      /\ settled.total_expansions = moved.total_expansions
      /\ settled.attempts = moved.attempts
      /\ settled.fallback_used = moved.fallback_used
      /\ settled.terminal = moved.terminal /\ settled.disposition = moved.disposition
      /\ settled.distances = moved.distances
      /\ settled.compact_paths = moved.compact_paths
  BY <1>1, SettledFields
<1>3. tiles \in SUBSET Tiles
  BY <1>1, ExpandedTilesAreTiles
<1> HIDE DEF settled, tiles
<1>4. Sound(q, settled)
  BY <1>2, SameEvidence
<1>5. CASE moved.scheduled_expansions # CountLimit /\ MayRestart(moved)
  <2>1. MayRestart(settled)
    BY <1>2, <1>5 DEF MayRestart
  <2>2. /\ Sound(q, again)
        /\ again.scheduled_expansions = moved.scheduled_expansions
        /\ again.attempts = moved.attempts
        /\ again.disposition = "none"
    BY <1>2, <1>3, <1>4, <2>1, RestartIsSound
  <2> HIDE DEF again
  <2>3. again.scheduled_expansions + 1 \in Counts
    BY <1>1, <1>5, <2>2, StateFields DEF Counts
  <2>4. again \in QueryStates
    BY <2>2 DEF Sound
  <2>5. /\ counted \in QueryStates
        /\ counted.selected_tiles = again.selected_tiles
        /\ counted.expansion_generation = again.expansion_generation
        /\ counted.fallback_used = again.fallback_used
        /\ counted.terminal = again.terminal /\ counted.disposition = again.disposition
        /\ counted.attempts = again.attempts
        /\ counted.distances = again.distances
        /\ counted.compact_paths = again.compact_paths
    BY <2>3, <2>4 DEF QueryStates
  <2>6. Sound(q, counted)
    BY <2>2, <2>5, SameEvidence
  <2>7. ExpandOnSchedule(moved) = counted
    BY <1>5 DEF ExpandOnSchedule, counted, again, settled, tiles
  <2>8. QED
    BY <2>2, <2>5, <2>6, <2>7
<1>6. CASE ~(moved.scheduled_expansions # CountLimit /\ MayRestart(moved))
  <2>1. ExpandOnSchedule(moved) = Overflow(settled)
    BY <1>6 DEF ExpandOnSchedule, settled
  <2>2. /\ Sound(q, Overflow(settled))
        /\ Overflow(settled).attempts = settled.attempts
        /\ Overflow(settled).disposition = "identity_or_count_overflow"
    BY <1>4, OverflowIsSound
  <2>3. QED
    BY <1>2, <2>1, <2>2
<1>7. QED
  BY <1>5, <1>6

LEMMA FallbackIsSound ==
  ASSUME options \in Campaigns, NEW q \in QueryIds, NEW st, Sound(q, st), ~st.terminal
  PROVE  LET new == FallBackToFullRegion(st)
         IN /\ Sound(q, new)
            /\ new.attempts = st.attempts
            /\ new.disposition # "unreachable_in_full_region"
<1> DEFINE again  == Restart(st, Tiles)
           fallen == [again EXCEPT !.fallback_used = TRUE]
<1>1. CASE MayRestart(st)
  <2>1. /\ Sound(q, again)
        /\ again.selected_tiles = Tiles
        /\ again.attempts = st.attempts
        /\ again.disposition = "none"
    BY <1>1, RestartIsSound
  <2> HIDE DEF again
  <2>2. again \in QueryStates
    BY <2>1 DEF Sound
  <2>3. /\ fallen \in QueryStates
        /\ fallen.selected_tiles = again.selected_tiles
        /\ fallen.expansion_generation = again.expansion_generation
        /\ fallen.terminal = again.terminal /\ fallen.disposition = again.disposition
        /\ fallen.attempts = again.attempts
        /\ fallen.distances = again.distances
        /\ fallen.compact_paths = again.compact_paths
    BY <2>2 DEF QueryStates
  <2> HIDE DEF fallen
  <2>4. Sound(q, fallen)
    BY <2>1, <2>3 DEF Sound, TrueDisposition, CurrentEvidence
  <2>5. FallBackToFullRegion(st) = fallen
    BY <1>1 DEF FallBackToFullRegion, fallen, again
  <2>6. QED
    BY <2>1, <2>3, <2>4, <2>5
<1>2. CASE ~MayRestart(st)
  BY <1>2, OverflowIsSound DEF FallBackToFullRegion
<1>3. QED
  BY <1>1, <1>2

\* advance_failed_query: a query is declared unreachable only after it missed
\* in the whole graph, and given up only under the explicit policy.
LEMMA AdvanceIsSound ==
  ASSUME options \in Campaigns, NEW q \in QueryIds, NEW st, Sound(q, st), Missed(q, st)
  PROVE  LET new == AdvanceFailedQuery(st)
         IN /\ Sound(q, new)
            /\ new.attempts = st.attempts
            /\ new.disposition = "unreachable_in_full_region" =>
                 new.terminal /\ new.compact_paths = st.compact_paths
<1> DEFINE moved   == [st EXCEPT !.intended_margin = NextMargin(st)]
           settled == SettleAnchor(moved)
           stalls  == ExpandedTiles(moved) = moved.selected_tiles
           giveUp  == options.terminal_policy = "explicit_failure"
           new     == AdvanceFailedQuery(st)
<1>0. /\ st \in QueryStates /\ ~st.terminal /\ ~Target(q, st.selected_tiles)
      /\ MarginLimit \in Nat
      /\ st.fallback_used => st.selected_tiles = Tiles
      /\ "converged" \in StopReasons
      /\ "unreachable_in_full_region" \in Dispositions \ {"none"}
      /\ "expansion_limit" \in Dispositions \ {"none"}
      /\ "region_stalled" \in Dispositions \ {"none"}
  BY CampaignFacts DEF Sound, Missed, StopReasons, Dispositions
<1>1. CASE st.fallback_used \/ st.selected_tiles = Tiles
  <2>1. new = SetTerminal(st, "unreachable_in_full_region", "converged")
    BY <1>1 DEF AdvanceFailedQuery
  <2>2. ~Target(q, Tiles)
    BY <1>0, <1>1
  <2> DEFINE final == SetTerminal(st, "unreachable_in_full_region", "converged")
  <2>3. /\ Sound(q, final) /\ final.attempts = st.attempts
        /\ final.disposition = "unreachable_in_full_region"
        /\ final.compact_paths = st.compact_paths
    <3>1. /\ "unreachable_in_full_region" \in Dispositions \ {"none"}
          /\ "converged" \in StopReasons
      BY <1>0
    <3>2. TrueDisposition(q, st.selected_tiles, "unreachable_in_full_region")
      BY <2>2 DEF TrueDisposition
    <3>3. SoundOutcome(q, st, "unreachable_in_full_region", final)
      BY <3>1, <3>2, OutcomeIsSound
    <3> HIDE DEF final
    <3>4. QED
      BY <3>3 DEF SoundOutcome
  <2> HIDE DEF final
  <2>4. final.terminal
    BY <2>3 DEF Sound
  <2>5. QED
    BY <2>1, <2>3, <2>4 DEF final
<1>2. CASE /\ ~(st.fallback_used \/ st.selected_tiles = Tiles)
           /\ ~(st.scheduled_expansions < options.maximum_expansions)
  <2>1. CASE giveUp
    <3>1. new = SetTerminal(st, "expansion_limit", "converged")
      BY <1>2, <2>1 DEF AdvanceFailedQuery
    <3> DEFINE final == SetTerminal(st, "expansion_limit", "converged")
    <3>2. /\ Sound(q, final) /\ final.attempts = st.attempts
          /\ final.disposition = "expansion_limit"
      <4>1. /\ "expansion_limit" \in Dispositions \ {"none"}
            /\ "converged" \in StopReasons
        BY <1>0
      <4>2. TrueDisposition(q, st.selected_tiles, "expansion_limit")
        BY <1>0, <1>2, <2>1 DEF TrueDisposition
      <4>3. SoundOutcome(q, st, "expansion_limit", final)
        BY <4>1, <4>2, OutcomeIsSound
      <4> HIDE DEF final
      <4>4. QED
        BY <4>3 DEF SoundOutcome
    <3> HIDE DEF final
    <3>3. QED
      BY <3>1, <3>2 DEF final
  <2>2. CASE ~giveUp
    <3>1. new = FallBackToFullRegion(st)
      BY <1>2, <2>2 DEF AdvanceFailedQuery
    <3>2. QED
      BY <1>0, <3>1, FallbackIsSound
  <2>3. QED
    BY <2>1, <2>2
<1>3. CASE /\ ~(st.fallback_used \/ st.selected_tiles = Tiles)
           /\ st.scheduled_expansions < options.maximum_expansions
           /\ NextMargin(st) > MarginLimit
  <2>1. new = Overflow(st)
    BY <1>3 DEF AdvanceFailedQuery
  <2>2. /\ Sound(q, Overflow(st))
        /\ Overflow(st).attempts = st.attempts
        /\ Overflow(st).disposition = "identity_or_count_overflow"
    BY OverflowIsSound
  <2>3. QED
    BY <2>1, <2>2
<1>4. CASE /\ ~(st.fallback_used \/ st.selected_tiles = Tiles)
           /\ st.scheduled_expansions < options.maximum_expansions
           /\ ~(NextMargin(st) > MarginLimit)
  <2>1. /\ moved \in QueryStates
        /\ moved.selected_tiles = st.selected_tiles
        /\ moved.expansion_generation = st.expansion_generation
        /\ moved.attempts = st.attempts
        /\ moved.fallback_used = st.fallback_used
        /\ moved.terminal = st.terminal /\ moved.disposition = st.disposition
        /\ moved.distances = st.distances
        /\ moved.compact_paths = st.compact_paths
    BY <1>0, <1>4, MovedFields
  <2>2. /\ settled \in QueryStates
        /\ settled.selected_tiles = moved.selected_tiles
        /\ settled.expansion_generation = moved.expansion_generation
        /\ settled.attempts = moved.attempts
        /\ settled.fallback_used = moved.fallback_used
        /\ settled.terminal = moved.terminal /\ settled.disposition = moved.disposition
        /\ settled.distances = moved.distances
        /\ settled.compact_paths = moved.compact_paths
    BY <1>0, <2>1, SettledFields
  <2>3. CASE ~stalls
    <3>1. new = ExpandOnSchedule(moved)
      BY <1>4, <2>3 DEF AdvanceFailedQuery
    <3> HIDE DEF moved, new
    <3>2. Sound(q, moved)
      BY <2>1, SameEvidence
    <3>3. QED
      BY <1>0, <1>4, <2>1, <3>1, <3>2, ExpansionIsSound DEF new
  <2>4. CASE stalls /\ giveUp
    <3>1. new = SetTerminal(settled, "region_stalled", "converged")
      BY <1>4, <2>4 DEF AdvanceFailedQuery
    <3> HIDE DEF moved, new, settled
    <3>2. Sound(q, settled)
      BY <2>1, <2>2, SameEvidence
    <3> DEFINE final == SetTerminal(settled, "region_stalled", "converged")
    <3>3. settled.selected_tiles # Tiles /\ ~Target(q, settled.selected_tiles)
      BY <1>0, <1>4, <2>1, <2>2
    <3>4. /\ Sound(q, final) /\ final.attempts = settled.attempts
          /\ final.disposition = "region_stalled"
      <4>1. /\ "region_stalled" \in Dispositions \ {"none"}
            /\ "converged" \in StopReasons
        BY <1>0
      <4>2. TrueDisposition(q, settled.selected_tiles, "region_stalled")
        BY <2>4, <3>3 DEF TrueDisposition
      <4>3. SoundOutcome(q, settled, "region_stalled", final)
        BY <3>2, <4>1, <4>2, OutcomeIsSound
      <4> HIDE DEF final
      <4>4. QED
        BY <4>3 DEF SoundOutcome
    <3> HIDE DEF final
    <3>5. QED
      BY <2>1, <2>2, <3>1, <3>4 DEF final, new
  <2>5. CASE stalls /\ ~giveUp
    <3>1. new = FallBackToFullRegion(settled)
      BY <1>4, <2>5 DEF AdvanceFailedQuery
    <3> HIDE DEF moved, new, settled
    <3>2. Sound(q, settled)
      BY <2>1, <2>2, SameEvidence
    <3>3. QED
      BY <1>0, <2>1, <2>2, <3>1, <3>2, FallbackIsSound DEF new
  <2>6. QED
    BY <2>3, <2>4, <2>5
<1>5. QED
  BY <1>1, <1>2, <1>3, <1>4

\* What Advanced adds: the payload of a miss is kept with its verdict only.
LEMMA AdvancedIsSound ==
  ASSUME options \in Campaigns, NEW q \in QueryIds,
         Sound(q, states[q]), Missed(q, states[q])
  PROVE  /\ Sound(q, Advanced(q))
         /\ Advanced(q).attempts = states[q].attempts
         /\ PayloadAgrees(Advanced(q))
<1> DEFINE st   == states[q]
           next == AdvanceFailedQuery(st)
           dry  == WithoutPayload(next)
           sick == [next EXCEPT !.disposition = "engine_failure"]
<1>1. /\ Sound(q, next)
      /\ next.attempts = st.attempts
      /\ next.disposition = "unreachable_in_full_region" =>
           next.terminal /\ next.compact_paths = st.compact_paths
  BY AdvanceIsSound
<1>2. options.enable_compact_paths =>
        /\ st.compact_paths.present
        /\ st.compact_paths.statuses \subseteq {"complete", "unreachable"}
        /\ "unreachable" \in st.compact_paths.statuses
  BY DEF Missed
<1>3. Advanced(q) =
        IF ~next.terminal THEN next
        ELSE IF next.disposition # "unreachable_in_full_region" THEN dry
        ELSE IF next.compact_paths.present
                  => next.compact_paths.statuses \subseteq {"complete", "unreachable"}
          THEN next
        ELSE sick
  BY DEF Advanced
<1> HIDE DEF st, next
<1>4. next \in QueryStates
  BY <1>1 DEF Sound
<1>5. /\ dry \in QueryStates
      /\ dry.selected_tiles = next.selected_tiles
      /\ dry.expansion_generation = next.expansion_generation
      /\ dry.attempts = next.attempts
      /\ dry.fallback_used = next.fallback_used
      /\ dry.terminal = next.terminal /\ dry.disposition = next.disposition
      /\ dry.distances = next.distances /\ dry.compact_paths = Nothing
  BY <1>4 DEF WithoutPayload, QueryStates
<1>6. /\ sick \in QueryStates
      /\ sick.selected_tiles = next.selected_tiles
      /\ sick.expansion_generation = next.expansion_generation
      /\ sick.attempts = next.attempts
      /\ sick.fallback_used = next.fallback_used
      /\ sick.terminal = next.terminal /\ sick.disposition = "engine_failure"
      /\ sick.distances = next.distances /\ sick.compact_paths = next.compact_paths
  BY <1>4 DEF QueryStates, Dispositions
<1> HIDE DEF dry, sick
<1>7. Sound(q, dry)
  BY <1>1, <1>5 DEF Sound, CurrentEvidence, Nothing
<1>8. next.terminal => Sound(q, sick)
  BY <1>1, <1>6 DEF Sound, CurrentEvidence, TrueDisposition
<1>9. CASE ~next.terminal
  BY <1>1, <1>3, <1>9 DEF st, PayloadAgrees
<1>10. CASE next.terminal /\ next.disposition # "unreachable_in_full_region"
  BY <1>1, <1>3, <1>5, <1>7, <1>10 DEF st, PayloadAgrees
<1>11. CASE next.terminal /\ next.disposition = "unreachable_in_full_region"
  <2>1. CASE Advanced(q) = next
    <3>1. PayloadAgrees(next)
      BY <1>1, <1>2, <1>11 DEF PayloadAgrees
    <3>2. QED
      BY <1>1, <2>1, <3>1 DEF st
  <2>2. CASE Advanced(q) = sick
    <3>1. PayloadAgrees(sick)
      BY <1>6 DEF PayloadAgrees
    <3>2. QED
      BY <1>1, <1>6, <1>8, <1>11, <2>2, <3>1 DEF st
  <2>3. QED
    BY <1>3, <1>11, <2>1, <2>2
<1>12. QED
  BY <1>9, <1>10, <1>11

-----------------------------------------------------------------------------
(***************************************************************************)
(* A lane of a batch                                                       *)
(***************************************************************************)
\* A lane that ran gives its query the attempt, and evidence of that attempt.
LEMMA AttemptFields ==
  ASSUME options \in Campaigns, NEW q \in QueryIds, Sound(q, states[q]),
         ~AttemptsExhausted(states[q])
  PROVE  LET new == Attempted(states[q], Lane(q))
         IN /\ new \in QueryStates /\ CurrentEvidence(new)
            /\ new.selected_tiles = states[q].selected_tiles
            /\ new.expansion_generation = states[q].expansion_generation
            /\ new.attempts = states[q].attempts + 1
            /\ new.fallback_used = states[q].fallback_used
            /\ new.terminal = states[q].terminal
            /\ new.disposition = states[q].disposition
<1> DEFINE st   == states[q]
           lane == Lane(q)
           seen == IF options.returns_distances
                     THEN [present |-> TRUE, generation |-> lane.generation,
                           tiles |-> lane.tiles]
                     ELSE Nothing
           new  == Attempted(st, lane)
<1>1. /\ st \in QueryStates /\ CountLimit \in Nat
      /\ st.attempts \in Counts /\ st.attempts # CountLimit
      /\ st.expansion_generation \in Counts /\ st.selected_tiles \in SUBSET Tiles
  BY CampaignFacts, StateFields DEF Sound, AttemptsExhausted
<1>2. /\ lane.generation = st.expansion_generation
      /\ lane.tiles = st.selected_tiles
  BY DEF Lane
<1> HIDE DEF lane
<1>3. /\ st.attempts + 1 \in Counts
      /\ seen \in {Nothing} \union Distances
      /\ seen.present => /\ seen.generation = st.expansion_generation
                         /\ seen.tiles = st.selected_tiles
  BY <1>1, <1>2 DEF Counts, Distances, Nothing
<1> HIDE DEF st, seen
<1>4. new = [st EXCEPT !.attempts = @ + 1, !.distances = seen, !.compact_paths = Nothing]
  BY DEF Attempted, seen
<1> HIDE DEF new
<1>5. /\ new \in QueryStates
      /\ new.selected_tiles = st.selected_tiles
      /\ new.expansion_generation = st.expansion_generation
      /\ new.attempts = st.attempts + 1
      /\ new.fallback_used = st.fallback_used
      /\ new.terminal = st.terminal /\ new.disposition = st.disposition
      /\ new.distances = seen /\ new.compact_paths = Nothing
  BY <1>1, <1>3, <1>4 DEF QueryStates
<1>6. CurrentEvidence(new)
  BY <1>3, <1>5 DEF CurrentEvidence, Nothing
<1>7. QED
  BY <1>5, <1>6 DEF new, st, lane

LEMMA PayloadFields ==
  ASSUME NEW st \in QueryStates, CurrentEvidence(st),
         NEW statuses \in SUBSET PathStatuses,
         NEW lane, lane.generation = st.expansion_generation
  PROVE  LET new == WithPayload(st, lane, statuses)
         IN /\ new \in QueryStates /\ CurrentEvidence(new)
            /\ new.selected_tiles = st.selected_tiles
            /\ new.expansion_generation = st.expansion_generation
            /\ new.attempts = st.attempts
            /\ new.fallback_used = st.fallback_used
            /\ new.terminal = st.terminal /\ new.disposition = st.disposition
            /\ options.enable_compact_paths =>
                 new.compact_paths.present /\ new.compact_paths.statuses = statuses
<1> DEFINE paths == [present |-> TRUE, generation |-> lane.generation,
                     statuses |-> statuses]
<1>1. paths \in Paths /\ paths.generation = st.expansion_generation
      /\ paths.present /\ paths.statuses = statuses
  BY StateFields DEF Paths
<1> HIDE DEF paths
<1>2. CASE options.enable_compact_paths
  <2> DEFINE new == [st EXCEPT !.compact_paths = paths]
  <2>1. WithPayload(st, lane, statuses) = new
    BY <1>2 DEF WithPayload, paths
  <2>2. /\ new \in QueryStates
        /\ new.selected_tiles = st.selected_tiles
        /\ new.expansion_generation = st.expansion_generation
        /\ new.attempts = st.attempts
        /\ new.fallback_used = st.fallback_used
        /\ new.terminal = st.terminal /\ new.disposition = st.disposition
        /\ new.distances = st.distances /\ new.compact_paths = paths
    BY <1>1 DEF QueryStates
  <2> HIDE DEF new
  <2>3. CurrentEvidence(new)
    BY <1>1, <2>2 DEF CurrentEvidence
  <2>4. QED
    BY <1>1, <2>1, <2>2, <2>3
<1>3. CASE ~options.enable_compact_paths
  BY <1>3 DEF WithPayload
<1>4. QED
  BY <1>2, <1>3

\* Evidence can be dropped at any time.
LEMMA DroppedIsSound ==
  ASSUME NEW q \in QueryIds, NEW st, Sound(q, st)
  PROVE  /\ LET new == [st EXCEPT !.distances = Nothing]
            IN /\ Sound(q, new)
               /\ new.selected_tiles = st.selected_tiles
               /\ new.terminal = st.terminal /\ new.attempts = st.attempts
         /\ LET new == WithoutPayload(st)
            IN /\ Sound(q, new)
               /\ new.selected_tiles = st.selected_tiles
               /\ new.terminal = st.terminal /\ new.attempts = st.attempts
         /\ LET new == [st EXCEPT !.distances = Nothing, !.compact_paths = Nothing]
            IN /\ Sound(q, new)
               /\ new.selected_tiles = st.selected_tiles
               /\ new.terminal = st.terminal /\ new.attempts = st.attempts
<1>1. st \in QueryStates
  BY DEF Sound
<1>2. ASSUME NEW new \in QueryStates,
             new.selected_tiles = st.selected_tiles,
             new.expansion_generation = st.expansion_generation,
             new.fallback_used = st.fallback_used,
             new.terminal = st.terminal, new.disposition = st.disposition,
             new.distances \in {Nothing, st.distances},
             new.compact_paths \in {Nothing, st.compact_paths}
      PROVE  Sound(q, new)
  BY <1>2 DEF Sound, CurrentEvidence, Nothing
<1>3. LET new == [st EXCEPT !.distances = Nothing]
      IN /\ Sound(q, new)
         /\ new.selected_tiles = st.selected_tiles
         /\ new.terminal = st.terminal /\ new.attempts = st.attempts
  <2> DEFINE new == [st EXCEPT !.distances = Nothing]
  <2>1. /\ new \in QueryStates
        /\ new.selected_tiles = st.selected_tiles
        /\ new.expansion_generation = st.expansion_generation
        /\ new.attempts = st.attempts
        /\ new.fallback_used = st.fallback_used
        /\ new.terminal = st.terminal /\ new.disposition = st.disposition
        /\ new.distances \in {Nothing, st.distances}
        /\ new.compact_paths \in {Nothing, st.compact_paths}
    BY <1>1 DEF QueryStates
  <2> HIDE DEF new
  <2>2. QED
    BY <1>2, <2>1 DEF new
<1>4. LET new == WithoutPayload(st)
      IN /\ Sound(q, new)
         /\ new.selected_tiles = st.selected_tiles
         /\ new.terminal = st.terminal /\ new.attempts = st.attempts
  <2> DEFINE new == WithoutPayload(st)
  <2>1. /\ new \in QueryStates
        /\ new.selected_tiles = st.selected_tiles
        /\ new.expansion_generation = st.expansion_generation
        /\ new.attempts = st.attempts
        /\ new.fallback_used = st.fallback_used
        /\ new.terminal = st.terminal /\ new.disposition = st.disposition
        /\ new.distances \in {Nothing, st.distances}
        /\ new.compact_paths \in {Nothing, st.compact_paths}
    BY <1>1 DEF WithoutPayload, QueryStates
  <2> HIDE DEF new
  <2>2. QED
    BY <1>2, <2>1 DEF new
<1>5. LET new == [st EXCEPT !.distances = Nothing, !.compact_paths = Nothing]
      IN /\ Sound(q, new)
         /\ new.selected_tiles = st.selected_tiles
         /\ new.terminal = st.terminal /\ new.attempts = st.attempts
  <2> DEFINE new == [st EXCEPT !.distances = Nothing, !.compact_paths = Nothing]
  <2>1. /\ new \in QueryStates
        /\ new.selected_tiles = st.selected_tiles
        /\ new.expansion_generation = st.expansion_generation
        /\ new.attempts = st.attempts
        /\ new.fallback_used = st.fallback_used
        /\ new.terminal = st.terminal /\ new.disposition = st.disposition
        /\ new.distances \in {Nothing, st.distances}
        /\ new.compact_paths \in {Nothing, st.compact_paths}
    BY <1>1 DEF QueryStates
  <2> HIDE DEF new
  <2>2. QED
    BY <1>2, <2>1 DEF new
<1>6. QED
  BY <1>3, <1>4, <1>5

\* A failed engine retires the query and claims nothing of it.
LEMMA EngineFailureIsSound ==
  ASSUME NEW q \in QueryIds, NEW st, Sound(q, st), NEW stop \in StopReasons
  PROVE  Sound(q, EngineFailure(st, stop)) /\ EngineFailure(st, stop).terminal
<1> DEFINE bare == [st EXCEPT !.distances = Nothing]
<1>1. Sound(q, bare)
  BY DroppedIsSound
<1>2. EngineFailure(st, stop) = SetTerminal(bare, "engine_failure", stop)
  BY DEF EngineFailure
<1> HIDE DEF bare
<1>3. "engine_failure" \in Dispositions \ {"none"}
  BY DEF Dispositions
<1>4. TrueDisposition(q, bare.selected_tiles, "engine_failure")
  BY DEF TrueDisposition
<1> DEFINE new == SetTerminal(bare, "engine_failure", stop)
<1>5. SoundOutcome(q, bare, "engine_failure", new)
  BY <1>1, <1>3, <1>4, OutcomeIsSound
<1> HIDE DEF new
<1>6. Sound(q, new) /\ new.terminal
  BY <1>5 DEF SoundOutcome
<1>7. QED
  BY <1>2, <1>6 DEF new

LEMMA RetiredIsSound ==
  ASSUME options \in Campaigns, NEW q \in QueryIds, NEW st, Sound(q, st),
         Target(q, st.selected_tiles), NEW statuses
  PROVE  LET new == RetireReached(st, statuses) IN Sound(q, new) /\ new.terminal
<1> DEFINE new   == RetireReached(st, statuses)
           taken == IF options.enable_compact_paths
                      THEN [st EXCEPT !.distances = Nothing] ELSE st
<1>1. Sound(q, taken) /\ taken.selected_tiles = st.selected_tiles
  BY DroppedIsSound
<1>2. /\ "converged" \in StopReasons
      /\ "reached" \in Dispositions \ {"none"}
  BY DEF StopReasons, Dispositions
<1>3. \/ new = SetTerminal(taken, "reached", "converged")
      \/ new = EngineFailure(WithoutPayload(taken), "converged")
      \/ new = EngineFailure(taken, "converged")
  BY DEF RetireReached
<1> HIDE DEF taken, new
<1>4. CASE new = SetTerminal(taken, "reached", "converged")
  <2>1. TrueDisposition(q, taken.selected_tiles, "reached")
    BY <1>1 DEF TrueDisposition
  <2> DEFINE final == SetTerminal(taken, "reached", "converged")
  <2>2. SoundOutcome(q, taken, "reached", final)
    <3>1. Sound(q, taken)
      BY <1>1
    <3>2. QED
      BY <1>2, <2>1, <3>1, OutcomeIsSound
  <2> HIDE DEF final
  <2>3. Sound(q, final) /\ final.terminal
    BY <2>2 DEF SoundOutcome
  <2>4. QED
    BY <1>4, <2>3 DEF new, final
<1>5. CASE new = EngineFailure(WithoutPayload(taken), "converged")
  <2>1. Sound(q, WithoutPayload(taken))
    BY <1>1, DroppedIsSound
  <2>2. QED
    BY <1>2, <1>5, <2>1, EngineFailureIsSound DEF new
<1>6. CASE new = EngineFailure(taken, "converged")
  BY <1>1, <1>2, <1>6, EngineFailureIsSound DEF new
<1>7. QED
  BY <1>3, <1>4, <1>5, <1>6

LEMMA KeptIsSound ==
  ASSUME NEW q \in QueryIds, NEW st, Sound(q, st), ~st.terminal,
         ~Target(q, st.selected_tiles), NEW statuses,
         options.enable_compact_paths =>
           st.compact_paths.present /\ st.compact_paths.statuses = statuses
  PROVE  LET new == KeepMissed(st, statuses)
         IN /\ Sound(q, new)
            /\ ~new.terminal => Missed(q, new) /\ new.attempts = st.attempts
<1> DEFINE new == KeepMissed(st, statuses)
           consistent == options.enable_compact_paths =>
                           /\ statuses \subseteq {"complete", "unreachable"}
                           /\ "unreachable" \in statuses
<1>1. "converged" \in StopReasons
  BY DEF StopReasons
<1>2. \/ consistent /\ new = st
      \/ new = EngineFailure(WithoutPayload(st), "converged")
      \/ new = EngineFailure(st, "converged")
  BY DEF KeepMissed
<1>3. CASE consistent /\ new = st
  BY <1>3 DEF Missed
<1>4. CASE new = EngineFailure(WithoutPayload(st), "converged")
  <2>1. Sound(q, WithoutPayload(st))
    BY DroppedIsSound
  <2>2. QED
    BY <1>1, <1>4, <2>1, EngineFailureIsSound
<1>5. CASE new = EngineFailure(st, "converged")
  BY <1>1, <1>5, EngineFailureIsSound
<1>6. QED
  BY <1>2, <1>3, <1>4, <1>5

\* What the lane loop makes of a lane that was planned for the query as it is.
LEMMA LaneOutcomeIsSound ==
  ASSUME options \in Campaigns, NEW q \in QueryIds, Sound(q, states[q]),
         ~states[q].terminal, NEW batch, batch[q] = Lane(q),
         NEW stop \in {"converged"} \union Failures,
         NEW statuses \in SUBSET PathStatuses
  PROVE  LET new == LaneOutcome(q, batch, stop, statuses)
         IN /\ Sound(q, new)
            /\ ~new.terminal => /\ Missed(q, new)
                                /\ new.attempts = states[q].attempts + 1
<1> DEFINE st        == states[q]
           attempted == Attempted(st, Lane(q))
           captured  == WithPayload(attempted, Lane(q), statuses)
           new       == LaneOutcome(q, batch, stop, statuses)
<1>1. /\ stop \in StopReasons /\ "converged" \in StopReasons
      /\ "identity_or_count_overflow" \in Dispositions \ {"none"}
  BY DEF StopReasons, Dispositions
<1>2. CASE AttemptsExhausted(st)
  <2> DEFINE bare == [st EXCEPT !.distances = Nothing, !.compact_paths = Nothing]
  <2>1. Sound(q, bare)
    BY DroppedIsSound
  <2>2. new = SetTerminal(bare, "identity_or_count_overflow", stop)
    BY <1>2 DEF LaneOutcome
  <2> HIDE DEF bare, new
  <2>3. TrueDisposition(q, bare.selected_tiles, "identity_or_count_overflow")
    BY DEF TrueDisposition
  <2>4. SoundOutcome(q, bare, "identity_or_count_overflow", new)
    BY <1>1, <2>1, <2>2, <2>3, OutcomeIsSound
  <2>5. QED
    BY <2>4 DEF new, SoundOutcome
<1>3. CASE ~AttemptsExhausted(st)
  <2>1. /\ attempted \in QueryStates /\ CurrentEvidence(attempted)
        /\ attempted.selected_tiles = st.selected_tiles
        /\ attempted.expansion_generation = st.expansion_generation
        /\ attempted.attempts = st.attempts + 1
        /\ attempted.fallback_used = st.fallback_used
        /\ attempted.terminal = st.terminal
        /\ attempted.disposition = st.disposition
    BY <1>3, AttemptFields
  <2>2. Lane(q).generation = st.expansion_generation
    BY DEF Lane
  <2>3. /\ captured \in QueryStates /\ CurrentEvidence(captured)
        /\ captured.selected_tiles = attempted.selected_tiles
        /\ captured.expansion_generation = attempted.expansion_generation
        /\ captured.attempts = attempted.attempts
        /\ captured.fallback_used = attempted.fallback_used
        /\ captured.terminal = attempted.terminal
        /\ captured.disposition = attempted.disposition
        /\ options.enable_compact_paths =>
             captured.compact_paths.present /\ captured.compact_paths.statuses = statuses
    <3> HIDE DEF attempted
    <3>1. Lane(q).generation = attempted.expansion_generation
      BY <2>1, <2>2
    <3>2. QED
      BY <2>1, <3>1, PayloadFields
  <2>4. new = IF ~CleanConvergence(stop) THEN EngineFailure(attempted, stop)
              ELSE IF Target(q, st.selected_tiles) THEN RetireReached(captured, statuses)
              ELSE KeepMissed(captured, statuses)
    <3>1. ReachedTargets(q, batch) <=> Target(q, st.selected_tiles)
      BY DEF ReachedTargets, Target, Lane
    <3>2. QED
      BY <1>3, <3>1 DEF LaneOutcome
  <2> HIDE DEF attempted, captured, new
  <2>5. Sound(q, attempted) /\ Sound(q, captured)
    BY <2>1, <2>3 DEF Sound
  <2>6. CASE ~CleanConvergence(stop)
    BY <1>1, <2>4, <2>5, <2>6, EngineFailureIsSound DEF new
  <2>7. CASE CleanConvergence(stop) /\ Target(q, st.selected_tiles)
    <3>1. Target(q, captured.selected_tiles)
      BY <2>1, <2>3, <2>7
    <3>2. QED
      BY <2>4, <2>5, <2>7, <3>1, RetiredIsSound DEF new
  <2>8. CASE CleanConvergence(stop) /\ ~Target(q, st.selected_tiles)
    <3>1. ~Target(q, captured.selected_tiles) /\ ~captured.terminal
      BY <2>1, <2>3, <2>8
    <3>2. /\ Sound(q, KeepMissed(captured, statuses))
          /\ ~KeepMissed(captured, statuses).terminal =>
               /\ Missed(q, KeepMissed(captured, statuses))
               /\ KeepMissed(captured, statuses).attempts = captured.attempts
      BY <2>3, <2>5, <3>1, KeptIsSound
    <3>3. QED
      BY <2>1, <2>3, <2>4, <2>8, <3>2 DEF new
  <2>9. QED
    BY <2>6, <2>7, <2>8
<1>4. QED
  BY <1>2, <1>3

-----------------------------------------------------------------------------
(***************************************************************************)
(* The steps of the loop                                                   *)
(***************************************************************************)
LEMMA InitInv == Init => IInv
<1> SUFFICES ASSUME Init PROVE IInv
  OBVIOUS
<1>1. options \in Campaigns
  BY DEF Init
<1>2. /\ CountLimit \in Nat \ {0} /\ MarginLimit \in Nat \ {0}
      /\ Counts = 0 .. CountLimit /\ 0 \in Counts
  BY <1>1, CampaignFacts
<1>3. ASSUME NEW q \in QueryIds PROVE Sound(q, states[q]) /\ states[q].attempts = 0
                                      /\ ~states[q].terminal
  <2> DEFINE st == InitialState(q)
  <2>1. states[q] = st
    BY DEF Init
  <2>2. /\ InitialTiles(q) \in SUBSET Tiles
        /\ LocatedBounds(InitialTiles(q)) \in Anchors
        /\ InitialGenerations[q] \in Counts
        /\ 0 \in 0 .. MarginLimit
    BY <1>2, InitialTilesAreTiles, RegionTiles, CampaignAssumption
  <2>3. /\ st \in QueryStates
        /\ st.attempts = 0 /\ st.fallback_used = FALSE
        /\ st.terminal = FALSE /\ st.disposition = "none"
        /\ st.distances = Nothing /\ st.compact_paths = Nothing
    BY <1>2, <2>2 DEF InitialState, QueryStates, Dispositions, StopReasons
  <2> HIDE DEF st
  <2>4. QED
    BY <2>1, <2>3 DEF Sound, TrueDisposition, CurrentEvidence, Nothing
<1>4. PassInv
  BY <1>1, <1>2, <1>3 DEF Init, PassInv
<1>5. PlanInv
  BY <1>3 DEF Init, PlanInv
<1>6. QED
  BY <1>3, <1>4, <1>5 DEF IInv

\* The options of a campaign are fixed: what is sound stays sound.
LEMMA SoundAgain ==
  ASSUME options' = options, NEW q \in QueryIds, Sound(q, states'[q])
  PROVE  Sound(q, states[q])'
BY DEF Sound, TrueDisposition, CurrentEvidence

LEMMA MissedAgain ==
  ASSUME options' = options, NEW q \in QueryIds, Missed(q, states'[q])
  PROVE  Missed(q, states[q])'
BY DEF Missed

LEMMA PlanStep == IInv /\ PlanPass => IInv'
<1> SUFFICES ASSUME IInv, PlanPass PROVE IInv'
  OBVIOUS
<1>1. /\ stage = "plan" /\ active \subseteq QueryIds
      /\ \A q \in active : ~states[q].terminal /\ states[q].attempts = planning_pass
  BY DEF IInv, PassInv, PlanInv, PlanPass
<1>2. PICK groups \in Groupings : plan' = {[q \in g |-> Lane(q)] : g \in groups}
  BY <1>1 DEF PlanPass
<1>3. /\ failed' = {} /\ stage' = "execute"
      /\ options' = options /\ states' = states /\ active' = active
      /\ planning_pass' = planning_pass
  BY <1>1 DEF PlanPass
<1>4. /\ groups \subseteq SUBSET active
      /\ UNION groups = active
      /\ \A g, h \in groups : g # h => g \intersect h = {}
  BY DEF Groupings
<1>5. ASSUME NEW q \in QueryIds PROVE Sound(q, states[q])'
  BY <1>3, SoundAgain DEF IInv
<1>6. PassInv'
  BY <1>3 DEF IInv, PassInv
<1>7. ASSUME NEW q \in active PROVE Planned(q)'
  <2>1. PICK g \in groups : q \in g
    BY <1>4
  <2>2. [r \in g |-> Lane(r)] \in plan' /\ q \in DOMAIN [r \in g |-> Lane(r)]
    BY <1>2, <2>1
  <2>3. QED
    BY <2>2 DEF Planned
<1>8. ASSUME NEW batch \in plan'
      PROVE  /\ DOMAIN batch \subseteq active
             /\ \A q \in DOMAIN batch : batch[q] = Lane(q)
  BY <1>2, <1>4
<1>9. ASSUME NEW b \in plan', NEW c \in plan', b # c
      PROVE  DOMAIN b \intersect DOMAIN c = {}
  <2>1. PICK g \in groups : b = [q \in g |-> Lane(q)]
    BY <1>2
  <2>2. PICK h \in groups : c = [q \in h |-> Lane(q)]
    BY <1>2
  <2>3. g # h
    BY <1>9, <2>1, <2>2
  <2>4. DOMAIN b = g /\ DOMAIN c = h
    BY <2>1, <2>2
  <2>5. QED
    BY <1>4, <2>3, <2>4
<1>10. \A q : Lane(q)' = Lane(q)
  BY <1>3 DEF Lane
<1>11. PlanInv'
  BY <1>1, <1>3, <1>7, <1>8, <1>9, <1>10 DEF PlanInv
<1>12. QED
  BY <1>5, <1>6, <1>11 DEF IInv

LEMMA ExecuteStep == IInv /\ ExecuteBatch => IInv'
<1> SUFFICES ASSUME IInv, ExecuteBatch PROVE IInv'
  OBVIOUS
<1>1. /\ stage = "execute" /\ options \in Campaigns
      /\ options' = options /\ active' = active /\ planning_pass' = planning_pass
      /\ active \subseteq QueryIds /\ failed \subseteq active
      /\ planning_pass \in Counts
  BY DEF IInv, PassInv, PlanInv, ExecuteBatch
<1> DEFINE Answers(b) == [DOMAIN b -> IF options.enable_compact_paths
                                        THEN Payloads ELSE {{}}]
           Ran(b, stop, statuses) ==
             /\ states' = [q \in QueryIds |->
                             IF q \in DOMAIN b THEN LaneOutcome(q, b, stop, statuses[q])
                                              ELSE states[q]]
             /\ failed' = failed \union {q \in DOMAIN b : ~states'[q].terminal}
             /\ plan' = plan \ {b}
             /\ stage' = IF plan' = {} THEN "advance" ELSE "execute"
<1>2. PICK batch \in plan, stop \in {"converged"} \union Failures :
        \E statuses \in Answers(batch) :
          IF \A q \in DOMAIN batch : LaneMatches(q, batch)
            THEN Ran(batch, stop, statuses)
            ELSE stage' = "aborted" /\ UNCHANGED <<states, failed, plan>>
  BY DEF ExecuteBatch
<1> DEFINE lanes == DOMAIN batch
<1>3. /\ \A b \in plan :
           /\ DOMAIN b \subseteq active \ failed
           /\ \A q \in DOMAIN b : /\ b[q] = Lane(q)
                                  /\ ~states[q].terminal
                                  /\ states[q].attempts = planning_pass
      /\ \A b, c \in plan : b # c => DOMAIN b \intersect DOMAIN c = {}
      /\ \A q \in active : Planned(q) \/ q \in failed \/ states[q].terminal
      /\ \A q \in failed : Missed(q, states[q]) /\ states[q].attempts = planning_pass + 1
  BY <1>1 DEF IInv, PlanInv
<1>4. \A q \in lanes : LaneMatches(q, batch)
  BY <1>3 DEF LaneMatches, Lane
<1>run. PICK statuses \in Answers(batch) : Ran(batch, stop, statuses)
  BY <1>2, <1>4
<1>5. /\ states' = [q \in QueryIds |->
                      IF q \in lanes THEN LaneOutcome(q, batch, stop, statuses[q])
                                     ELSE states[q]]
      /\ failed' = failed \union {q \in lanes : ~states'[q].terminal}
      /\ plan' = plan \ {batch}
      /\ stage' = IF plan' = {} THEN "advance" ELSE "execute"
  BY <1>run
<1>6. lanes \subseteq active \ failed
  BY <1>3
<1>7. ASSUME NEW q \in QueryIds \ lanes PROVE states'[q] = states[q]
  BY <1>5
<1>8. ASSUME NEW q \in lanes
      PROVE  /\ Sound(q, states'[q])
             /\ ~states'[q].terminal => /\ Missed(q, states'[q])
                                        /\ states'[q].attempts = planning_pass + 1
  <2>1. q \in QueryIds
    BY <1>1, <1>6
  <2>2. Sound(q, states[q])
    BY <2>1 DEF IInv
  <2>3. /\ batch[q] = Lane(q) /\ ~states[q].terminal
        /\ states[q].attempts = planning_pass
    BY <1>3
  <2>4. statuses[q] \in SUBSET PathStatuses
    BY <1>1, CampaignFacts
  <2> DEFINE new == LaneOutcome(q, batch, stop, statuses[q])
  <2>5. /\ Sound(q, new)
        /\ ~new.terminal => Missed(q, new) /\ new.attempts = states[q].attempts + 1
    BY <1>1, <2>1, <2>2, <2>3, <2>4, LaneOutcomeIsSound
  <2>6. states'[q] = new
    BY <1>5, <2>1
  <2> HIDE DEF new
  <2>7. QED
    BY <2>3, <2>5, <2>6
<1> HIDE DEF lanes
<1>9. ASSUME NEW q \in QueryIds PROVE Sound(q, states[q])'
  <2>1. Sound(q, states'[q])
    BY <1>7, <1>8 DEF IInv
  <2>2. QED
    BY <1>1, <2>1, SoundAgain
<1>10. PassInv'
  <2>1. stage' \in {"execute", "advance"}
    BY <1>5
  <2>2. \A q \in QueryIds \ active : states'[q].terminal
    BY <1>6, <1>7 DEF IInv, PassInv
  <2>3. failed' \subseteq QueryIds
    BY <1>1, <1>5, <1>6
  <2>4. QED
    BY <1>1, <2>1, <2>2, <2>3 DEF PassInv
<1>11. failed' \subseteq active
  BY <1>1, <1>5, <1>6
<1>12. ASSUME NEW q \in active
       PROVE  Planned(q)' \/ q \in failed' \/ states'[q].terminal
  <2>1. CASE q \in lanes
    BY <1>5, <2>1
  <2>2. CASE q \notin lanes /\ Planned(q)
    <3>1. PICK b \in plan : q \in DOMAIN b
      BY <2>2 DEF Planned
    <3>2. b \in plan'
      BY <1>5, <2>2, <3>1 DEF lanes
    <3>3. QED
      BY <3>1, <3>2 DEF Planned
  <2>3. CASE q \notin lanes /\ ~Planned(q)
    <3>1. states'[q] = states[q]
      BY <1>1, <1>7, <2>3
    <3>2. QED
      BY <1>3, <1>5, <2>3, <3>1
  <2>4. QED
    BY <2>1, <2>2, <2>3
<1>13. ASSUME NEW q \in failed'
       PROVE  Missed(q, states[q])' /\ states'[q].attempts = planning_pass + 1
  <2>1. q \in QueryIds
    BY <1>1, <1>11
  <2>2. Missed(q, states'[q]) /\ states'[q].attempts = planning_pass + 1
    <3>1. CASE q \in failed
      BY <1>3, <1>6, <1>7, <2>1, <3>1
    <3>2. CASE q \in lanes /\ ~states'[q].terminal
      BY <1>8, <3>2
    <3>3. QED
      BY <1>5, <3>1, <3>2
  <2>3. QED
    BY <1>1, <2>1, <2>2, MissedAgain
<1>14. ASSUME NEW b \in plan'
       PROVE  /\ DOMAIN b \subseteq active \ failed'
              /\ \A q \in DOMAIN b : /\ b[q] = Lane(q)'
                                     /\ ~states'[q].terminal
                                     /\ states'[q].attempts = planning_pass
  <2>1. b \in plan /\ b # batch
    BY <1>5
  <2>2. DOMAIN b \intersect lanes = {}
    BY <1>3, <2>1 DEF lanes
  <2>3. DOMAIN b \subseteq active \ failed'
    BY <1>3, <1>5, <2>1, <2>2
  <2>4. ASSUME NEW q \in DOMAIN b
        PROVE  /\ b[q] = Lane(q)'
               /\ ~states'[q].terminal
               /\ states'[q].attempts = planning_pass
    <3>1. states'[q] = states[q]
      BY <1>1, <1>7, <2>2, <2>3
    <3>2. Lane(q)' = Lane(q)
      BY <3>1 DEF Lane
    <3>3. QED
      BY <1>3, <2>1, <3>1, <3>2
  <2>5. QED
    BY <2>3, <2>4
<1>15. \A b, c \in plan' : b # c => DOMAIN b \intersect DOMAIN c = {}
  BY <1>3, <1>5
<1>16. stage' \in {"execute", "advance"} /\ (stage' = "advance" => plan' = {})
  BY <1>5
<1>17. PlanInv'
  <2>1. /\ failed' \subseteq active'
        /\ \A q \in active' : Planned(q)' \/ q \in failed' \/ states'[q].terminal
        /\ \A q \in failed' : /\ Missed(q, states[q])'
                             /\ states'[q].attempts = planning_pass' + 1
    BY <1>1, <1>11, <1>12, <1>13
  <2>2. \A b \in plan' :
          /\ DOMAIN b \subseteq active' \ failed'
          /\ \A q \in DOMAIN b : /\ b[q] = Lane(q)'
                                 /\ ~states'[q].terminal
                                 /\ states'[q].attempts = planning_pass'
    BY <1>1, <1>14
  <2>3. QED
    BY <1>15, <1>16, <2>1, <2>2 DEF PlanInv
<1>18. QED
  BY <1>9, <1>10, <1>17 DEF IInv

LEMMA AdvanceStep == IInv /\ AdvanceFailedQueries => IInv'
<1> SUFFICES ASSUME IInv, AdvanceFailedQueries PROVE IInv'
  OBVIOUS
<1> DEFINE throws == \/ \E q \in failed : ~PayloadAgrees(states'[q])
                     \/ active' # {} /\ planning_pass = CountLimit
                     \/ active' = {} /\ \E q \in QueryIds : ~states'[q].terminal
<1>1. /\ stage = "advance" /\ plan = {} /\ options \in Campaigns
      /\ active \subseteq QueryIds /\ failed \subseteq active
      /\ planning_pass \in Counts
      /\ \A q \in QueryIds \ active : states[q].terminal
      /\ \A q \in active : Planned(q) \/ q \in failed \/ states[q].terminal
      /\ \A q \in failed : Missed(q, states[q]) /\ states[q].attempts = planning_pass + 1
  BY DEF IInv, PassInv, PlanInv, AdvanceFailedQueries
<1>2. /\ states' = [q \in QueryIds |-> IF q \in failed THEN Advanced(q) ELSE states[q]]
      /\ active' = {q \in failed : ~states'[q].terminal}
      /\ planning_pass' = IF active' # {} /\ ~throws THEN planning_pass + 1
                                                     ELSE planning_pass
      /\ stage' = IF throws THEN "aborted" ELSE IF active' = {} THEN "done" ELSE "plan"
      /\ options' = options /\ plan' = plan /\ failed' = failed
  BY DEF AdvanceFailedQueries, StillActive
<1>3. \A q \in QueryIds \ failed : states'[q] = states[q] /\ states'[q].terminal
  BY <1>1, <1>2 DEF Planned
<1>4. ASSUME NEW q \in failed
      PROVE  /\ Sound(q, states'[q])
             /\ states'[q].attempts = planning_pass + 1
             /\ PayloadAgrees(states'[q])
  <2>1. q \in QueryIds
    BY <1>1
  <2>2. Sound(q, states[q]) /\ Missed(q, states[q])
    BY <1>1, <2>1 DEF IInv
  <2>3. /\ Sound(q, Advanced(q))
        /\ Advanced(q).attempts = states[q].attempts
        /\ PayloadAgrees(Advanced(q))
    BY <1>1, <2>1, <2>2, AdvancedIsSound
  <2>4. states'[q] = Advanced(q)
    BY <1>2, <2>1
  <2>5. QED
    BY <1>1, <2>3, <2>4
<1>5. ASSUME NEW q \in QueryIds PROVE Sound(q, states[q])'
  <2>1. Sound(q, states'[q])
    BY <1>3, <1>4 DEF IInv
  <2>2. QED
    BY <1>2, <2>1, SoundAgain
<1>6. active' \subseteq failed /\ active' \subseteq QueryIds
  BY <1>1, <1>2
<1>7. \A q \in QueryIds \ active' : states'[q].terminal
  BY <1>2, <1>3
\* A query that goes on has made one attempt more than there were passes.
<1>8. active' # {} => planning_pass # CountLimit
  <2> SUFFICES ASSUME NEW q \in active' PROVE planning_pass # CountLimit
    OBVIOUS
  <2>1. states'[q] \in QueryStates /\ states'[q].attempts = planning_pass + 1
    BY <1>4, <1>6 DEF Sound
  <2>2. states'[q].attempts \in Counts /\ CountLimit \in Nat
    BY <1>1, <2>1, StateFields, CampaignFacts
  <2>3. QED
    BY <1>1, <2>1, <2>2 DEF Counts
<1>9. ~throws
  BY <1>4, <1>7, <1>8
<1> HIDE DEF throws
<1>10. PassInv'
  <2>1. planning_pass' \in Counts
    <3>1. CountLimit \in Nat
      BY <1>1, CampaignFacts
    <3>2. QED
      BY <1>1, <1>2, <1>8, <3>1 DEF Counts
  <2>2. stage' \in {"plan", "done"}
    BY <1>2, <1>9
  <2>3. failed' \subseteq QueryIds
    BY <1>1, <1>2
  <2>4. QED
    BY <1>1, <1>2, <1>6, <1>7, <2>1, <2>2, <2>3 DEF PassInv
<1>11. PlanInv'
  <2>1. CASE active' = {}
    BY <1>2, <1>9, <2>1 DEF PlanInv
  <2>2. CASE active' # {}
    <3>1. stage' = "plan" /\ planning_pass' = planning_pass + 1
      BY <1>2, <1>9, <2>2
    <3>2. \A q \in active' : /\ ~states'[q].terminal
                            /\ states'[q].attempts = planning_pass'
      BY <1>2, <1>4, <1>6, <3>1
    <3>3. QED
      BY <3>1, <3>2 DEF PlanInv
  <2>3. QED
    BY <2>1, <2>2
<1>12. QED
  BY <1>5, <1>10, <1>11 DEF IInv

LEMMA NextInv == IInv /\ [Next]_vars => IInv'
<1> SUFFICES ASSUME IInv, [Next]_vars PROVE IInv'
  OBVIOUS
<1>1. CASE PlanPass
  BY <1>1, PlanStep
<1>2. CASE ExecuteBatch
  BY <1>2, ExecuteStep
<1>3. CASE AdvanceFailedQueries
  BY <1>3, AdvanceStep
<1>4. CASE UNCHANGED vars
  <2>1. /\ options' = options /\ states' = states /\ active' = active /\ plan' = plan
        /\ failed' = failed /\ planning_pass' = planning_pass /\ stage' = stage
    BY <1>4 DEF vars
  <2>2. \A q \in QueryIds : Sound(q, states[q])' <=> Sound(q, states[q])
    BY <2>1 DEF Sound, TrueDisposition, CurrentEvidence
  <2>3. \A q : /\ Missed(q, states[q])' <=> Missed(q, states[q])
               /\ Planned(q)' <=> Planned(q)
               /\ Lane(q)' = Lane(q)
    BY <2>1 DEF Missed, Planned, Lane
  <2>4. PassInv'
    BY <2>1 DEF IInv, PassInv
  <2>5. PlanInv'
    BY <2>1, <2>3 DEF IInv, PlanInv
  <2>6. QED
    BY <2>2, <2>4, <2>5 DEF IInv
<1>5. QED
  BY <1>1, <1>2, <1>3, <1>4 DEF Next, Terminated

-----------------------------------------------------------------------------
(***************************************************************************)
(* Two states of a query that differ in their evidence at most meet the    *)
(* same fate.                                                              *)
(***************************************************************************)
Alike(s, t) ==
  /\ s \in QueryStates /\ t \in QueryStates
  /\ s.selected_tiles = t.selected_tiles
  /\ s.expansion_generation = t.expansion_generation
  /\ s.anchor = t.anchor
  /\ s.intended_margin = t.intended_margin
  /\ s.attempts = t.attempts
  /\ s.scheduled_expansions = t.scheduled_expansions
  /\ s.total_expansions = t.total_expansions
  /\ s.fallback_used = t.fallback_used
  /\ s.terminal = t.terminal
  /\ s.disposition = t.disposition

LEMMA AlikeFate ==
  ASSUME NEW s, NEW t, Alike(s, t) PROVE Fate(s) = Fate(t)
BY DEF Alike, Fate, QueryStates, Nothing

LEMMA AlikeTransitive ==
  ASSUME NEW s, NEW t, NEW u, Alike(s, t), Alike(t, u) PROVE Alike(s, u) /\ Alike(t, s)
BY DEF Alike

LEMMA AlikeTerminal ==
  ASSUME NEW s, NEW t, Alike(s, t), NEW d \in Dispositions,
         NEW r \in StopReasons, NEW r2 \in StopReasons
  PROVE  Alike(SetTerminal(s, d, r), SetTerminal(t, d, r2))
<1> DEFINE a == SetTerminal(s, d, r)
           b == SetTerminal(t, d, r2)
<1>1. a \in QueryStates /\ b \in QueryStates
  BY SetTerminalFields DEF Alike
<1>2. QED
  BY <1>1 DEF Alike, SetTerminal, QueryStates

LEMMA AlikeOverflow ==
  ASSUME NEW s, NEW t, Alike(s, t) PROVE Alike(Overflow(s), Overflow(t))
<1>1. "identity_or_count_overflow" \in Dispositions /\ "converged" \in StopReasons
  BY DEF Dispositions, StopReasons
<1>2. QED
  BY <1>1, AlikeTerminal DEF Overflow

LEMMA AlikeMoved ==
  ASSUME options \in Campaigns, NEW s, NEW t, Alike(s, t), ~(NextMargin(s) > MarginLimit)
  PROVE  /\ NextMargin(t) = NextMargin(s)
         /\ Alike([s EXCEPT !.intended_margin = NextMargin(s)],
                  [t EXCEPT !.intended_margin = NextMargin(t)])
<1>1. NextMargin(t) = NextMargin(s)
  BY DEF Alike, NextMargin
<1> DEFINE a == [s EXCEPT !.intended_margin = NextMargin(s)]
           b == [t EXCEPT !.intended_margin = NextMargin(t)]
<1>2. a \in QueryStates
  BY MovedFields DEF Alike
<1>3. b \in QueryStates
  BY <1>1, MovedFields DEF Alike
<1>4. a.intended_margin = b.intended_margin
  BY <1>1 DEF Alike, QueryStates
<1>5. Alike(a, b)
  BY <1>2, <1>3, <1>4 DEF Alike, QueryStates
<1>6. QED
  BY <1>1, <1>5

LEMMA AlikeTiles ==
  ASSUME NEW s, NEW t, Alike(s, t) PROVE ExpandedTiles(s) = ExpandedTiles(t)
BY DEF Alike, ExpandedTiles

LEMMA AlikeSettled ==
  ASSUME MarginLimit \in Nat, NEW s, NEW t, Alike(s, t)
  PROVE  Alike(SettleAnchor(s), SettleAnchor(t))
<1>1. SettleAnchor(s) \in QueryStates /\ SettleAnchor(t) \in QueryStates
  BY SettledFields DEF Alike
<1>2. CASE s.anchor.present
  <2>1. t.anchor.present
    BY <1>2 DEF Alike
  <2>2. QED
    BY <1>2, <2>1 DEF SettleAnchor
<1>3. CASE ~s.anchor.present
  <2> DEFINE box == LocatedBounds(ExpandedTiles(s))
  <2>1. ~t.anchor.present /\ box = LocatedBounds(ExpandedTiles(t))
    BY <1>3, AlikeTiles DEF Alike
  <2> HIDE DEF box
  <2>2. /\ SettleAnchor(s) = [s EXCEPT !.anchor = box, !.intended_margin = 0]
        /\ SettleAnchor(t) = [t EXCEPT !.anchor = box, !.intended_margin = 0]
    BY <1>3, <2>1 DEF SettleAnchor, box
  <2>3. QED
    BY <1>1, <2>2 DEF Alike, QueryStates
<1>4. QED
  BY <1>2, <1>3

LEMMA AlikeRestart ==
  ASSUME CountLimit \in Nat, NEW s, NEW t, Alike(s, t), MayRestart(s),
         NEW tiles \in SUBSET Tiles
  PROVE  MayRestart(t) /\ Alike(Restart(s, tiles), Restart(t, tiles))
<1>1. MayRestart(t)
  BY DEF Alike, MayRestart
<1>2. Restart(s, tiles) \in QueryStates /\ Restart(t, tiles) \in QueryStates
  BY <1>1, RestartFields DEF Alike
<1>3. QED
  BY <1>1, <1>2 DEF Alike, Restart, QueryStates

LEMMA AlikeExpansion ==
  ASSUME options \in Campaigns, NEW s, NEW t, Alike(s, t)
  PROVE  Alike(ExpandOnSchedule(s), ExpandOnSchedule(t))
<1> DEFINE tiles == ExpandedTiles(s)
           a == Restart(SettleAnchor(s), tiles)
           b == Restart(SettleAnchor(t), tiles)
<1>1. CountLimit \in Nat /\ MarginLimit \in Nat /\ Counts = 0 .. CountLimit
  BY CampaignFacts
<1>2. tiles \in SUBSET Tiles /\ tiles = ExpandedTiles(t)
  BY AlikeTiles, ExpandedTilesAreTiles DEF Alike
<1> HIDE DEF tiles
<1>3. Alike(SettleAnchor(s), SettleAnchor(t))
  BY <1>1, AlikeSettled
<1>4. /\ SettleAnchor(s).scheduled_expansions = s.scheduled_expansions
      /\ SettleAnchor(s).expansion_generation = s.expansion_generation
      /\ SettleAnchor(s).total_expansions = s.total_expansions
      /\ SettleAnchor(s) \in QueryStates
  BY <1>1, SettledFields DEF Alike
<1>5. (s.scheduled_expansions # CountLimit /\ MayRestart(s))
        <=> (t.scheduled_expansions # CountLimit /\ MayRestart(t))
  BY DEF Alike, MayRestart
<1>6. CASE s.scheduled_expansions # CountLimit /\ MayRestart(s)
  <2>1. MayRestart(SettleAnchor(s))
    BY <1>4, <1>6 DEF MayRestart
  <2>2. Alike(a, b)
    BY <1>1, <1>2, <1>3, <2>1, AlikeRestart
  <2>3. a.scheduled_expansions = s.scheduled_expansions
    BY <1>1, <1>2, <1>4, <2>1, RestartFields
  <2>4. a.scheduled_expansions + 1 \in Counts
    BY <1>1, <1>6, <2>3, StateFields DEF Alike, Counts
  <2> HIDE DEF a, b
  <2>5. Alike([a EXCEPT !.scheduled_expansions = @ + 1],
              [b EXCEPT !.scheduled_expansions = @ + 1])
    BY <2>2, <2>4 DEF Alike, QueryStates
  <2>6. /\ ExpandOnSchedule(s) = [a EXCEPT !.scheduled_expansions = @ + 1]
        /\ ExpandOnSchedule(t) = [b EXCEPT !.scheduled_expansions = @ + 1]
    BY <1>2, <1>5, <1>6 DEF ExpandOnSchedule, a, b, tiles
  <2>7. QED
    BY <2>5, <2>6
<1>7. CASE ~(s.scheduled_expansions # CountLimit /\ MayRestart(s))
  BY <1>3, <1>5, <1>7, AlikeOverflow DEF ExpandOnSchedule
<1>8. QED
  BY <1>6, <1>7

LEMMA AlikeFallback ==
  ASSUME options \in Campaigns, NEW s, NEW t, Alike(s, t)
  PROVE  Alike(FallBackToFullRegion(s), FallBackToFullRegion(t))
<1>1. CountLimit \in Nat /\ Tiles \in SUBSET Tiles
  BY CampaignFacts
<1>2. MayRestart(s) <=> MayRestart(t)
  BY DEF Alike, MayRestart
<1>3. CASE MayRestart(s)
  <2> DEFINE a == Restart(s, Tiles)
             b == Restart(t, Tiles)
  <2>1. Alike(a, b)
    BY <1>1, <1>3, AlikeRestart
  <2> HIDE DEF a, b
  <2>2. Alike([a EXCEPT !.fallback_used = TRUE], [b EXCEPT !.fallback_used = TRUE])
    BY <2>1 DEF Alike, QueryStates
  <2>3. QED
    BY <1>2, <1>3, <2>2 DEF FallBackToFullRegion, a, b
<1>4. CASE ~MayRestart(s)
  BY <1>2, <1>4, AlikeOverflow DEF FallBackToFullRegion
<1>5. QED
  BY <1>3, <1>4

\* advance_failed_query looks at nothing else.
LEMMA AlikeAdvance ==
  ASSUME options \in Campaigns, NEW s, NEW t, Alike(s, t)
  PROVE  Alike(AdvanceFailedQuery(s), AdvanceFailedQuery(t))
<1> DEFINE a == [s EXCEPT !.intended_margin = NextMargin(s)]
           b == [t EXCEPT !.intended_margin = NextMargin(t)]
           full   == s.fallback_used \/ s.selected_tiles = Tiles
           stalls == ExpandedTiles(a) = a.selected_tiles
           giveUp == options.terminal_policy = "explicit_failure"
<1>1. /\ MarginLimit \in Nat /\ "converged" \in StopReasons
      /\ "unreachable_in_full_region" \in Dispositions
      /\ "expansion_limit" \in Dispositions /\ "region_stalled" \in Dispositions
  BY CampaignFacts DEF StopReasons, Dispositions
<1>2. /\ full <=> (t.fallback_used \/ t.selected_tiles = Tiles)
      /\ s.scheduled_expansions = t.scheduled_expansions
      /\ NextMargin(s) = NextMargin(t)
  BY DEF Alike, NextMargin
<1>3. CASE full
  <2>1. Alike(SetTerminal(s, "unreachable_in_full_region", "converged"),
              SetTerminal(t, "unreachable_in_full_region", "converged"))
    BY <1>1, AlikeTerminal
  <2>2. QED
    BY <1>2, <1>3, <2>1 DEF AdvanceFailedQuery
<1>4. CASE ~full /\ ~(s.scheduled_expansions < options.maximum_expansions)
  <2>1. Alike(SetTerminal(s, "expansion_limit", "converged"),
              SetTerminal(t, "expansion_limit", "converged"))
    BY <1>1, AlikeTerminal
  <2>2. Alike(FallBackToFullRegion(s), FallBackToFullRegion(t))
    BY AlikeFallback
  <2>3. QED
    BY <1>2, <1>4, <2>1, <2>2 DEF AdvanceFailedQuery
<1>5. CASE /\ ~full /\ s.scheduled_expansions < options.maximum_expansions
           /\ NextMargin(s) > MarginLimit
  <2>1. Alike(Overflow(s), Overflow(t))
    BY AlikeOverflow
  <2>2. QED
    BY <1>2, <1>5, <2>1 DEF AdvanceFailedQuery
<1>6. CASE /\ ~full /\ s.scheduled_expansions < options.maximum_expansions
           /\ ~(NextMargin(s) > MarginLimit)
  <2>1. Alike(a, b)
    BY <1>6, AlikeMoved
  <2>2. stalls <=> (ExpandedTiles(b) = b.selected_tiles)
    BY <2>1, AlikeTiles DEF Alike
  <2>3. Alike(SettleAnchor(a), SettleAnchor(b))
    BY <1>1, <2>1, AlikeSettled
  <2>4. CASE ~stalls
    <3>1. /\ AdvanceFailedQuery(s) = ExpandOnSchedule(a)
          /\ AdvanceFailedQuery(t) = ExpandOnSchedule(b)
      BY <1>2, <1>6, <2>2, <2>4 DEF AdvanceFailedQuery
    <3>2. QED
      BY <2>1, <3>1, AlikeExpansion
  <2>5. CASE stalls /\ giveUp
    <3>1. /\ AdvanceFailedQuery(s) = SetTerminal(SettleAnchor(a), "region_stalled", "converged")
          /\ AdvanceFailedQuery(t) = SetTerminal(SettleAnchor(b), "region_stalled", "converged")
      BY <1>2, <1>6, <2>2, <2>5 DEF AdvanceFailedQuery
    <3>2. QED
      BY <1>1, <2>3, <3>1, AlikeTerminal
  <2>6. CASE stalls /\ ~giveUp
    <3>1. /\ AdvanceFailedQuery(s) = FallBackToFullRegion(SettleAnchor(a))
          /\ AdvanceFailedQuery(t) = FallBackToFullRegion(SettleAnchor(b))
      BY <1>2, <1>6, <2>2, <2>6 DEF AdvanceFailedQuery
    <3>2. QED
      BY <2>3, <3>1, AlikeFallback
  <2>7. QED
    BY <2>4, <2>5, <2>6
<1>7. QED
  BY <1>3, <1>4, <1>5, <1>6
-----------------------------------------------------------------------------
(***************************************************************************)
(* A query on its own, attempt after attempt.                              *)
(***************************************************************************)
LEMMA LessThanPairs == OpToRel(<, Nat) = {ss \in Nat \X Nat : ss[1] < ss[2]}
BY DEF OpToRel

LEMMA InductionOnSet ==
  ASSUME NEW S, 0 \in S, \A n \in Nat : n \in S => n + 1 \in S
  PROVE  Nat \subseteq S
<1> DEFINE R == OpToRel(<, Nat)
<1> SUFFICES ASSUME Nat \ S # {} PROVE FALSE
  OBVIOUS
<1>1. IsWellFoundedOn(R, Nat)
  BY NatLessThanWellFounded
<1>2. ASSUME NEW x \in Nat, NEW y \in Nat, x < y PROVE <<x, y>> \in R
  <2>1. <<x, y>> \in Nat \X Nat /\ <<x, y>>[1] < <<x, y>>[2]
    BY <1>2
  <2>2. QED
    BY <2>1, LessThanPairs, Zenon
<1> HIDE DEF R
<1>3. PICK x \in Nat \ S : \A y \in Nat \ S : <<y, x>> \notin R
  BY <1>1, WFMin
<1>4. x # 0 /\ x - 1 \in Nat /\ x - 1 < x
  BY <1>3
<1>5. x - 1 \notin S
  BY <1>3, <1>4
<1>6. QED
  BY <1>2, <1>3, <1>4, <1>5

\* The states after 0 .. n attempts.
Attempts(q, n, h) ==
  h = [k \in 0 .. n |-> IF k = 0 THEN InitialState(q) ELSE AttemptAlone(q, h[k - 1])]

LEMMA AttemptsExist ==
  ASSUME NEW q, NEW n \in Nat PROVE \E h : Attempts(q, n, h)
<1> DEFINE Good == {i \in Nat : \E h : Attempts(q, i, h)}
<1>1. 0 \in Good
  <2>1. Attempts(q, 0, [k \in 0 .. 0 |-> InitialState(q)])
    BY DEF Attempts
  <2>2. QED
    BY <2>1
<1>2. ASSUME NEW i \in Nat, i \in Good PROVE i + 1 \in Good
  <2>1. PICK h : Attempts(q, i, h)
    BY <1>2
  <2> DEFINE g == [k \in 0 .. i + 1 |-> IF k = i + 1 THEN AttemptAlone(q, h[i]) ELSE h[k]]
  <2>2. ASSUME NEW k \in 0 .. i + 1
        PROVE  g[k] = IF k = 0 THEN InitialState(q) ELSE AttemptAlone(q, g[k - 1])
    <3>1. CASE k = i + 1
      <4>1. k # 0 /\ k - 1 = i /\ i \in 0 .. i + 1 /\ i # i + 1
        BY <3>1
      <4>2. g[k] = AttemptAlone(q, h[i]) /\ g[i] = h[i]
        BY <3>1, <4>1
      <4>3. QED
        BY <4>1, <4>2
    <3>2. CASE k # i + 1
      <4>1. k \in 0 .. i /\ g[k] = h[k]
        BY <3>2
      <4>2. h[k] = IF k = 0 THEN InitialState(q) ELSE AttemptAlone(q, h[k - 1])
        BY <2>1, <4>1 DEF Attempts
      <4>3. k # 0 => k - 1 \in 0 .. i + 1 /\ k - 1 # i + 1
        BY <4>1
      <4>4. k # 0 => g[k - 1] = h[k - 1]
        BY <4>3
      <4>5. QED
        BY <4>1, <4>2, <4>4
    <3>3. QED
      BY <3>1, <3>2
  <2>3. Attempts(q, i + 1, g)
    <3>1. g = [k \in 0 .. i + 1 |-> g[k]]
      OBVIOUS
    <3> HIDE DEF g
    <3>2. QED
      BY <2>2, <3>1 DEF Attempts
  <2> HIDE DEF g
  <2>4. QED
    BY <2>3
<1> HIDE DEF Good
<1>3. Nat \subseteq Good
  BY <1>1, <1>2, InductionOnSet
<1>4. QED
  BY <1>3 DEF Good

LEMMA AloneUnfolds ==
  ASSUME NEW q, CountLimit \in Nat
  PROVE  /\ AfterAttempts(q)[0] = InitialState(q)
         /\ \A k \in 0 .. CountLimit :
              AfterAttempts(q)[k + 1] = AttemptAlone(q, AfterAttempts(q)[k])
<1>1. Attempts(q, CountLimit + 1, AfterAttempts(q))
  <2>1. \E h : Attempts(q, CountLimit + 1, h)
    BY AttemptsExist
  <2>2. QED
    BY <2>1 DEF AfterAttempts, Attempts
<1> DEFINE h == AfterAttempts(q)
<1> HIDE DEF h
<1>2. ASSUME NEW k \in 0 .. CountLimit + 1
      PROVE  h[k] = IF k = 0 THEN InitialState(q) ELSE AttemptAlone(q, h[k - 1])
  BY <1>1 DEF h, Attempts
<1>3. h[0] = InitialState(q)
  BY <1>2
<1>4. ASSUME NEW k \in 0 .. CountLimit PROVE h[k + 1] = AttemptAlone(q, h[k])
  <2>1. k + 1 \in 0 .. CountLimit + 1 /\ k + 1 # 0 /\ (k + 1) - 1 = k
    OBVIOUS
  <2>2. QED
    BY <1>2, <2>1
<1>5. QED
  BY <1>3, <1>4 DEF h

\* Once retired, a query changes no more.
LEMMA RetiredStays ==
  ASSUME NEW q, CountLimit \in Nat, NEW k \in 0 .. CountLimit + 1,
         AfterAttempts(q)[k].terminal
  PROVE  Alone(q) = AfterAttempts(q)[k]
<1> DEFINE h == AfterAttempts(q)
           Same == {n \in Nat : k + n <= CountLimit + 1 => h[k + n] = h[k]}
<1>1. 0 \in Same
  BY SMT
<1>2. ASSUME NEW n \in Nat, n \in Same PROVE n + 1 \in Same
  <2> SUFFICES ASSUME k + (n + 1) <= CountLimit + 1 PROVE h[k + (n + 1)] = h[k]
    BY SMT
  <2>1. h[k + n] = h[k]
    BY <1>2
  <2>2. k + n \in 0 .. CountLimit /\ k + (n + 1) = (k + n) + 1
    BY SMT
  <2>3. h[(k + n) + 1] = AttemptAlone(q, h[k + n])
    BY <2>2, AloneUnfolds
  <2> HIDE DEF h
  <2>4. AttemptAlone(q, h[k]) = h[k]
    BY DEF AttemptAlone, h
  <2>5. QED
    BY <2>1, <2>2, <2>3, <2>4
<1>3. Nat \subseteq Same
  <2> HIDE DEF Same
  <2>1. QED
    BY <1>1, <1>2, InductionOnSet
<1>4. (CountLimit + 1) - k \in Nat /\ k + ((CountLimit + 1) - k) = CountLimit + 1
  OBVIOUS
<1>5. QED
  BY <1>3, <1>4 DEF Alone

AloneRecursion ==
  CountLimit \in Nat => \A q :
    /\ AfterAttempts(q)[0] = InitialState(q)
    /\ \A k \in 0 .. CountLimit :
         AfterAttempts(q)[k + 1] = AttemptAlone(q, AfterAttempts(q)[k])

LEMMA AloneRecursionHolds == AloneRecursion
BY AloneUnfolds DEF AloneRecursion

\* The options do not change, and so does no fate.
LEMMA SameAlone ==
  ASSUME options' = options, CountLimit \in Nat, NEW q
  PROVE  \A k \in 0 .. CountLimit + 1 : AfterAttempts(q)'[k] = AfterAttempts(q)[k]
<1> DEFINE Same == {k \in Nat : k <= CountLimit + 1 =>
                                  AfterAttempts(q)'[k] = AfterAttempts(q)[k]}
<1>1. AloneRecursion'
  BY AloneRecursionHolds, PTL
<1>2. /\ AfterAttempts(q)'[0] = InitialState(q)
      /\ \A k \in 0 .. CountLimit :
           AfterAttempts(q)'[k + 1] = AttemptAlone(q, AfterAttempts(q)[k])'
  BY <1>1 DEF AloneRecursion
<1>3. /\ AfterAttempts(q)[0] = InitialState(q)
      /\ \A k \in 0 .. CountLimit :
           AfterAttempts(q)[k + 1] = AttemptAlone(q, AfterAttempts(q)[k])
  BY AloneUnfolds
<1>4. 0 \in Same
  BY <1>2, <1>3
<1>5. ASSUME NEW k \in Nat, k \in Same PROVE k + 1 \in Same
  <2> SUFFICES ASSUME k + 1 <= CountLimit + 1
               PROVE  AfterAttempts(q)'[k + 1] = AfterAttempts(q)[k + 1]
    OBVIOUS
  <2>1. k \in 0 .. CountLimit /\ AfterAttempts(q)'[k] = AfterAttempts(q)[k]
    BY <1>5
  <2>2. AttemptAlone(q, AfterAttempts(q)[k])' = AttemptAlone(q, AfterAttempts(q)[k])
    BY <2>1 DEF AttemptAlone, AdvanceFailedQuery, NextMargin
  <2>3. QED
    BY <1>2, <1>3, <2>1, <2>2
<1>6. Nat \subseteq Same
  <2> HIDE DEF Same
  <2>1. QED
    BY <1>4, <1>5, InductionOnSet
<1>7. QED
  BY <1>6

-----------------------------------------------------------------------------
(***************************************************************************)
(* A query of the campaign is where it would be on its own.                *)
(***************************************************************************)
\* The query has missed a target in this pass, and is not advanced yet.
Pending(q) == q \in failed /\ stage \in {"execute", "advance"}

\* Its attempt was the one it would have made on its own as attempt k + 1.
MissedAlone(q, state, k) ==
  /\ k \in 0 .. CountLimit - 1
  /\ LET before == AfterAttempts(q)[k]
     IN /\ before \in QueryStates /\ ~before.terminal /\ before.attempts = k
        /\ ~Target(q, before.selected_tiles)
        /\ Alike(state, [before EXCEPT !.attempts = @ + 1])

RetiredAlone(q, state) ==
  \/ state.disposition = "engine_failure"
  \/ \E k \in 0 .. CountLimit + 1 : Alike(state, AfterAttempts(q)[k])

GoesOnAlone(q, state) ==
  state.attempts \in 0 .. CountLimit /\ Alike(state, AfterAttempts(q)[state.attempts])

AsAlone(q) ==
  IF states[q].terminal THEN RetiredAlone(q, states[q])
  ELSE IF Pending(q) THEN \E k : MissedAlone(q, states[q], k)
  ELSE GoesOnAlone(q, states[q])

AloneInv ==
  /\ \A q \in QueryIds : AsAlone(q)
  /\ stage = "done" => active = {}

\* Reached in the attempt k + 1.
LEMMA ReachedAlone ==
  ASSUME NEW q \in QueryIds, CountLimit \in Nat, NEW st \in QueryStates, NEW k \in 0 .. CountLimit,
         Alike(st, AfterAttempts(q)[k]), ~st.terminal, st.attempts # CountLimit,
         Target(q, st.selected_tiles),
         NEW new, Alike(new, [st EXCEPT !.attempts = @ + 1])
  PROVE  RetiredAlone(q, SetTerminal(new, "reached", "converged"))
<1> DEFINE before  == AfterAttempts(q)[k]
           attempt == [before EXCEPT !.attempts = @ + 1]
<1>1. AfterAttempts(q)[k + 1] = AttemptAlone(q, before) /\ k + 1 \in 0 .. CountLimit + 1
  BY AloneUnfolds
<1> HIDE DEF before
<1>2. Alike(st, before)
  BY DEF before
<1>3. AttemptAlone(q, before) = SetTerminal(attempt, "reached", "converged")
  BY <1>2 DEF AttemptAlone, Alike
<1>4. Alike(new, attempt)
  <2>1. [st EXCEPT !.attempts = @ + 1] \in QueryStates
    BY DEF Alike
  <2>2. st.attempts + 1 \in Counts
    BY <2>1 DEF QueryStates
  <2>3. Alike([st EXCEPT !.attempts = @ + 1], attempt)
    BY <1>2, <2>2 DEF Alike, QueryStates
  <2>4. QED
    BY <2>3, AlikeTransitive
<1>5. "reached" \in Dispositions /\ "converged" \in StopReasons
  BY DEF Dispositions, StopReasons
<1>6. Alike(SetTerminal(new, "reached", "converged"),
            SetTerminal(attempt, "reached", "converged"))
  BY <1>4, <1>5, AlikeTerminal
<1>7. QED
  BY <1>1, <1>3, <1>6 DEF RetiredAlone

\* Out of attempts.
LEMMA ExhaustedAlone ==
  ASSUME NEW q \in QueryIds, CountLimit \in Nat, NEW st, NEW k \in 0 .. CountLimit,
         Alike(st, AfterAttempts(q)[k]), ~st.terminal, st.attempts = CountLimit,
         NEW new, Alike(new, st), NEW stop \in StopReasons
  PROVE  RetiredAlone(q, SetTerminal(new, "identity_or_count_overflow", stop))
<1> DEFINE before == AfterAttempts(q)[k]
<1>1. AfterAttempts(q)[k + 1] = AttemptAlone(q, before) /\ k + 1 \in 0 .. CountLimit + 1
  BY AloneUnfolds
<1> HIDE DEF before
<1>2. Alike(new, before)
  BY AlikeTransitive DEF before
<1>3. AttemptAlone(q, before) = Overflow(before)
  BY <1>2 DEF AttemptAlone, Alike
<1>4. "identity_or_count_overflow" \in Dispositions /\ "converged" \in StopReasons
  BY DEF Dispositions, StopReasons
<1>5. Alike(SetTerminal(new, "identity_or_count_overflow", stop), Overflow(before))
  BY <1>2, <1>4, AlikeTerminal DEF Overflow
<1>6. QED
  BY <1>1, <1>3, <1>5 DEF RetiredAlone

LEMMA FailureAlone ==
  ASSUME NEW q, NEW st \in QueryStates, NEW stop \in StopReasons
  PROVE  /\ RetiredAlone(q, EngineFailure(st, stop)) /\ EngineFailure(st, stop).terminal
         /\ WithoutPayload(st) \in QueryStates
<1> DEFINE bare == [st EXCEPT !.distances = Nothing]
<1>1. bare \in QueryStates /\ WithoutPayload(st) \in QueryStates
  BY DEF QueryStates, WithoutPayload
<1>2. "engine_failure" \in Dispositions
  BY DEF Dispositions
<1> HIDE DEF bare
<1>3. SetTerminal(bare, "engine_failure", stop).disposition = "engine_failure"
        /\ SetTerminal(bare, "engine_failure", stop).terminal
  BY <1>1, <1>2, SetTerminalFields
<1>4. QED
  BY <1>1, <1>3 DEF EngineFailure, RetiredAlone, bare

LEMMA LaneAlone ==
  ASSUME options \in Campaigns, NEW q \in QueryIds, Sound(q, states[q]),
         ~states[q].terminal, GoesOnAlone(q, states[q]),
         NEW batch, batch[q] = Lane(q),
         NEW stop \in {"converged"} \union Failures,
         NEW statuses \in SUBSET PathStatuses
  PROVE  LET new == LaneOutcome(q, batch, stop, statuses)
         IN IF new.terminal THEN RetiredAlone(q, new)
                            ELSE \E k : MissedAlone(q, new, k)
<1> DEFINE st        == states[q]
           k         == st.attempts
           before    == AfterAttempts(q)[k]
           attempted == Attempted(st, Lane(q))
           captured  == WithPayload(attempted, Lane(q), statuses)
           new       == LaneOutcome(q, batch, stop, statuses)
<1>1. /\ stop \in StopReasons /\ "converged" \in StopReasons
      /\ CountLimit \in Nat /\ k \in 0 .. CountLimit
      /\ st \in QueryStates /\ Alike(st, before)
      /\ "identity_or_count_overflow" \in Dispositions
  BY CampaignFacts DEF StopReasons, GoesOnAlone, Sound, Dispositions
<1>2. CASE AttemptsExhausted(st)
  <2> DEFINE bare == [st EXCEPT !.distances = Nothing, !.compact_paths = Nothing]
  <2>1. Alike(bare, st)
    BY <1>1 DEF Alike, QueryStates
  <2>2. new = SetTerminal(bare, "identity_or_count_overflow", stop)
    BY <1>2 DEF LaneOutcome
  <2> HIDE DEF bare
  <2>3. RetiredAlone(q, new)
    <3>1. st.attempts = CountLimit
      BY <1>2 DEF AttemptsExhausted
    <3>2. RetiredAlone(q, SetTerminal(bare, "identity_or_count_overflow", stop))
      BY <1>1, <2>1, <3>1, ExhaustedAlone
    <3>3. QED
      BY <2>2, <3>2
  <2>4. bare \in QueryStates
    BY <2>1 DEF Alike
  <2>5. new.terminal
    BY <2>2, <2>4 DEF SetTerminal, QueryStates
  <2>6. QED
    BY <2>3, <2>5
<1>3. CASE ~AttemptsExhausted(st)
  <2>1. st.attempts # CountLimit
    BY <1>3 DEF AttemptsExhausted
  <2>2. attempted \in QueryStates
    BY <1>3, AttemptFields
  <2>3. st.attempts + 1 \in Counts
    BY <1>1, <2>1 DEF Counts
  <2>4. Alike(attempted, [st EXCEPT !.attempts = @ + 1])
    BY <1>1, <2>2, <2>3 DEF Attempted, Alike, QueryStates
  <2>5. Alike(captured, attempted)
    <3>1. attempted.expansion_generation = Lane(q).generation
      BY <2>4, <1>1 DEF Alike, Lane, QueryStates
    <3> HIDE DEF attempted
    <3>2. Lane(q).generation \in Counts
      BY <2>2, <3>1, StateFields
    <3>3. CASE options.enable_compact_paths
      <4> DEFINE paths == [present |-> TRUE, generation |-> Lane(q).generation,
                           statuses |-> statuses]
      <4>1. paths \in Paths
        BY <3>2 DEF Paths
      <4> HIDE DEF paths
      <4>2. captured = [attempted EXCEPT !.compact_paths = paths]
        BY <3>3 DEF WithPayload, paths
      <4>3. QED
        BY <2>2, <4>1, <4>2 DEF Alike, QueryStates
    <3>4. CASE ~options.enable_compact_paths
      BY <2>2, <3>4 DEF WithPayload, Alike
    <3>5. QED
      BY <3>3, <3>4
  <2>6. Alike(captured, [st EXCEPT !.attempts = @ + 1])
    BY <2>4, <2>5, AlikeTransitive
  <2>7. new = IF ~CleanConvergence(stop) THEN EngineFailure(attempted, stop)
              ELSE IF Target(q, st.selected_tiles) THEN RetireReached(captured, statuses)
              ELSE KeepMissed(captured, statuses)
    <3>1. ReachedTargets(q, batch) <=> Target(q, st.selected_tiles)
      BY DEF ReachedTargets, Target, Lane
    <3>2. QED
      BY <1>3, <3>1 DEF LaneOutcome
  <2> HIDE DEF attempted, captured, new
  <2>8. captured \in QueryStates
    BY <2>6 DEF Alike
  <2>9. CASE ~CleanConvergence(stop)
    BY <1>1, <2>2, <2>7, <2>9, FailureAlone DEF new
  <2>10. CASE CleanConvergence(stop) /\ Target(q, st.selected_tiles)
    <3> DEFINE taken == IF options.enable_compact_paths
                          THEN [captured EXCEPT !.distances = Nothing] ELSE captured
               end   == SetTerminal(taken, "reached", "converged")
    <3>1. Alike(taken, captured)
      BY <2>8 DEF Alike, QueryStates
    <3>2. Alike(taken, [st EXCEPT !.attempts = @ + 1])
      BY <2>6, <3>1, AlikeTransitive
    <3>3. new \in {end, EngineFailure(WithoutPayload(taken), "converged"),
                   EngineFailure(taken, "converged")}
      BY <2>7, <2>10 DEF RetireReached
    <3> HIDE DEF taken
    <3>4. RetiredAlone(q, end)
      <4>1. Target(q, st.selected_tiles) /\ ~st.terminal
        BY <2>10
      <4>2. QED
        BY <1>1, <2>1, <3>2, <4>1, ReachedAlone
    <3>5. taken \in QueryStates /\ "reached" \in Dispositions
      BY <3>1 DEF Alike, Dispositions
    <3>6. end.terminal
      BY <1>1, <3>5, SetTerminalFields
    <3>7. /\ WithoutPayload(taken) \in QueryStates
          /\ RetiredAlone(q, EngineFailure(taken, "converged"))
          /\ EngineFailure(taken, "converged").terminal
      BY <1>1, <3>5, FailureAlone
    <3>8. /\ RetiredAlone(q, EngineFailure(WithoutPayload(taken), "converged"))
          /\ EngineFailure(WithoutPayload(taken), "converged").terminal
      BY <1>1, <3>7, FailureAlone
    <3> HIDE DEF end
    <3>9. QED
      BY <3>3, <3>4, <3>6, <3>7, <3>8 DEF new
  <2>11. CASE CleanConvergence(stop) /\ ~Target(q, st.selected_tiles)
    <3>1. new \in {captured, EngineFailure(WithoutPayload(captured), "converged"),
                   EngineFailure(captured, "converged")}
      BY <2>7, <2>11 DEF KeepMissed
    <3>2. /\ WithoutPayload(captured) \in QueryStates
          /\ RetiredAlone(q, EngineFailure(captured, "converged"))
          /\ EngineFailure(captured, "converged").terminal
      BY <1>1, <2>8, FailureAlone
    <3>3. /\ RetiredAlone(q, EngineFailure(WithoutPayload(captured), "converged"))
          /\ EngineFailure(WithoutPayload(captured), "converged").terminal
      BY <1>1, <3>2, FailureAlone
    <3>4. ~captured.terminal
      BY <1>1, <2>6 DEF Alike, QueryStates
    <3>5. MissedAlone(q, captured, k)
      <4>1. k \in 0 .. CountLimit - 1
        BY <1>1, <2>1
      <4>2. before \in QueryStates /\ ~before.terminal /\ before.attempts = k
              /\ ~Target(q, before.selected_tiles)
        BY <1>1, <2>11 DEF Alike
      <4>3. Alike([st EXCEPT !.attempts = @ + 1], [before EXCEPT !.attempts = @ + 1])
        <5> HIDE DEF before
        <5>1. QED
          BY <1>1, <2>3 DEF Alike, QueryStates
      <4>4. Alike(captured, [before EXCEPT !.attempts = @ + 1])
        BY <2>6, <4>3, AlikeTransitive
      <4>5. QED
        BY <4>1, <4>2, <4>4 DEF MissedAlone
    <3>6. QED
      BY <3>1, <3>2, <3>3, <3>4, <3>5 DEF new
  <2>12. QED
    BY <2>9, <2>10, <2>11
<1>4. QED
  BY <1>2, <1>3

\* A missed query that is advanced.
LEMMA AdvancedAlone ==
  ASSUME options \in Campaigns, NEW q \in QueryIds,
         Sound(q, states[q]), Missed(q, states[q]),
         NEW k, MissedAlone(q, states[q], k)
  PROVE  IF Advanced(q).terminal THEN RetiredAlone(q, Advanced(q))
                                 ELSE GoesOnAlone(q, Advanced(q))
<1> DEFINE st      == states[q]
           before  == AfterAttempts(q)[k]
           attempt == [before EXCEPT !.attempts = @ + 1]
           next    == AdvanceFailedQuery(st)
           after   == AfterAttempts(q)[k + 1]
           new     == Advanced(q)
<1>1. /\ CountLimit \in Nat /\ k \in 0 .. CountLimit - 1
      /\ k \in 0 .. CountLimit /\ k # CountLimit
      /\ k + 1 \in 0 .. CountLimit + 1 /\ k + 1 \in 0 .. CountLimit
  BY CampaignFacts DEF MissedAlone
<1>2. after = AttemptAlone(q, before)
  BY <1>1, AloneUnfolds
<1>3. AttemptAlone(q, before) = AdvanceFailedQuery(attempt)
  BY <1>1 DEF MissedAlone, AttemptAlone
<1>4. Alike(st, attempt)
  BY DEF MissedAlone
<1>5. Alike(next, after)
  BY <1>2, <1>3, <1>4, AlikeAdvance
<1>6. st.attempts = k + 1
  <2> HIDE DEF st
  <2>1. st.attempts = attempt.attempts
    BY <1>4 DEF Alike
  <2>2. before \in QueryStates /\ before.attempts = k
    BY DEF MissedAlone
  <2>3. attempt.attempts = k + 1
    BY <2>2 DEF QueryStates
  <2>4. QED
    BY <2>1, <2>3
<1>7. next.attempts = st.attempts /\ next \in QueryStates
  BY AdvanceIsSound DEF Sound
<1> HIDE DEF next, after
<1>8. new \in {next, WithoutPayload(next), [next EXCEPT !.disposition = "engine_failure"]}
  BY DEF Advanced, next
<1>9. ~next.terminal => new = next
  BY DEF Advanced, next
<1>10. Alike(WithoutPayload(next), after)
  BY <1>5, <1>7 DEF Alike, WithoutPayload, QueryStates
<1>11. [next EXCEPT !.disposition = "engine_failure"].disposition = "engine_failure"
  BY <1>7 DEF QueryStates
<1>12. CASE ~next.terminal
  <2>1. Alike(new, after) /\ new.attempts = k + 1
    BY <1>5, <1>6, <1>7, <1>9, <1>12
  <2>2. GoesOnAlone(q, new)
    BY <1>1, <2>1 DEF GoesOnAlone, after
  <2>3. QED
    BY <1>9, <1>12, <2>2
<1>13. CASE next.terminal
  <2>1. new.terminal
    BY <1>7, <1>8, <1>13 DEF WithoutPayload, QueryStates
  <2>2. RetiredAlone(q, next) /\ RetiredAlone(q, WithoutPayload(next))
    BY <1>1, <1>5, <1>10 DEF RetiredAlone, after
  <2>3. RetiredAlone(q, [next EXCEPT !.disposition = "engine_failure"])
    BY <1>11 DEF RetiredAlone
  <2>4. QED
    BY <1>8, <2>1, <2>2, <2>3
<1>14. QED
  BY <1>12, <1>13

-----------------------------------------------------------------------------
(***************************************************************************)
(* The steps of the loop, and what they do to a query's fate.              *)
(***************************************************************************)
\* A query is as it would be on its own after the step.
LEMMA AsAloneAfter ==
  ASSUME options' = options, CountLimit \in Nat, NEW q \in QueryIds,
         IF states'[q].terminal THEN RetiredAlone(q, states'[q])
         ELSE IF Pending(q)' THEN \E k : MissedAlone(q, states'[q], k)
         ELSE GoesOnAlone(q, states'[q])
  PROVE  AsAlone(q)'
<1> DEFINE st == states'[q]
<1>1. /\ RetiredAlone(q, st) => RetiredAlone(q, states[q])'
      /\ GoesOnAlone(q, st) => GoesOnAlone(q, states[q])'
      /\ \A k : MissedAlone(q, st, k) => MissedAlone(q, states[q], k)'
  <2>1. \A k \in 0 .. CountLimit + 1 : AfterAttempts(q)'[k] = AfterAttempts(q)[k]
    BY SameAlone
  <2>2. \A k \in 0 .. CountLimit : k \in 0 .. CountLimit + 1
    OBVIOUS
  <2>3. \A k \in 0 .. CountLimit - 1 : k \in 0 .. CountLimit + 1
    OBVIOUS
  <2>4. QED
    BY <2>1, <2>2, <2>3 DEF RetiredAlone, GoesOnAlone, MissedAlone
<1>2. QED
  BY <1>1 DEF AsAlone

\* A step that leaves the query alone.
LEMMA AsAloneStill ==
  ASSUME options' = options, CountLimit \in Nat, NEW q \in QueryIds,
         AsAlone(q), states'[q] = states[q],
         states[q].terminal \/ (Pending(q)' <=> Pending(q))
  PROVE  AsAlone(q)'
BY AsAloneAfter DEF AsAlone

LEMMA InitAlone == Init => AloneInv
<1> SUFFICES ASSUME Init PROVE AloneInv
  OBVIOUS
<1>1. IInv
  BY InitInv
<1>2. CountLimit \in Nat
  BY <1>1, CampaignFacts DEF IInv, PassInv
<1>3. ASSUME NEW q \in QueryIds PROVE AsAlone(q)
  <2> DEFINE st == InitialState(q)
  <2>1. states[q] = st
    BY DEF Init
  <2>2. st \in QueryStates
    BY <1>1, <2>1 DEF IInv, Sound
  <2>3. Alike(st, st)
    BY <2>2 DEF Alike
  <2>4. st.attempts = 0 /\ ~st.terminal
    BY DEF InitialState
  <2>5. AfterAttempts(q)[0] = st
    BY <1>2, AloneUnfolds
  <2> HIDE DEF st
  <2>6. 0 \in 0 .. CountLimit
    BY <1>2
  <2>7. GoesOnAlone(q, st)
    BY <2>3, <2>4, <2>5, <2>6 DEF GoesOnAlone
  <2>8. ~Pending(q)
    BY DEF Init, Pending
  <2>9. QED
    BY <2>1, <2>4, <2>7, <2>8 DEF AsAlone
<1>4. stage = "done" => active = {}
  BY DEF Init
<1>5. QED
  BY <1>3, <1>4 DEF AloneInv

LEMMA PlanAlone == IInv /\ AloneInv /\ PlanPass => AloneInv'
<1> SUFFICES ASSUME IInv, AloneInv, PlanPass PROVE AloneInv'
  OBVIOUS
<1>1. /\ stage = "plan" /\ options \in Campaigns /\ CountLimit \in Nat
      /\ active \subseteq QueryIds /\ \A q \in active : ~states[q].terminal
  BY CampaignFacts DEF IInv, PassInv, PlanInv, PlanPass
<1>2. failed' = {} /\ stage' = "execute" /\ options' = options /\ states' = states
  BY <1>1 DEF PlanPass
<1>3. ASSUME NEW q \in QueryIds PROVE AsAlone(q)'
  <2>1. ~Pending(q) /\ ~Pending(q)'
    BY <1>1, <1>2 DEF Pending
  <2>2. AsAlone(q)
    BY DEF AloneInv
  <2>3. QED
    BY <1>1, <1>2, <2>1, <2>2, AsAloneStill
<1>4. QED
  BY <1>2, <1>3 DEF AloneInv

LEMMA ExecuteAlone == IInv /\ AloneInv /\ ExecuteBatch => AloneInv'
<1> SUFFICES ASSUME IInv, AloneInv, ExecuteBatch PROVE AloneInv'
  OBVIOUS
<1>1. /\ stage = "execute" /\ options \in Campaigns /\ options' = options
      /\ CountLimit \in Nat /\ active \subseteq QueryIds
  BY CampaignFacts DEF IInv, PassInv, PlanInv, ExecuteBatch
<1>2. \A b \in plan :
        /\ DOMAIN b \subseteq active \ failed
        /\ \A q \in DOMAIN b : b[q] = Lane(q) /\ ~states[q].terminal
  BY <1>1 DEF IInv, PlanInv
<1>3. PICK batch \in plan, stop \in {"converged"} \union Failures :
        \E statuses \in [DOMAIN batch -> IF options.enable_compact_paths
                                           THEN Payloads ELSE {{}}] :
          IF \A q \in DOMAIN batch : LaneMatches(q, batch)
            THEN /\ states' = [q \in QueryIds |->
                                 IF q \in DOMAIN batch
                                   THEN LaneOutcome(q, batch, stop, statuses[q])
                                   ELSE states[q]]
                 /\ failed' = failed \union {q \in DOMAIN batch : ~states'[q].terminal}
                 /\ stage' = IF plan' = {} THEN "advance" ELSE "execute"
            ELSE stage' = "aborted" /\ UNCHANGED <<states, failed, plan>>
  BY DEF ExecuteBatch
<1> DEFINE lanes == DOMAIN batch
<1>4. \A q \in lanes : LaneMatches(q, batch)
  BY <1>2 DEF LaneMatches, Lane
<1>5. PICK statuses \in [lanes -> IF options.enable_compact_paths
                                    THEN Payloads ELSE {{}}] :
        /\ states' = [q \in QueryIds |->
                        IF q \in lanes THEN LaneOutcome(q, batch, stop, statuses[q])
                                       ELSE states[q]]
        /\ failed' = failed \union {q \in lanes : ~states'[q].terminal}
        /\ stage' = IF plan' = {} THEN "advance" ELSE "execute"
  BY <1>3, <1>4
<1>6. lanes \subseteq active \ failed
  BY <1>2
<1> HIDE DEF lanes
<1>7. stage' \in {"execute", "advance"}
  BY <1>5
<1>8. ASSUME NEW q \in QueryIds \ lanes PROVE AsAlone(q)'
  <2>1. states'[q] = states[q] /\ (Pending(q)' <=> Pending(q))
    BY <1>1, <1>5, <1>7 DEF Pending
  <2>2. AsAlone(q)
    BY DEF AloneInv
  <2>3. QED
    BY <1>1, <2>1, <2>2, AsAloneStill
<1>9. ASSUME NEW q \in lanes PROVE AsAlone(q)'
  <2> DEFINE new == LaneOutcome(q, batch, stop, statuses[q])
  <2>1. /\ q \in QueryIds /\ q \notin failed
        /\ batch[q] = Lane(q) /\ ~states[q].terminal
    BY <1>1, <1>2, <1>6 DEF lanes
  <2>2. Sound(q, states[q]) /\ GoesOnAlone(q, states[q])
    BY <2>1 DEF IInv, AloneInv, AsAlone, Pending
  <2>3. statuses[q] \in SUBSET PathStatuses
    BY <1>1, CampaignFacts
  <2>4. IF new.terminal THEN RetiredAlone(q, new) ELSE \E k : MissedAlone(q, new, k)
    BY <1>1, <2>1, <2>2, <2>3, LaneAlone
  <2>5. states'[q] = new
    BY <1>5, <2>1
  <2>6. ~states'[q].terminal => Pending(q)'
    BY <1>5, <1>7 DEF Pending
  <2> HIDE DEF new
  <2>7. QED
    BY <1>1, <2>1, <2>4, <2>5, <2>6, AsAloneAfter
<1>10. QED
  BY <1>7, <1>8, <1>9 DEF AloneInv

LEMMA AdvanceAlone == IInv /\ AloneInv /\ AdvanceFailedQueries => AloneInv'
<1> SUFFICES ASSUME IInv, AloneInv, AdvanceFailedQueries PROVE AloneInv'
  OBVIOUS
<1>1. /\ stage = "advance" /\ options \in Campaigns /\ options' = options
      /\ CountLimit \in Nat /\ failed \subseteq QueryIds
      /\ \A q \in failed : Missed(q, states[q])
  BY CampaignFacts DEF IInv, PassInv, PlanInv, AdvanceFailedQueries
<1>2. /\ states' = [q \in QueryIds |-> IF q \in failed THEN Advanced(q) ELSE states[q]]
      /\ failed' = failed /\ stage' \in {"aborted", "done", "plan"}
      /\ stage' = "done" => active' = {}
  BY DEF AdvanceFailedQueries
<1>3. ASSUME NEW q \in QueryIds PROVE ~Pending(q)'
  BY <1>2 DEF Pending
<1>4. ASSUME NEW q \in QueryIds \ failed PROVE AsAlone(q)'
  <2>1. states'[q] = states[q] /\ ~Pending(q) /\ ~Pending(q)'
    BY <1>2, <1>3 DEF Pending
  <2>2. AsAlone(q)
    BY DEF AloneInv
  <2>3. QED
    BY <1>1, <2>1, <2>2, AsAloneStill
<1>5. ASSUME NEW q \in failed PROVE AsAlone(q)'
  <2>1. q \in QueryIds /\ Pending(q) /\ ~Pending(q)'
    BY <1>1, <1>3 DEF Pending
  <2>2. Sound(q, states[q]) /\ Missed(q, states[q]) /\ ~states[q].terminal
    BY <1>1, <2>1 DEF IInv, Missed
  <2>3. PICK k : MissedAlone(q, states[q], k)
    BY <2>1, <2>2 DEF AloneInv, AsAlone
  <2> DEFINE new == Advanced(q)
  <2>4. IF new.terminal THEN RetiredAlone(q, new) ELSE GoesOnAlone(q, new)
    BY <1>1, <2>1, <2>2, <2>3, AdvancedAlone
  <2>5. states'[q] = new
    BY <1>2, <2>1
  <2> HIDE DEF new
  <2>6. QED
    BY <1>1, <2>1, <2>4, <2>5, AsAloneAfter
<1>6. QED
  BY <1>2, <1>4, <1>5 DEF AloneInv

LEMMA NextAlone == IInv /\ AloneInv /\ [Next]_vars => AloneInv'
<1> SUFFICES ASSUME IInv, AloneInv, [Next]_vars PROVE AloneInv'
  OBVIOUS
<1>1. CASE PlanPass
  BY <1>1, PlanAlone
<1>2. CASE ExecuteBatch
  BY <1>2, ExecuteAlone
<1>3. CASE AdvanceFailedQueries
  BY <1>3, AdvanceAlone
<1>4. CASE UNCHANGED vars
  <2>1. /\ options' = options /\ states' = states /\ active' = active
        /\ failed' = failed /\ stage' = stage
    BY <1>4 DEF vars
  <2>2. CountLimit \in Nat
    BY CampaignFacts DEF IInv, PassInv
  <2>3. ASSUME NEW q \in QueryIds PROVE AsAlone(q)'
    <3>1. AsAlone(q) /\ states'[q] = states[q] /\ (Pending(q)' <=> Pending(q))
      BY <2>1 DEF AloneInv, Pending
    <3>2. QED
      BY <2>1, <2>2, <3>1, AsAloneStill
  <2>4. QED
    BY <2>1, <2>3 DEF AloneInv
<1>5. QED
  BY <1>1, <1>2, <1>3, <1>4 DEF Next, Terminated

-----------------------------------------------------------------------------
(***************************************************************************)
(* Theorems                                                                *)
(***************************************************************************)
\* The inductive invariant: between two steps of the loop every query is
\* sound, and every query of the pass is planned, has missed or is retired.
THEOREM Invariant == Spec => []IInv
<1>1. Init => IInv
  BY InitInv
<1>2. IInv /\ [Next]_vars => IInv'
  BY NextInv
<1>3. QED
  BY <1>1, <1>2, PTL DEF Spec

\* No counter of a query or of the loop leaves its machine word, and a query is
\* retired exactly when it has an outcome.
THEOREM TypeCorrect == Spec => []TypeOK
<1>1. IInv => TypeOK
  <2> SUFFICES ASSUME IInv PROVE TypeOK
    OBVIOUS
  <2>1. ASSUME NEW q \in QueryIds
        PROVE  LET state == states[q]
               IN /\ state.selected_tiles \subseteq Tiles
                  /\ {state.expansion_generation, state.attempts,
                      state.scheduled_expansions, state.total_expansions}
                       \subseteq Counts
                  /\ state.intended_margin \in 0 .. MarginLimit
                  /\ {state.fallback_used, state.terminal} \subseteq BOOLEAN
                  /\ state.disposition \in Dispositions
                  /\ state.terminal <=> state.disposition # "none"
    <3>1. states[q] \in QueryStates /\ (states[q].terminal <=> states[q].disposition # "none")
      BY DEF IInv, Sound
    <3>2. QED
      BY <3>1, StateFields
  <2>2. QED
    BY <2>1 DEF IInv, PassInv, TypeOK
<1>2. QED
  BY <1>1, Invariant, PTL

\* What advance_failed_query and the lane loop say of a query is true of the
\* graph, however its box grew.
THEOREM VerdictsHold == Spec => []VerdictsAreTrue
<1>1. IInv => VerdictsAreTrue
  BY DEF IInv, Sound, TrueDisposition, VerdictsAreTrue
<1>2. QED
  BY <1>1, Invariant, PTL

\* install_restart leaves nothing of the attempt that failed.
THEOREM EvidenceStaysCurrent == Spec => []EvidenceIsCurrent
<1>1. IInv => EvidenceIsCurrent
  BY DEF IInv, Sound, CurrentEvidence, EvidenceIsCurrent
<1>2. QED
  BY <1>1, Invariant, PTL

\* None of the exceptions of the loop can be thrown while every engine run
\* returns what its own module promises.
THEOREM LoopNeverAborts == Spec => []NeverAborts
<1>1. IInv => NeverAborts
  BY DEF IInv, PassInv, NeverAborts
<1>2. QED
  BY <1>1, Invariant, PTL

\* Companions in a batch, the order of the batches and the failures of other
\* queries leave no trace in what the campaign says of a query.
THEOREM BatchesLeaveNoTrace == Spec => []BatchingIsInvisible
<1>1. Init => IInv /\ AloneInv
  BY InitInv, InitAlone
<1>2. IInv /\ AloneInv /\ [Next]_vars => IInv' /\ AloneInv'
  BY NextInv, NextAlone
<1>3. IInv /\ AloneInv => BatchingIsInvisible
  <2> SUFFICES ASSUME IInv, AloneInv, stage = "done", NEW q \in QueryIds,
                      states[q].disposition # "engine_failure"
               PROVE  Fate(states[q]) = Fate(Alone(q))
    BY DEF BatchingIsInvisible
  <2>1. states[q].terminal /\ CountLimit \in Nat
    BY CampaignFacts DEF IInv, PassInv, AloneInv
  <2>2. PICK k \in 0 .. CountLimit + 1 : Alike(states[q], AfterAttempts(q)[k])
    BY <2>1 DEF AloneInv, AsAlone, RetiredAlone
  <2>3. AfterAttempts(q)[k].terminal
    BY <2>1, <2>2 DEF Alike
  <2>4. Alone(q) = AfterAttempts(q)[k]
    BY <2>1, <2>3, RetiredStays
  <2>5. QED
    BY <2>2, <2>4, AlikeFate
<1>4. QED
  BY <1>1, <1>2, <1>3, PTL DEF Spec
=============================================================================
