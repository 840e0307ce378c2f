----------------------------- MODULE BatchPlanner -----------------------------
(***************************************************************************)
(* The greedy planner (src/src/batch_plan.cpp) that puts queries with      *)
(* overlapping boxes in the lanes of one batch.  The largest query left    *)
(* anchors a batch; the query that overlaps it most joins, as long as the  *)
(* tiles in common and the inflation of the union pass two thresholds.     *)
(*                                                                         *)
(* Features are indexed by the query's identity: the code sorts them by it *)
(* and every order it uses ends with it, so the index in that array says   *)
(* nothing more.  Lanes past the last query of a batch are not written.    *)
(* Counts are exact: a checked addition that throws is out of bounds.      *)
(***************************************************************************)
EXTENDS TileLayout, GpuApi

\* validate_batch_planner_policy; the lane widths it admits are 1, 8, 16, 32.
ValidPolicy(policy) ==
  /\ policy.jaccard.denominator # 0
  /\ policy.jaccard.numerator <= policy.jaccard.denominator
  /\ policy.inflation.denominator # 0
  /\ policy.inflation.numerator >= policy.inflation.denominator

-----------------------------------------------------------------------------
(***************************************************************************)
(* BatchQueryFeatures                                                      *)
(***************************************************************************)
TerminalTiles(terminals) == {OwnerTile[v] : v \in terminals}

\* make_batch_query_features, of one RouteQuery.
QueryFeatures(query) ==
  [expansion_generation   |-> query.expansion_generation,
   source_count           |-> Cardinality(query.sources),
   target_count           |-> Cardinality(query.targets),
   source_tiles           |-> TerminalTiles(query.sources),
   target_tiles           |-> TerminalTiles(query.targets),
   selected_tiles         |-> query.selected_tiles,
   selected_vertex_count  |-> SelectedVertexCount(query.selected_tiles),
   selected_edge_estimate |-> SelectedEdgeCount(query.selected_tiles)]

ValidFeatures(f) ==
  /\ f.source_tiles # {} /\ Cardinality(f.source_tiles) <= f.source_count
  /\ f.target_tiles # {} /\ Cardinality(f.target_tiles) <= f.target_count
  /\ f.source_tiles \union f.target_tiles \subseteq f.selected_tiles
  /\ f.selected_tiles \subseteq Tiles
  /\ f.selected_vertex_count = SelectedVertexCount(f.selected_tiles)
  /\ f.selected_vertex_count # 0
  /\ f.selected_edge_estimate = SelectedEdgeCount(f.selected_tiles)

-----------------------------------------------------------------------------
(***************************************************************************)
(* Orders                                                                  *)
(***************************************************************************)
\* The terms of two continued fractions are compared until they differ.
ContinuedOrder[a \in Nat, b \in Nat, c \in Nat, d \in Nat] ==
  IF a \div b # c \div d
    THEN IF a \div b < c \div d THEN -1 ELSE 1
  ELSE IF a % b = 0 \/ c % d = 0
    THEN IF a % b = c % d THEN 0 ELSE IF a % b = 0 THEN -1 ELSE 1
  ELSE -ContinuedOrder[b, a % b, d, c % d]

\* Fault variant, which no specification uses: the comparison
\* forgets that every step turns it around.
FaultCompareFractions(left, right) ==
  LET Order[a \in Nat, b \in Nat, c \in Nat, d \in Nat] ==
        IF a \div b # c \div d
          THEN IF a \div b < c \div d THEN -1 ELSE 1
        ELSE IF a % b = 0 \/ c % d = 0
          THEN IF a % b = c % d THEN 0 ELSE IF a % b = 0 THEN -1 ELSE 1
        ELSE Order[b, a % b, d, c % d]
  IN Order[left.numerator, left.denominator,
           right.numerator, right.denominator]

CompareFractions(left, right) ==
  ContinuedOrder[left.numerator, left.denominator,
                 right.numerator, right.denominator]

FractionAtLeast(value, bound) == CompareFractions(value, bound) >= 0
FractionAtMost(value, bound)  == CompareFractions(value, bound) <= 0

AnchorPrecedes(features, q, r) ==
  LET Key(p) == <<-features[p].selected_edge_estimate,
                  -features[p].selected_vertex_count,
                  -Cardinality(features[p].selected_tiles),
                  features[p].expansion_generation,
                  p>>
  IN TupleLess(Key(q), Key(r))

CandidatePrecedes(left, right) ==
  LET jaccard   == CompareFractions(left.jaccard, right.jaccard)
      inflation == CompareFractions(left.projected_inflation,
                                    right.projected_inflation)
  IN IF jaccard # 0 THEN jaccard > 0
     ELSE IF left.terminal_overlap # right.terminal_overlap
       THEN left.terminal_overlap > right.terminal_overlap
     ELSE IF inflation # 0 THEN inflation < 0
     ELSE TupleLess(left.costs, right.costs)

-----------------------------------------------------------------------------
(***************************************************************************)
(* build_plan.  The lanes of a batch are a sequence of queries, the anchor *)
(* first.                                                                  *)
(***************************************************************************)
SumOver(features, queries, Value(_)) ==
  MapThenSumSet(LAMBDA q : Value(features[q]), queries)

LanesOf(lanes) == {lanes[n] : n \in DOMAIN lanes}

UnionTiles(features, queries) ==
  UNION {features[q].selected_tiles : q \in queries}

\* tile_set_jaccard
TileSetJaccard(left, right) ==
  IF left \union right = {} THEN [numerator |-> 1, denominator |-> 1]
  ELSE [numerator   |-> Cardinality(left \intersect right),
        denominator |-> Cardinality(left \union right)]

\* batch_union_tile_inflation
UnionTileInflation(features, queries) ==
  LET Size(f) == Cardinality(f.selected_tiles)
  IN [numerator   |-> Cardinality(queries)
                        * Cardinality(UnionTiles(features, queries)),
      denominator |-> SumOver(features, queries, Size)]

AbsoluteDifference(left, right) ==
  IF left < right THEN right - left ELSE left - right

MakeCandidate(features, lanes, q) ==
  LET query     == features[q]
      anchor    == features[lanes[1]]
      current   == LanesOf(lanes)
      union     == UnionTiles(features, current)
      projected == union \union query.selected_tiles
      sources   == UNION {features[r].source_tiles : r \in current}
      targets   == UNION {features[r].target_tiles : r \in current}
  IN [jaccard             |-> TileSetJaccard(union, query.selected_tiles),
      terminal_overlap    |->
        Cardinality(sources \intersect query.source_tiles)
          + Cardinality(targets \intersect query.target_tiles),
      projected_inflation |-> UnionTileInflation(features, current \union {q}),
      costs               |->
        <<SelectedEdgeCount(projected),
          SelectedVertexCount(projected),
          Cardinality(projected) - Cardinality(union),
          AbsoluteDifference(query.expansion_generation,
                             anchor.expansion_generation),
          AbsoluteDifference(query.source_count, anchor.source_count),
          AbsoluteDifference(query.target_count, anchor.target_count),
          q>>]

Admissible(candidate, policy) ==
  /\ FractionAtLeast(candidate.jaccard, policy.jaccard)
  /\ FractionAtMost(candidate.projected_inflation, policy.inflation)

Admitted(features, lanes, waiting, policy) ==
  {q \in waiting : Admissible(MakeCandidate(features, lanes, q), policy)}

\* One turn of the inner loop.
JoinBest(features, lanes, waiting, policy) ==
  LET admitted == Admitted(features, lanes, waiting, policy)
      Candidate(q) == MakeCandidate(features, lanes, q)
  IN IF admitted = {} THEN lanes
     ELSE Append(lanes,
                 CHOOSE q \in admitted : \A r \in admitted \ {q} :
                   CandidatePrecedes(Candidate(q), Candidate(r)))

\* The lanes of the next batch.
FillLanes(features, waiting, policy) ==
  LET anchor == CHOOSE q \in waiting : \A r \in waiting \ {q} :
                  AnchorPrecedes(features, q, r)
      filled[n \in 1 .. LaneCount] ==
        IF n = 1 THEN <<anchor>>
        ELSE LET lanes == filled[n - 1]
             IN JoinBest(features, lanes, waiting \ LanesOf(lanes), policy)
  IN filled[LaneCount]

MakeEntry(features, lanes) ==
  LET queries     == LanesOf(lanes)
      union       == UnionTiles(features, queries)
      VertexShare(f) == f.selected_vertex_count
      EdgeShare(f)   == f.selected_edge_estimate
      valid       == 0 .. Len(lanes) - 1
  IN [valid_lane_mask                |-> valid,
      query_ids_by_lane              |-> [l \in valid |-> lanes[l + 1]],
      expansion_generations_by_lane  |->
        [l \in valid |-> features[lanes[l + 1]].expansion_generation],
      union_tiles                    |-> union,
      union_tile_lane_masks          |->
        [t \in union |->
           {l \in valid : t \in features[lanes[l + 1]].selected_tiles}],
      union_vertex_count             |-> SelectedVertexCount(union),
      union_edge_estimate            |-> SelectedEdgeCount(union),
      selected_lane_vertex_count     |-> SumOver(features, queries, VertexShare),
      selected_lane_edge_estimate    |-> SumOver(features, queries, EdgeShare)]

BuildPlan(features, policy) ==
  LET Batched(batches) == UNION {LanesOf(batches[n]) : n \in DOMAIN batches}
      batched[n \in 0 .. Cardinality(DOMAIN features)] ==
        IF n = 0 THEN <<>>
        ELSE LET batches == batched[n - 1]
                 waiting == DOMAIN features \ Batched(batches)
             IN IF waiting = {} THEN batches
                ELSE Append(batches, FillLanes(features, waiting, policy))
      batches == batched[Cardinality(DOMAIN features)]
  IN [n \in DOMAIN batches |-> MakeEntry(features, batches[n])]

-----------------------------------------------------------------------------
(***************************************************************************)
(* validate_batch_plan, which ends by building the plan anew.              *)
(***************************************************************************)
EntryQueries(entry) ==
  {entry.query_ids_by_lane[l] : l \in entry.valid_lane_mask}

ValidEntry(features, entry) ==
  LET ids     == entry.query_ids_by_lane
      valid   == entry.valid_lane_mask
      union   == UnionTiles(features, EntryQueries(entry))
      VertexShare(f) == f.selected_vertex_count
      EdgeShare(f)   == f.selected_edge_estimate
  IN /\ valid # {} /\ valid \subseteq Lanes
     /\ valid = 0 .. Cardinality(valid) - 1
     /\ EntryQueries(entry) \subseteq DOMAIN features
     /\ \A l, k \in valid : ids[l] = ids[k] => l = k
     /\ \A l \in valid : entry.expansion_generations_by_lane[l]
                           = features[ids[l]].expansion_generation
     /\ entry.union_tiles = union
     /\ \A t \in union : entry.union_tile_lane_masks[t]
                           = {l \in valid : t \in features[ids[l]].selected_tiles}
     /\ entry.union_vertex_count = SelectedVertexCount(union)
     /\ entry.union_edge_estimate = SelectedEdgeCount(union)
     /\ entry.selected_lane_vertex_count
          = SumOver(features, EntryQueries(entry), VertexShare)
     /\ entry.selected_lane_edge_estimate
          = SumOver(features, EntryQueries(entry), EdgeShare)

ValidBatchPlan(features, policy, batches) ==
  /\ ValidPolicy(policy)
  /\ DOMAIN features # {}
  /\ \A q \in DOMAIN features : ValidFeatures(features[q])
  /\ \A n \in DOMAIN batches : ValidEntry(features, batches[n])
  /\ \A m, n \in DOMAIN batches :
       m # n => EntryQueries(batches[m]) \intersect EntryQueries(batches[n]) = {}
  /\ UNION {EntryQueries(batches[n]) : n \in DOMAIN batches} = DOMAIN features
  /\ batches = BuildPlan(features, policy)
=============================================================================
