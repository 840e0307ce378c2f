-------------------------- MODULE MCBatchedExpansion --------------------------
(***************************************************************************)
(* Small instances of BatchedExpansion for TLC.                            *)
(***************************************************************************)
EXTENDS BatchedExpansion

(***************************************************************************)
(* A corridor of tiles at x = 0 .. 7, an island at x = 12 that only the    *)
(* whole region covers, and the spill tile 9.  Vertex v is in tile v; 10   *)
(* is in the spill tile too and 11 in tile 3.                              *)
(***************************************************************************)
CorridorX     == [t \in 0 .. 8 |-> IF t = 8 THEN 12 ELSE t]
CorridorY     == [t \in 0 .. 8 |-> 0]
CorridorOwner == [v \in 0 .. 11 |-> IF v = 10 THEN 9 ELSE IF v = 11 THEN 3 ELSE v]

\* 0 -> 5 -> 1 leaves the first box of query 1 by four tiles.  The spill query
\* 2, 9 -> 3 -> 0 -> 11 -> 10, finds its box at tile 3 and leaves it by three.
\* Query 3 needs the island, and nothing leads to the target 4 of query 4.
CorridorSource      == <<0, 5, 9, 3, 0, 11, 2, 8>>
CorridorDestination == <<5, 1, 3, 0, 11, 10, 8, 6>>
CorridorQueries     == 1 .. 4
CorridorFrom        == <<{0}, {9}, {2}, {3, 4}>>
CorridorTo          == <<{1}, {10}, {6}, {3, 2}>>

Campaign(kind, ring, small, limits, policies, compact) ==
  [kind : {kind}, fixed_ring_size : {ring},
   hybrid_small_expansion_count : {small}, maximum_expansions : limits,
   terminal_policy : policies, enable_compact_paths : {compact},
   returns_distances : {TRUE}]

Policies == {"full_region_fallback", "explicit_failure"}

\* Compact paths with the third; a ring of five passes the margin's limit.
AllCampaigns ==
       Campaign("one_geometric_ring", 0, 0, {2, 5}, {"explicit_failure"}, FALSE)
  \union Campaign("fixed_larger_ring", 2, 0, {1}, Policies, FALSE)
  \union Campaign("fixed_larger_ring", 3, 0, {1}, {"full_region_fallback"}, TRUE)
  \union Campaign("fixed_larger_ring", 5, 0, {5}, {"explicit_failure"}, FALSE)
  \union Campaign("doubling_xy_margins", 0, 0, {5}, {"full_region_fallback"}, FALSE)
  \union Campaign("hybrid_small_then_doubling", 0, 3, {5}, {"explicit_failure"}, FALSE)

HybridCampaigns ==
  Campaign("hybrid_small_then_doubling", 0, 3, {6}, Policies, FALSE)

CompactCampaigns ==
  Campaign("fixed_larger_ring", 3, 0, {1}, {"explicit_failure"}, TRUE)

FromZero       == [q \in CorridorQueries |-> 0]
FromLate       == [q \in CorridorQueries |-> IF q = 2 THEN 3 ELSE 0]
CompactQueries == {1, 4}
Compact(f)     == [q \in CompactQueries |-> f[q]]
CompactFrom    == Compact(CorridorFrom)
CompactTo      == Compact(CorridorTo)
CompactZero    == Compact(FromZero)
SomePayloads   == {{"complete"}, {"unreachable"},
                   {"unreachable", "path_length_overflow"}}
=============================================================================
