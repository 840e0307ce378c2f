-------------------------- MODULE BatchedSweepProofs --------------------------
(***************************************************************************)
(* Proofs about BatchedSweep for every graph, list of batches, grid size   *)
(* and set of run options: a lane of a batch runs as its query would on    *)
(* its own, and the distances of a lane published as converged are its     *)
(* shortest ones.                                                          *)
(***************************************************************************)
EXTENDS BatchedSweep, FiniteSetTheorems, WellFoundedInduction, TLAPS

-----------------------------------------------------------------------------
(***************************************************************************)
(* One lane as a routing problem                                           *)
(***************************************************************************)
Assignments == [Vertices -> Distances]

LaneRelaxed(d, e) == d[Destination[e]] <= Plus(d[Source[e]], Weight[e])

LanePotentials(b, l) ==
  {p \in Assignments :
     /\ \A v \in Vertices : LaneInitial[b][l][v] = 0 => p[v] = 0
     /\ \A e \in LaneAdmitted(b, l) : LaneRelaxed(p, e)}

\* What RoutingProblemProofs shows of a query, said of a lane.
LaneIsQuery(b, l) ==
  /\ LaneRounds(b, l) \in [Nat -> Assignments]
  /\ LaneRounds(b, l)[0] = LaneInitial[b][l]
  /\ \A k \in Nat :
       LaneRounds(b, l)[k + 1] = LaneRound(b, l, LaneRounds(b, l)[k])
  /\ \A k \in Nat : k >= VertexCount - 1 =>
       LaneRounds(b, l)[k] = LaneReference[b][l]
  /\ LaneReference[b][l] \in LanePotentials(b, l)
  /\ \A p \in LanePotentials(b, l) : \A v \in Vertices :
       p[v] <= LaneReference[b][l][v]

\* The valid lanes of the batches, and one of them: one that the facts above
\* do not hold for, if there is any.
LanePairs == {q \in BatchIds \X Lanes : q[2] \in Batches[q[1]].valid_lane_mask}

Pick == CHOOSE q \in LanePairs :
          (\E r \in LanePairs : ~LaneIsQuery(r[1], r[2]))
             => ~LaneIsQuery(q[1], q[2])

PickBatch == Batches[Pick[1]]
PickLane  == Pick[2]

\* The sources of the lane follow each other in the batch.
PickIndices == {i \in 1 .. Len(PickBatch.sources) :
                  PickBatch.sources[i].lane = PickLane}

PickFirst == Lowest(PickIndices)
PickEnd   == Lowest({i \in Nat : i > PickFirst /\ i \notin PickIndices})

PickSources == [i \in 1 .. PickEnd - PickFirst |->
                  PickBatch.sources[PickFirst + i - 1].vertex]

Q == INSTANCE RoutingProblemProofs
       WITH SelectedTiles <- PickBatch.tiles[PickLane],
            SourceList    <- PickSources,
            Targets       <- PickBatch.targets[PickLane]

LEMMA LessThanPairs == OpToRel(<, Nat) = {ss \in Nat \X Nat : ss[1] < ss[2]}
BY DEF OpToRel

LEMMA LeastNumber ==
  ASSUME NEW T \in SUBSET Nat, T # {}
  PROVE  \E x \in T : \A y \in T : x <= y
<1> DEFINE R == OpToRel(<, Nat)
<1>1. IsWellFoundedOn(R, Nat)
  BY NatLessThanWellFounded
<1>2. ASSUME NEW x \in Nat, NEW y \in Nat, x < y PROVE <<x, y>> \in R
  <2>1. <<x, y>> \in Nat \X Nat /\ <<x, y>>[1] < <<x, y>>[2]
    BY <1>2
  <2>2. QED
    BY <2>1, LessThanPairs, Zenon
<1> HIDE DEF R
<1>3. PICK x \in T : \A y \in T : <<y, x>> \notin R
  BY <1>1, WFMin
<1>4. \A y \in T : ~(y < x)
  BY <1>2, <1>3
<1>5. QED
  BY <1>4

LEMMA LowestIsLeast ==
  ASSUME NEW S \in SUBSET Nat, S # {}
  PROVE  Lowest(S) \in S /\ \A y \in S : Lowest(S) <= y
BY LeastNumber DEF Lowest

LEMMA PickFacts ==
  ASSUME LanePairs # {}
  PROVE  /\ Pick \in LanePairs
         /\ Pick[1] \in BatchIds /\ PickLane \in Lanes
         /\ PickLane \in PickBatch.valid_lane_mask
         /\ LaneIsQuery(Pick[1], PickLane)
              => \A r \in LanePairs : LaneIsQuery(r[1], r[2])
<1>1. \E q \in LanePairs : (\E r \in LanePairs : ~LaneIsQuery(r[1], r[2]))
                              => ~LaneIsQuery(q[1], q[2])
  OBVIOUS
<1>2. /\ Pick \in LanePairs
      /\ (\E r \in LanePairs : ~LaneIsQuery(r[1], r[2]))
            => ~LaneIsQuery(Pick[1], Pick[2])
  BY <1>1 DEF Pick
<1>3. QED
  BY <1>2 DEF LanePairs, PickLane, PickBatch

LEMMA BatchFacts ==
  ASSUME NEW b \in BatchIds
  PROVE  /\ Batches[b].valid_lane_mask \in SUBSET Lanes
         /\ Batches[b].sources \in Seq([lane : Lanes, vertex : Vertices])
         /\ \A l \in Batches[b].valid_lane_mask :
              /\ \E i \in 1 .. Len(Batches[b].sources) :
                   Batches[b].sources[i].lane = l
              /\ Batches[b].targets[l] \in (SUBSET Vertices) \ {{}}
              /\ \A v \in Batches[b].targets[l] : OwnerTile[v] \in Batches[b].tiles[l]
         /\ \A i \in 1 .. Len(Batches[b].sources) :
              OwnerTile[Batches[b].sources[i].vertex]
                \in Batches[b].tiles[Batches[b].sources[i].lane]
         /\ \A i, j \in 1 .. Len(Batches[b].sources) : i < j =>
              \/ Batches[b].sources[i].lane < Batches[b].sources[j].lane
              \/ /\ Batches[b].sources[i].lane = Batches[b].sources[j].lane
                 /\ Batches[b].sources[i].vertex < Batches[b].sources[j].vertex
BY BatchAssumption

LEMMA PickBatchFacts ==
  ASSUME LanePairs # {}
  PROVE  /\ PickBatch.sources \in Seq([lane : Lanes, vertex : Vertices])
         /\ PickIndices # {}
         /\ PickBatch.targets[PickLane] \in (SUBSET Vertices) \ {{}}
         /\ \A v \in PickBatch.targets[PickLane] :
              OwnerTile[v] \in PickBatch.tiles[PickLane]
         /\ \A i \in PickIndices :
              OwnerTile[PickBatch.sources[i].vertex] \in PickBatch.tiles[PickLane]
         /\ \A i, j \in 1 .. Len(PickBatch.sources) : i < j =>
              \/ PickBatch.sources[i].lane < PickBatch.sources[j].lane
              \/ /\ PickBatch.sources[i].lane = PickBatch.sources[j].lane
                 /\ PickBatch.sources[i].vertex < PickBatch.sources[j].vertex
<1>1. Pick[1] \in BatchIds /\ PickLane \in PickBatch.valid_lane_mask
  BY PickFacts
<1>2. /\ \E i \in 1 .. Len(PickBatch.sources) : PickBatch.sources[i].lane = PickLane
      /\ PickBatch.targets[PickLane] \in (SUBSET Vertices) \ {{}}
      /\ \A v \in PickBatch.targets[PickLane] :
           OwnerTile[v] \in PickBatch.tiles[PickLane]
  BY <1>1, BatchFacts DEF PickBatch
<1>3. PickBatch.sources \in Seq([lane : Lanes, vertex : Vertices])
  BY <1>1, BatchFacts DEF PickBatch
<1>4. \A i \in 1 .. Len(PickBatch.sources) :
        OwnerTile[PickBatch.sources[i].vertex]
          \in PickBatch.tiles[PickBatch.sources[i].lane]
  BY <1>1, BatchFacts DEF PickBatch
<1>5. \A i, j \in 1 .. Len(PickBatch.sources) : i < j =>
              \/ PickBatch.sources[i].lane < PickBatch.sources[j].lane
              \/ /\ PickBatch.sources[i].lane = PickBatch.sources[j].lane
                 /\ PickBatch.sources[i].vertex < PickBatch.sources[j].vertex
  BY <1>1, BatchFacts DEF PickBatch
<1>6. QED
  BY <1>2, <1>3, <1>4, <1>5 DEF PickIndices

LEMMA SequenceElements ==
  ASSUME NEW S, NEW s \in Seq(S)
  PROVE  Len(s) \in Nat /\ \A i \in 1 .. Len(s) : s[i] \in S
OBVIOUS

LEMMA PickSequence ==
  ASSUME LanePairs # {}
  PROVE  /\ Len(PickBatch.sources) \in Nat
         /\ \A i \in 1 .. Len(PickBatch.sources) :
              PickBatch.sources[i] \in [lane : Lanes, vertex : Vertices]
         /\ PickIndices # {} /\ PickIndices \in SUBSET (1 .. Len(PickBatch.sources))
<1>1. PickBatch.sources \in Seq([lane : Lanes, vertex : Vertices])
  BY PickBatchFacts
<1>2. PickIndices # {}
  BY PickBatchFacts
<1>3. PickIndices \in SUBSET (1 .. Len(PickBatch.sources))
  BY DEF PickIndices
<1>4. /\ Len(PickBatch.sources) \in Nat
      /\ \A i \in 1 .. Len(PickBatch.sources) :
           PickBatch.sources[i] \in [lane : Lanes, vertex : Vertices]
  BY <1>1, SequenceElements, Zenon
<1>5. QED
  BY <1>2, <1>3, <1>4

\* The indices of the lane's sources are the ones from PickFirst to PickEnd.
LEMMA PickRange ==
  ASSUME LanePairs # {}
  PROVE  /\ PickFirst \in PickIndices /\ PickEnd \in Nat /\ PickFirst < PickEnd
         /\ PickIndices = PickFirst .. PickEnd - 1
<1> DEFINE n == Len(PickBatch.sources)
           Beyond == {i \in Nat : i > PickFirst /\ i \notin PickIndices}
<1>1. /\ n \in Nat
      /\ \A i \in 1 .. n : PickBatch.sources[i] \in [lane : Lanes, vertex : Vertices]
      /\ PickIndices # {} /\ PickIndices \in SUBSET (1 .. n)
  BY PickSequence
<1>2. PickFirst \in PickIndices /\ \A i \in PickIndices : PickFirst <= i
  BY <1>1, LowestIsLeast DEF PickFirst
<1>3. PickFirst \in 1 .. n
  BY <1>1, <1>2
<1>4. n + 1 \in Beyond
  BY <1>1, <1>3
<1>5. PickEnd \in Beyond /\ \A i \in Beyond : PickEnd <= i
  BY <1>4, LowestIsLeast DEF PickEnd
<1>6. PickEnd \in Nat /\ PickFirst < PickEnd /\ PickEnd \notin PickIndices
  BY <1>3, <1>5
<1>7. ASSUME NEW i \in PickFirst .. PickEnd - 1 PROVE i \in PickIndices
  <2>1. i \in Nat /\ PickFirst <= i /\ ~(PickEnd <= i)
    BY <1>3, <1>6
  <2>2. i \notin Beyond
    BY <1>5, <2>1
  <2>3. QED
    BY <1>2, <1>3, <2>1, <2>2
<1> HIDE DEF n, Beyond
<1>8. ASSUME NEW i \in PickIndices PROVE i \in PickFirst .. PickEnd - 1
  <2>1. i \in 1 .. n /\ PickFirst <= i
    BY <1>1, <1>2
  <2>2. SUFFICES ASSUME PickEnd <= i PROVE FALSE
    BY <1>3, <1>6, <2>1
  <2>3. PickEnd \in 1 .. n /\ PickEnd < i
    BY <1>1, <1>3, <1>6, <2>1, <2>2
  <2> DEFINE lane(j) == PickBatch.sources[j].lane
  <2>4. /\ lane(PickFirst) = PickLane /\ lane(i) = PickLane
        /\ lane(PickEnd) # PickLane
    BY <1>2, <1>6, <2>3 DEF PickIndices, n
  <2>5. lane(PickFirst) \in Int /\ lane(i) \in Int /\ lane(PickEnd) \in Int
    BY <1>1, <1>3, <2>1, <2>3 DEF Lanes
  <2>6. lane(PickFirst) <= lane(PickEnd) /\ lane(PickEnd) <= lane(i)
    <3>1. \A j, k \in 1 .. n : j < k => lane(j) < lane(k) \/ lane(j) = lane(k)
      BY PickBatchFacts DEF n
    <3> HIDE DEF lane
    <3>2. QED
      BY <1>3, <1>6, <2>1, <2>3, <2>5, <3>1
  <2>7. QED
    BY <2>4, <2>5, <2>6
<1>9. QED
  BY <1>2, <1>6, <1>7, <1>8

LEMMA PickSourceFacts ==
  ASSUME LanePairs # {}
  PROVE  /\ PickSources \in Seq(Vertices) /\ Len(PickSources) # 0
         /\ \A i, j \in 1 .. Len(PickSources) :
              i < j => PickSources[i] < PickSources[j]
         /\ \A i \in 1 .. Len(PickSources) :
              OwnerTile[PickSources[i]] \in PickBatch.tiles[PickLane]
         /\ \A v \in Vertices :
              (\E i \in 1 .. Len(PickSources) : PickSources[i] = v)
                <=> [lane |-> PickLane, vertex |-> v]
                      \in {PickBatch.sources[i] : i \in 1 .. Len(PickBatch.sources)}
<1> DEFINE n == Len(PickBatch.sources)
           m == PickEnd - PickFirst
           at(i) == PickFirst + i - 1
<1>1. /\ n \in Nat
      /\ \A i \in 1 .. n : PickBatch.sources[i] \in [lane : Lanes, vertex : Vertices]
      /\ PickIndices \in SUBSET (1 .. n)
  BY PickSequence
<1>2. /\ PickFirst \in 1 .. n /\ PickEnd \in Nat /\ PickFirst < PickEnd
      /\ PickIndices = PickFirst .. PickEnd - 1
  BY <1>1, PickRange
<1>3. m \in Nat \ {0}
  BY <1>2
<1>4. \A i \in 1 .. m : at(i) \in PickIndices /\ at(i) \in 1 .. n
  BY <1>1, <1>2
<1>5. /\ PickSources = [i \in 1 .. m |-> PickBatch.sources[at(i)].vertex]
      /\ \A i \in 1 .. m : PickBatch.sources[at(i)].vertex \in Vertices
  BY <1>1, <1>4 DEF PickSources
<1>6. \A i, j \in 1 .. m : i < j => at(i) < at(j)
  BY <1>2
<1>7. \A k \in PickIndices : \E i \in 1 .. m : at(i) = k
  <2> SUFFICES ASSUME NEW k \in PickIndices PROVE \E i \in 1 .. m : at(i) = k
    OBVIOUS
  <2>1. k - PickFirst + 1 \in 1 .. m /\ at(k - PickFirst + 1) = k
    BY <1>2
  <2>2. QED
    BY <2>1
<1> HIDE DEF m, at
<1>8. PickSources \in Seq(Vertices) /\ Len(PickSources) = m
  BY <1>3, <1>5
<1>9. \A i, j \in 1 .. m : i < j => PickSources[i] < PickSources[j]
  <2> SUFFICES ASSUME NEW i \in 1 .. m, NEW j \in 1 .. m, i < j
               PROVE  PickSources[i] < PickSources[j]
    OBVIOUS
  <2>1. /\ at(i) \in 1 .. n /\ at(j) \in 1 .. n /\ at(i) < at(j)
        /\ PickBatch.sources[at(i)].lane = PickLane
        /\ PickBatch.sources[at(j)].lane = PickLane
    BY <1>4, <1>6 DEF PickIndices
  <2>2. PickLane \in Int
    BY PickFacts DEF Lanes
  <2>3. PickBatch.sources[at(i)].vertex < PickBatch.sources[at(j)].vertex
    BY <2>1, <2>2, PickBatchFacts
  <2>4. QED
    BY <1>5, <2>3
<1>10. \A i \in 1 .. m : OwnerTile[PickSources[i]] \in PickBatch.tiles[PickLane]
  BY <1>4, <1>5, PickBatchFacts
<1>11. ASSUME NEW v \in Vertices
       PROVE  (\E i \in 1 .. m : PickSources[i] = v)
                <=> [lane |-> PickLane, vertex |-> v]
                      \in {PickBatch.sources[i] : i \in 1 .. n}
  <2>1. ASSUME NEW i \in 1 .. m, PickSources[i] = v
        PROVE  PickBatch.sources[at(i)] = [lane |-> PickLane, vertex |-> v]
    <3>1. /\ PickBatch.sources[at(i)].lane = PickLane
          /\ PickBatch.sources[at(i)].vertex = v
          /\ PickBatch.sources[at(i)] \in [lane : Lanes, vertex : Vertices]
      BY <1>1, <1>4, <1>5, <2>1 DEF PickIndices
    <3>2. QED
      BY <3>1
  <2>2. ASSUME NEW k \in 1 .. n,
               PickBatch.sources[k] = [lane |-> PickLane, vertex |-> v]
        PROVE  \E i \in 1 .. m : PickSources[i] = v
    <3>1. k \in PickIndices
      BY <2>2 DEF PickIndices
    <3>2. QED
      BY <1>5, <1>7, <2>2, <3>1
  <2>3. QED
    BY <1>4, <2>1, <2>2
<1>12. QED
  BY <1>3, <1>8, <1>9, <1>10, <1>11

LEMMA QueryFacts ==
  ASSUME LanePairs # {} PROVE Q!GraphAssumption /\ Q!QueryAssumption
<1>1. Q!GraphAssumption
  BY GraphAssumption DEF Q!GraphAssumption, Q!Edges, Q!Vertices, Edges, Vertices
<1>2. Q!QueryAssumption
  BY PickSourceFacts, PickBatchFacts
  DEF Q!QueryAssumption, Q!TargetSets, Q!InSelectedTile, Q!Vertices, Vertices
<1>3. QED
  BY <1>1, <1>2
LEMMA PickAdmitted == LanePairs # {} => Q!Admitted = LaneAdmitted(Pick[1], PickLane)
<1> SUFFICES ASSUME LanePairs # {}
             PROVE  Q!Admitted = LaneAdmitted(Pick[1], PickLane)
  OBVIOUS
<1>1. PickLane \in Lanes
  BY PickFacts
<1>2. QED
  BY <1>1 DEF Q!Admitted, Q!InSelectedTile, Q!Edges, Edges, LaneAdmitted,
              RunLaneMask, VertexLanes, PickBatch

LEMMA PickInitial ==
  ASSUME LanePairs # {}
  PROVE  /\ Q!InitialDistance = LaneInitial[Pick[1]][PickLane]
         /\ \A v \in Vertices :
              v \in Q!Sources <=> LaneInitial[Pick[1]][PickLane][v] = 0
<1>1. Pick[1] \in BatchIds /\ PickLane \in Lanes
  BY PickFacts
<1> DEFINE Is(v) == [lane |-> PickLane, vertex |-> v]
                      \in {PickBatch.sources[i] : i \in 1 .. Len(PickBatch.sources)}
<1>2. LaneInitial[Pick[1]][PickLane] =
        [v \in Vertices |-> IF Is(v) THEN 0 ELSE Infinity]
  BY <1>1 DEF LaneInitial, PickBatch
<1>3. \A v \in Vertices : v \in Q!Sources <=> Is(v)
  <2> SUFFICES ASSUME NEW v \in Vertices PROVE v \in Q!Sources <=> Is(v)
    OBVIOUS
  <2>1. v \in Q!Sources <=> \E i \in 1 .. Len(PickSources) : PickSources[i] = v
    BY DEF Q!Sources
  <2>2. QED
    BY <2>1, PickSourceFacts
<1> HIDE DEF Is
<1>4. Q!InitialDistance = [v \in Vertices |-> IF Is(v) THEN 0 ELSE Infinity]
  BY <1>3 DEF Q!InitialDistance, Q!Vertices, Vertices
<1>5. Infinity # 0
  BY GraphAssumption
<1>6. QED
  BY <1>2, <1>3, <1>4, <1>5

LEMMA PickRound ==
  ASSUME LanePairs # {}, NEW d
  PROVE  Q!BellmanFordRound(d) = LaneRound(Pick[1], PickLane, d)
<1> DEFINE Reach(v) == {d[v]} \union
                         {Plus(d[Source[e]], Weight[e]) :
                            e \in {f \in LaneAdmitted(Pick[1], PickLane) :
                                    Destination[f] = v}}
<1>1. LaneRound(Pick[1], PickLane, d) = [v \in Vertices |-> Lowest(Reach(v))]
  BY DEF LaneRound
<1>2. Q!BellmanFordRound(d) =
        [v \in Vertices |->
           Q!Lowest({d[v]} \union
                    {Q!Plus(d[Source[e]], Weight[e]) :
                       e \in {f \in Q!Admitted : Destination[f] = v}})]
  BY DEF Q!BellmanFordRound, Q!Vertices, Vertices
<1>3. \A a, w : Q!Plus(a, w) = Plus(a, w)
  BY DEF Q!Plus, Plus
<1>4. \A v \in Vertices :
        {d[v]} \union {Q!Plus(d[Source[e]], Weight[e]) :
                         e \in {f \in Q!Admitted : Destination[f] = v}} = Reach(v)
  BY <1>3, PickAdmitted
<1>5. \A S : Q!Lowest(S) = Lowest(S)
  BY DEF Q!Lowest, Lowest
<1>6. QED
  BY <1>1, <1>2, <1>4, <1>5

LEMMA PickRounds ==
  ASSUME LanePairs # {}
  PROVE  LaneRounds(Pick[1], PickLane) = Q!BellmanFord
<1> DEFINE first   == LaneInitial[Pick[1]][PickLane]
           next(d) == LaneRound(Pick[1], PickLane, d)
           Is(g)   == g = [k \in Nat |-> IF k = 0 THEN first ELSE next(g[k - 1])]
           F       == Q!BellmanFord
           G       == LaneRounds(Pick[1], PickLane)
<1>1. /\ F \in [Nat -> Q!Assignments] /\ F[0] = first
      /\ \A k \in Nat : F[k + 1] = next(F[k])
  BY Q!BellmanFordRounds, QueryFacts, PickInitial, PickRound
<1>2. G = CHOOSE g : Is(g)
  BY DEF LaneRounds
<1> HIDE DEF first, next, F, G
<1>3. Is(F)
  <2>1. ASSUME NEW k \in Nat
        PROVE  F[k] = IF k = 0 THEN first ELSE next(F[k - 1])
    <3>1. CASE k = 0
      BY <1>1, <3>1
    <3>2. CASE k # 0
      <4>1. k - 1 \in Nat /\ (k - 1) + 1 = k
        BY <3>2
      <4>2. QED
        BY <1>1, <3>2, <4>1
    <3>3. QED
      BY <3>1, <3>2
  <2>2. QED
    BY <1>1, <2>1
<1>4. Is(G)
  <2> HIDE DEF Is
  <2>1. QED
    BY <1>2, <1>3
<1>5. \A k \in Nat : G[k] = IF k = 0 THEN first ELSE next(G[k - 1])
  BY <1>4
<1>6. DOMAIN F = Nat /\ DOMAIN G = Nat /\ F = [k \in Nat |-> F[k]]
        /\ G = [k \in Nat |-> G[k]]
  BY <1>1, <1>4
<1> DEFINE Same == {k \in Nat : F[k] = G[k]}
<1>7. 0 \in Same
  BY <1>1, <1>5
<1>8. ASSUME NEW k \in Nat, k \in Same PROVE k + 1 \in Same
  <2>1. k + 1 \in Nat /\ k + 1 # 0 /\ (k + 1) - 1 = k
    OBVIOUS
  <2>2. G[k + 1] = next(G[k])
    BY <1>5, <2>1
  <2>3. F[k + 1] = next(G[k])
    BY <1>1, <1>8
  <2>4. QED
    BY <2>1, <2>2, <2>3
<1>9. Nat \subseteq Same
  <2> HIDE DEF Same
  <2>1. Q!GraphAssumption /\ Q!QueryAssumption
    BY QueryFacts
  <2>2. QED
    BY <1>7, <1>8, <2>1, Q!InductionOnSet
<1>10. \A k \in Nat : F[k] = G[k]
  BY <1>9
<1>11. QED
  BY <1>6, <1>10 DEF F, G

LEMMA PickIsQuery == LanePairs # {} => LaneIsQuery(Pick[1], PickLane)
<1> SUFFICES ASSUME LanePairs # {} PROVE LaneIsQuery(Pick[1], PickLane)
  OBVIOUS
<1>1. Q!Assignments = Assignments /\ Q!Vertices = Vertices
  BY DEF Q!Assignments, Assignments, Q!Vertices, Vertices, Q!Distances, Distances
<1>2. Q!Potentials = LanePotentials(Pick[1], PickLane)
  BY <1>1, PickInitial, PickAdmitted, QueryFacts, Q!SourcesAreVertices
  DEF Q!Potentials, LanePotentials, Q!Relaxed, LaneRelaxed, Q!Plus, Plus,
      Q!Assignments
<1>3. Pick[1] \in BatchIds /\ PickLane \in Lanes
  BY PickFacts
<1>4. LaneReference[Pick[1]][PickLane] = Q!ReferenceDistance
  BY <1>3, PickRounds DEF LaneReference, Q!ReferenceDistance
<1>5. /\ LaneRounds(Pick[1], PickLane) \in [Nat -> Assignments]
      /\ LaneRounds(Pick[1], PickLane)[0] = LaneInitial[Pick[1]][PickLane]
      /\ \A k \in Nat : LaneRounds(Pick[1], PickLane)[k + 1] =
                          LaneRound(Pick[1], PickLane,
                                    LaneRounds(Pick[1], PickLane)[k])
  BY <1>1, PickRounds, PickRound, PickInitial, QueryFacts, Q!BellmanFordRounds
<1>6. Q!IsShortest(Q!ReferenceDistance)
  BY QueryFacts, Q!ReferenceIsShortest
<1>7. ASSUME NEW k \in Nat, k >= VertexCount - 1
      PROVE  Q!BellmanFord[k] = Q!ReferenceDistance
  <2>1. /\ Q!SelectedVertexCount \in Nat \ {0}
        /\ Q!SelectedVertexCount <= VertexCount
    BY QueryFacts, Q!SelectedCountFacts
  <2>2. k >= Q!SelectedVertexCount - 1
    BY <1>7, <2>1, GraphAssumption
  <2>3. QED
    BY <1>6, <2>2, QueryFacts, Q!SelectedRoundsSuffice
<1>8. QED
  BY <1>1, <1>2, <1>4, <1>5, <1>6, <1>7, PickRounds
  DEF LaneIsQuery, Q!IsShortest

\* Every valid lane of every batch is a routing problem of its own.
LEMMA LanesAreQueries ==
  ASSUME NEW b \in BatchIds, NEW l \in Batches[b].valid_lane_mask
  PROVE  LaneIsQuery(b, l)
<1>1. <<b, l>> \in LanePairs
  BY BatchFacts DEF LanePairs
<1>2. QED
  BY <1>1, PickFacts, PickIsQuery
-----------------------------------------------------------------------------
(***************************************************************************)
(* The rounds of a lane                                                    *)
(***************************************************************************)
LEMMA PlusType ==
  ASSUME NEW a \in Distances, NEW w \in 0 .. Infinity - 1
  PROVE  Plus(a, w) \in Distances
BY GraphAssumption DEF Plus, Distances

LEMMA PlusMonotone ==
  ASSUME NEW a \in Distances, NEW b \in Distances,
         NEW w \in 0 .. Infinity - 1, a <= b
  PROVE  Plus(a, w) <= Plus(b, w) /\ a <= Plus(a, w)
BY GraphAssumption DEF Plus, Distances

LEMMA EdgeType ==
  ASSUME NEW e \in Edges
  PROVE  /\ Source[e] \in Vertices
         /\ Destination[e] \in Vertices
         /\ Weight[e] \in 0 .. Infinity - 1
         /\ e \in Nat \ {0}
BY GraphAssumption DEF Edges

LEMMA DistancesAreNumbers ==
  Distances \subseteq Nat /\ 0 \in Distances /\ Infinity \in Distances
BY GraphAssumption DEF Distances

LEMMA LaneRoundFacts ==
  ASSUME NEW b, NEW l, NEW d \in Assignments, NEW v \in Vertices
  PROVE  LET new == LaneRound(b, l, d)[v]
         IN /\ new \in Distances
            /\ new <= d[v]
            /\ \A e \in LaneAdmitted(b, l) :
                 Destination[e] = v => new <= Plus(d[Source[e]], Weight[e])
            /\ \/ new = d[v]
               \/ \E e \in LaneAdmitted(b, l) :
                    Destination[e] = v /\ new = Plus(d[Source[e]], Weight[e])
<1> DEFINE Into    == {f \in LaneAdmitted(b, l) : Destination[f] = v}
           offers  == {Plus(d[Source[e]], Weight[e]) : e \in Into}
           choices == {d[v]} \union offers
<1>1. \A e \in Into : e \in Edges
  BY DEF LaneAdmitted
<1>2. ASSUME NEW e \in Into PROVE Plus(d[Source[e]], Weight[e]) \in Distances
  BY <1>1, EdgeType, PlusType DEF Assignments
<1>3. d[v] \in Distances
  BY DEF Assignments
<1>4. choices \in SUBSET Nat /\ choices # {}
  BY <1>2, <1>3, DistancesAreNumbers
<1>5. LaneRound(b, l, d)[v] = Lowest(choices)
  BY DEF LaneRound
<1> HIDE DEF choices
<1>6. Lowest(choices) \in choices /\ \A y \in choices : Lowest(choices) <= y
  BY <1>4, LowestIsLeast
<1>7. QED
  BY <1>2, <1>3, <1>5, <1>6 DEF choices

LEMMA LanesInBatch ==
  ASSUME NEW b \in BatchIds, NEW l \in Batches[b].valid_lane_mask
  PROVE  /\ l \in Lanes
         /\ LaneInitial[b][l] \in Assignments
         /\ LaneReference[b][l] \in Assignments
         /\ \A k \in Nat : LaneRounds(b, l)[k] \in Assignments
<1>1. l \in Lanes
  BY BatchFacts
<1>2. LaneIsQuery(b, l)
  BY LanesAreQueries
<1>3. LaneInitial[b][l] = LaneRounds(b, l)[0] /\ 0 \in Nat
  BY <1>2 DEF LaneIsQuery
<1>4. QED
  BY <1>1, <1>2, <1>3 DEF LaneIsQuery, LanePotentials

LEMMA InductionOnSet ==
  ASSUME NEW S, 0 \in S, \A n \in Nat : n \in S => n + 1 \in S
  PROVE  Nat \subseteq S
<1> SUFFICES ASSUME Nat \ S # {} PROVE FALSE
  OBVIOUS
<1>1. PICK x \in Nat \ S : \A y \in Nat \ S : x <= y
  BY LeastNumber
<1>2. x # 0 /\ x - 1 \in Nat /\ x - 1 \notin S
  BY <1>1
<1>3. QED
  BY <1>1, <1>2

\* No round falls below a potential, hence none below the shortest distances.
LEMMA RoundsAbove ==
  ASSUME NEW b \in BatchIds, NEW l \in Batches[b].valid_lane_mask, NEW k \in Nat
  PROVE  \A v \in Vertices : LaneReference[b][l][v] <= LaneRounds(b, l)[k][v]
<1> DEFINE R == LaneReference[b][l]
           F == LaneRounds(b, l)
           Good == {n \in Nat : \A v \in Vertices : R[v] <= F[n][v]}
<1>1. /\ R \in Assignments /\ \A n \in Nat : F[n] \in Assignments
      /\ F[0] = LaneInitial[b][l]
      /\ \A n \in Nat : F[n + 1] = LaneRound(b, l, F[n])
      /\ R \in LanePotentials(b, l)
  BY LanesInBatch, LanesAreQueries DEF LaneIsQuery
<1>2. 0 \in Good
  <2>1. ASSUME NEW v \in Vertices PROVE R[v] <= LaneInitial[b][l][v]
    <3>1. /\ LaneInitial[b][l][v] \in {0, Infinity}
          /\ LaneInitial[b][l][v] = 0 => R[v] = 0
          /\ R[v] \in Distances
      BY <1>1, BatchFacts DEF LanePotentials, LaneInitial, Assignments
    <3>2. QED
      BY <3>1, GraphAssumption DEF Distances
  <2>2. QED
    BY <1>1, <2>1
<1>3. ASSUME NEW n \in Nat, n \in Good PROVE n + 1 \in Good
  <2>1. ASSUME NEW v \in Vertices PROVE R[v] <= LaneRound(b, l, F[n])[v]
    <3> DEFINE new == LaneRound(b, l, F[n])[v]
    <3>1. \/ new = F[n][v]
          \/ \E e \in LaneAdmitted(b, l) :
               Destination[e] = v /\ new = Plus(F[n][Source[e]], Weight[e])
      BY <1>1, LaneRoundFacts
    <3>2. R[v] <= F[n][v]
      BY <1>3
    <3>3. ASSUME NEW e \in LaneAdmitted(b, l), Destination[e] = v
          PROVE  R[v] <= Plus(F[n][Source[e]], Weight[e])
      <4> DEFINE u == Source[e]
                 w == Weight[e]
      <4>1. u \in Vertices /\ w \in 0 .. Infinity - 1
        BY EdgeType DEF LaneAdmitted
      <4>2. R[v] <= Plus(R[u], w)
        BY <1>1, <3>3 DEF LanePotentials, LaneRelaxed
      <4>3. R[u] \in Distances /\ F[n][u] \in Distances /\ R[v] \in Distances
        BY <1>1, <4>1 DEF Assignments
      <4>4. R[u] <= F[n][u]
        BY <1>3, <4>1
      <4> HIDE DEF u, w, R, F
      <4>5. Plus(R[u], w) <= Plus(F[n][u], w)
        BY <4>1, <4>3, <4>4, PlusMonotone
      <4>6. Plus(R[u], w) \in Distances /\ Plus(F[n][u], w) \in Distances
        BY <4>1, <4>3, PlusType
      <4>7. R[v] <= Plus(F[n][u], w)
        BY <4>2, <4>3, <4>5, <4>6 DEF Distances
      <4>8. QED
        BY <4>7 DEF u, w
    <3>4. QED
      BY <3>1, <3>2, <3>3
  <2>2. n + 1 \in Nat
    OBVIOUS
  <2>3. QED
    BY <1>1, <2>1, <2>2
<1>4. Nat \subseteq Good
  <2> HIDE DEF Good
  <2>1. QED
    BY <1>2, <1>3, InductionOnSet
<1>5. QED
  BY <1>4

\* The sources keep distance 0, and what the lane does not select stays unreached.
LEMMA RoundsKeep ==
  ASSUME NEW b \in BatchIds, NEW l \in Batches[b].valid_lane_mask, NEW k \in Nat,
         NEW v \in Vertices
  PROVE  /\ LaneInitial[b][l][v] = 0 => LaneRounds(b, l)[k][v] = 0
         /\ l \notin VertexLanes(b, v) => LaneRounds(b, l)[k][v] = Infinity
<1> DEFINE F == LaneRounds(b, l)
           I == LaneInitial[b][l]
           Keeps(n) == /\ I[v] = 0 => F[n][v] = 0
                       /\ l \notin VertexLanes(b, v) => F[n][v] = Infinity
           Good == {n \in Nat : Keeps(n)}
<1>1. /\ l \in Lanes /\ \A n \in Nat : F[n] \in Assignments
      /\ F[0] = I
      /\ \A n \in Nat : F[n + 1] = LaneRound(b, l, F[n])
  BY LanesInBatch, LanesAreQueries DEF LaneIsQuery
<1>2. 0 \in Good
  <2>1. I[v] \in {0, Infinity}
    BY <1>1 DEF LaneInitial
  <2>2. I[v] = 0 => l \in VertexLanes(b, v)
    <3>1. SUFFICES ASSUME I[v] = 0 PROVE OwnerTile[v] \in Batches[b].tiles[l]
      BY <1>1 DEF VertexLanes
    <3>2. [lane |-> l, vertex |-> v]
            \in {Batches[b].sources[i] : i \in 1 .. Len(Batches[b].sources)}
      BY <1>1, <3>1, GraphAssumption DEF LaneInitial
    <3>3. PICK i \in 1 .. Len(Batches[b].sources) :
            Batches[b].sources[i] = [lane |-> l, vertex |-> v]
      BY <3>2
    <3>4. OwnerTile[Batches[b].sources[i].vertex]
            \in Batches[b].tiles[Batches[b].sources[i].lane]
      BY BatchFacts
    <3>5. QED
      BY <3>3, <3>4
  <2>3. QED
    BY <1>1, <2>1, <2>2
<1>3. ASSUME NEW n \in Nat, n \in Good PROVE n + 1 \in Good
  <2> DEFINE new == LaneRound(b, l, F[n])[v]
  <2>1. /\ new \in Distances /\ new <= F[n][v]
        /\ \/ new = F[n][v]
           \/ \E e \in LaneAdmitted(b, l) : Destination[e] = v
    BY <1>1, LaneRoundFacts
  <2>2. I[v] = 0 => new = 0
    BY <1>3, <2>1, GraphAssumption DEF Distances
  <2>3. l \notin VertexLanes(b, v) => new = Infinity
    BY <1>3, <2>1 DEF LaneAdmitted, RunLaneMask
  <2>4. QED
    BY <1>1, <2>2, <2>3
<1>4. Nat \subseteq Good
  <2> HIDE DEF Good
  <2>1. QED
    BY <1>2, <1>3, InductionOnSet
<1>5. QED
  BY <1>4

LEMMA ReferenceIsARound ==
  ASSUME NEW b \in BatchIds, NEW l \in Batches[b].valid_lane_mask
  PROVE  /\ VertexCount - 1 \in Nat
         /\ LaneReference[b][l] = LaneRounds(b, l)[VertexCount - 1]
         /\ LaneRound(b, l, LaneReference[b][l]) = LaneReference[b][l]
<1>1. VertexCount - 1 \in Nat /\ VertexCount \in Nat
        /\ VertexCount >= VertexCount - 1 /\ (VertexCount - 1) + 1 = VertexCount
  BY GraphAssumption
<1>2. /\ LaneRounds(b, l)[VertexCount - 1] = LaneReference[b][l]
      /\ LaneRounds(b, l)[VertexCount] = LaneReference[b][l]
      /\ LaneRounds(b, l)[(VertexCount - 1) + 1] =
           LaneRound(b, l, LaneRounds(b, l)[VertexCount - 1])
  BY <1>1, LanesAreQueries DEF LaneIsQuery
<1>3. QED
  BY <1>1, <1>2

\* Distances that no admitted edge can lower, with the sources at 0, are not
\* above the shortest ones.
LEMMA RelaxedIsShortest ==
  ASSUME NEW b \in BatchIds, NEW l \in Batches[b].valid_lane_mask,
         NEW d \in Assignments,
         \A v \in Vertices : LaneReference[b][l][v] <= d[v],
         \A v \in Vertices : LaneInitial[b][l][v] = 0 => d[v] = 0,
         \A e \in LaneAdmitted(b, l) : LaneRelaxed(d, e)
  PROVE  d = LaneReference[b][l]
<1>1. d \in LanePotentials(b, l)
  BY DEF LanePotentials
<1>2. \A v \in Vertices : d[v] <= LaneReference[b][l][v]
  BY <1>1, LanesAreQueries DEF LaneIsQuery
<1>3. LaneReference[b][l] \in Assignments
  BY LanesInBatch
<1>4. ASSUME NEW v \in Vertices PROVE d[v] = LaneReference[b][l][v]
  <2>1. d[v] \in Nat /\ LaneReference[b][l][v] \in Nat
    BY <1>3, DistancesAreNumbers DEF Assignments
  <2>2. QED
    BY <1>2, <2>1
<1>5. QED
  BY <1>3, <1>4 DEF Assignments

\* A round that changes nothing has found the shortest distances.
LEMMA StableIsShortest ==
  ASSUME NEW b \in BatchIds, NEW l \in Batches[b].valid_lane_mask, NEW k \in Nat,
         LaneRounds(b, l)[k + 1] = LaneRounds(b, l)[k]
  PROVE  LaneRounds(b, l)[k] = LaneReference[b][l]
<1> DEFINE d == LaneRounds(b, l)[k]
<1>1. d \in Assignments /\ LaneRound(b, l, d) = d
  BY LanesInBatch, LanesAreQueries DEF LaneIsQuery
<1>2. \A v \in Vertices : LaneReference[b][l][v] <= d[v]
  BY RoundsAbove
<1>3. \A v \in Vertices : LaneInitial[b][l][v] = 0 => d[v] = 0
  BY RoundsKeep
<1>4. \A e \in LaneAdmitted(b, l) : LaneRelaxed(d, e)
  <2> SUFFICES ASSUME NEW e \in LaneAdmitted(b, l) PROVE LaneRelaxed(d, e)
    OBVIOUS
  <2>1. Destination[e] \in Vertices
    BY EdgeType DEF LaneAdmitted
  <2> HIDE DEF d
  <2>2. LaneRound(b, l, d)[Destination[e]] <= Plus(d[Source[e]], Weight[e])
    BY <1>1, <2>1, LaneRoundFacts
  <2>3. QED
    BY <1>1, <2>2 DEF LaneRelaxed
<1> HIDE DEF d
<1>5. d = LaneReference[b][l]
  BY <1>1, <1>2, <1>3, <1>4, RelaxedIsShortest
<1>6. QED
  BY <1>5 DEF d

\* Once there, a lane stays at the shortest distances.
LEMMA ShortestStays ==
  ASSUME NEW b \in BatchIds, NEW l \in Batches[b].valid_lane_mask, NEW k \in Nat,
         LaneRounds(b, l)[k] = LaneReference[b][l]
  PROVE  LaneRounds(b, l)[k + 1] = LaneReference[b][l]
BY LanesAreQueries, ReferenceIsARound DEF LaneIsQuery

\* The vertices a lane does not select are unreached in every round.
LEMMA UnselectedIsUnreached ==
  ASSUME NEW b \in BatchIds, NEW l \in Batches[b].valid_lane_mask,
         NEW v \in Vertices, l \notin VertexLanes(b, v)
  PROVE  LaneReference[b][l][v] = Infinity
BY RoundsKeep, ReferenceIsARound
-----------------------------------------------------------------------------
(***************************************************************************)
(* The inductive invariant                                                 *)
(***************************************************************************)
Round   == controller.rounds_completed
ReadOf  == controller.distance_read_slot
WriteOf == controller.distance_write_slot

\* What lane l would have after k rounds on its own, and in the end.
After(l, k)  == LaneRounds(batch, l)[k]
Shortest(l)  == LaneReference[batch][l]

\* The place of a vertex in selected_vertex_ranges, and the wave that takes it.
Rank(v)  == Cardinality({u \in UnionVertices(batch) : u < v})
Owner(v) == Rank(v) % WaveCount

Selects(l, v) == l \in VertexLanes(batch, v)

\* Vertex v has had its turn in the round.
Passed(v) ==
  \/ wave[Owner(v)].pc \in {"publish", "sync"}
  \/ /\ wave[Owner(v)].pc \in {"vertex", "minimum"}
     /\ Rank(v) < wave[Owner(v)].index

\* Edge e has had its turn in the round: it was in the row of a vertex that has,
\* or is behind the wave in the row it is at.
Tried(e) ==
  \/ Passed(Source[e])
  \/ LET w == Owner(Source[e])
     IN /\ Rank(Source[e]) = wave[w].index
        /\ \/ wave[w].pc = "vertex"  /\ e <= wave[w].edge
           \/ wave[w].pc = "minimum" /\ e < wave[w].edge

\* No wave has seen a distance of the lane change in the round.
Quiet(l) ==
  l \notin controller.changed_lane_mask /\ \A w \in Waves : l \notin wave[w].changed

WaveOperations == {"enter", "vertex", "minimum", "publish", "sync"}
Stages == {"idle", "initialize"} \union RunStages

WaveStates == [pc : WaveOperations, index : Nat, edge : Nat,
               candidate : [Lanes -> Distances], changed : SUBSET Lanes]

TypeInv ==
  /\ stage \in Stages
  /\ batch \in 0 .. Len(Batches)
  /\ stage # "idle" => batch \in BatchIds
  /\ run_options \in Options
  /\ distances \in [Slots -> [Vertices -> [Lanes -> Distances]]]
  /\ run_lane_masks \in [Edges -> SUBSET Lanes]
  /\ lane_convergence_rounds \in [Lanes -> Nat]
  /\ controller \in DeviceControllers
  /\ wave \in [Waves -> WaveStates]

\* Where the waves are, and what they hold there.
WaveInv ==
  \A w \in Waves :
    /\ stage # "round" => wave[w] = AtEntry
    /\ wave[w].pc \in {"enter", "sync"} => wave[w].changed = {}
    /\ wave[w].pc = "enter" => wave[w].edge = 0
    /\ wave[w].changed \subseteq controller.execute_lane_mask
    /\ wave[w].pc \in {"vertex", "minimum"} => wave[w].index % WaveCount = w
    /\ wave[w].pc = "minimum" => ~Pulls /\ wave[w].edge \in Edges

\* The controller of a run: every lane is active or converged, and a lane is
\* converged only with its round on record.
SoundController(c) ==
  /\ c.valid_lane_mask = Valid
  /\ c.engine_kind = run_options.engine
  /\ IF Pulls THEN c.distance_read_slot # c.distance_write_slot
              ELSE c.distance_read_slot = 0 /\ c.distance_write_slot = 0
  /\ c.frontier_read_slot = 0 /\ c.frontier_write_slot = 1
  /\ c.next_frontier_lane_mask = {}
  /\ c.error_bits = {}
  /\ c.maximum_rounds # 0
  /\ c.rounds_completed <= c.maximum_rounds
  /\ c.active_lane_mask \union c.converged_lane_mask = Valid
  /\ c.active_lane_mask \intersect c.converged_lane_mask = {}
  /\ c.changed_lane_mask \subseteq c.execute_lane_mask
  /\ IF ~c.done
       THEN /\ c.execute_lane_mask = c.active_lane_mask
            /\ c.active_lane_mask # {}
            /\ c.stop_reason = "none"
            /\ c.rounds_completed < c.maximum_rounds
       ELSE /\ c.execute_lane_mask = {}
            /\ \/ c.stop_reason = "converged" /\ c.active_lane_mask = {}
               \/ /\ c.stop_reason = "maximum_rounds"
                  /\ c.rounds_completed = c.maximum_rounds

ControllerInv ==
  stage \in RunStages =>
    /\ SoundController(controller)
    /\ \A l \in controller.converged_lane_mask : lane_convergence_rounds[l] # 0
    /\ \A l \in Lanes : lane_convergence_rounds[l] <= Round
    /\ stage \in {"finalize", "readback"} => controller.done

MaskInv ==
  /\ stage \in RunStages \union {"initialize"} /\ ~Pulls =>
       \A e \in Edges : run_lane_masks[e] = RunLaneMask(batch, e)
  /\ stage \in RunStages /\ Pulls =>
       \A e \in Edges : Destination[e] \in UnionVertices(batch) =>
         run_lane_masks[e] = RunLaneMask(batch, e)

\* A lane whose convergence is on record has its shortest distances, in both
\* Jacobi slots.
SettledInv ==
  stage \in RunStages =>
    \A l \in Valid : lane_convergence_rounds[l] # 0 =>
      \A slot \in IF Pulls THEN Slots ELSE {0} :
        \A v \in Vertices : Selects(l, v) =>
          distances[slot][v][l] = Shortest(l)[v]

\* Jacobi: the read slot holds the round that is complete, for every lane; the
\* write slot as much of the next one as the waves have got to.
PullInv ==
  stage \in RunStages /\ Pulls =>
    \A l \in Valid : \A v \in Vertices : Selects(l, v) =>
      /\ Read[v][l] = After(l, Round)[v]
      /\ l \in controller.execute_lane_mask /\ Passed(v) =>
           /\ distances[WriteOf][v][l] = After(l, Round + 1)[v]
           /\ Quiet(l) => After(l, Round + 1)[v] = After(l, Round)[v]

\* Dense: every distance is between the shortest one and the round that is
\* complete, and so are the candidates in flight; an edge that has had its turn
\* offers nothing that is lower than the next round.  While a lane is quiet its
\* distances do not move, and an edge that has had its turn is relaxed.
DenseInv ==
  stage \in RunStages /\ ~Pulls =>
    \A l \in Valid :
      /\ \A v \in Vertices : Selects(l, v) =>
           /\ Shortest(l)[v] <= distances[0][v][l]
           /\ distances[0][v][l] <= After(l, Round)[v]
      /\ \A w \in Waves :
           wave[w].pc = "minimum" /\ l \in ActiveRunLanes(wave[w].edge) =>
             LET e == wave[w].edge
             IN /\ Shortest(l)[Destination[e]] <= wave[w].candidate[l]
                /\ wave[w].candidate[l] <= Plus(After(l, Round)[Source[e]], Weight[e])
                /\ Quiet(l) => wave[w].candidate[l] =
                                 Plus(distances[0][Source[e]][l], Weight[e])
      /\ \A e \in LaneAdmitted(batch, l) :
           l \in controller.execute_lane_mask /\ Tried(e) =>
             /\ distances[0][Destination[e]][l]
                  <= Plus(After(l, Round)[Source[e]], Weight[e])
             /\ Quiet(l) => distances[0][Destination[e]][l]
                              <= Plus(distances[0][Source[e]][l], Weight[e])

\* What the host has got and what it is about to get.
OutputInv ==
  /\ DOMAIN outputs = BatchIds
  /\ stage = "readback" => status = CompletedStatus
  /\ \A b \in BatchIds : outputs[b].returned => ReturnedIsTrue(b)

IInv ==
  /\ TypeInv /\ WaveInv /\ ControllerInv /\ MaskInv
  /\ SettledInv /\ PullInv /\ DenseInv /\ OutputInv
-----------------------------------------------------------------------------
(***************************************************************************)
(* The selected vertices and the shares of the waves                       *)
(***************************************************************************)
LEMMA UnionFacts ==
  /\ UnionVertices(batch) \in SUBSET Vertices
  /\ IsFiniteSet(UnionVertices(batch))
  /\ Cardinality(UnionVertices(batch)) \in Nat
  /\ \A A \in SUBSET UnionVertices(batch) :
       /\ IsFiniteSet(A) /\ Cardinality(A) \in Nat
       /\ Cardinality(A) <= Cardinality(UnionVertices(batch))
       /\ Cardinality(A) = Cardinality(UnionVertices(batch))
            => A = UnionVertices(batch)
<1>1. UnionVertices(batch) \in SUBSET Vertices
  BY DEF UnionVertices
<1>2. IsFiniteSet(Vertices)
  BY FS_Interval, GraphAssumption DEF Vertices
<1>3. IsFiniteSet(UnionVertices(batch))
  BY <1>1, <1>2, FS_Subset
<1>4. QED
  BY <1>1, <1>3, FS_Subset, FS_CardinalityType

LEMMA RankFacts ==
  /\ \A v \in UnionVertices(batch) : Rank(v) \in 0 .. Cardinality(UnionVertices(batch)) - 1
  /\ \A u, v \in UnionVertices(batch) : u < v => Rank(u) < Rank(v)
  /\ \A u, v \in UnionVertices(batch) : Rank(u) = Rank(v) => u = v
<1> DEFINE U == UnionVertices(batch)
           Below(v) == {u \in U : u < v}
<1>1. U \in SUBSET Int
  BY UnionFacts DEF Vertices
<1>2. ASSUME NEW A \in SUBSET U, NEW B \in SUBSET A, A # B
      PROVE  Cardinality(B) < Cardinality(A)
  <2>1. IsFiniteSet(A)
    BY UnionFacts
  <2>2. Cardinality(B) <= Cardinality(A) /\ Cardinality(B) # Cardinality(A)
    BY <1>2, <2>1, FS_Subset
  <2>3. Cardinality(A) \in Nat /\ Cardinality(B) \in Nat
    BY UnionFacts
  <2>4. QED
    BY <2>2, <2>3
<1>3. ASSUME NEW v \in U PROVE Rank(v) \in 0 .. Cardinality(U) - 1
  <2>1. Below(v) \in SUBSET U /\ v \in U \ Below(v)
    BY <1>1
  <2>2. Cardinality(Below(v)) < Cardinality(U) /\ Cardinality(Below(v)) \in Nat
          /\ Cardinality(U) \in Nat
    BY <1>2, <2>1, UnionFacts
  <2>3. QED
    BY <2>2 DEF Rank
<1>4. ASSUME NEW u \in U, NEW v \in U, u < v PROVE Rank(u) < Rank(v)
  <2>1. Below(u) \in SUBSET Below(v) /\ u \in Below(v) \ Below(u)
    BY <1>1, <1>4
  <2>2. Below(v) \in SUBSET U
    OBVIOUS
  <2>3. QED
    BY <1>2, <2>1, <2>2 DEF Rank
<1>5. ASSUME NEW u \in U, NEW v \in U, Rank(u) = Rank(v) PROVE u = v
  <2>1. u \in Int /\ v \in Int /\ Rank(u) \in Int
    BY <1>1, <1>3
  <2>2. ~(Rank(u) < Rank(v)) /\ ~(Rank(v) < Rank(u))
    BY <1>5, <2>1
  <2>3. QED
    BY <1>4, <2>1, <2>2
<1>6. QED
  BY <1>3, <1>4, <1>5

\* Every place up to the number of selected vertices is taken.
LEMMA SelectedVertexFacts ==
  ASSUME NEW i \in Nat, i < Cardinality(UnionVertices(batch))
  PROVE  SelectedVertex(i) \in UnionVertices(batch) /\ Rank(SelectedVertex(i)) = i
<1> DEFINE U == UnionVertices(batch)
           n == Cardinality(U)
           T == {Rank(v) : v \in U}
           f == [v \in U |-> Rank(v)]
<1>1. IsFiniteSet(U) /\ n \in Nat
  BY UnionFacts
<1>2. f \in Bijection(U, T)
  <2>1. f \in [U -> T]
    OBVIOUS
  <2>2. \A x, y \in U : f[x] = f[y] => x = y
    BY RankFacts
  <2>3. \A t \in T : \E x \in U : f[x] = t
    OBVIOUS
  <2>4. QED
    BY <2>1, <2>2, <2>3 DEF Bijection, Injection, Surjection, IsInjective
<1>3. IsFiniteSet(T) /\ Cardinality(T) = n
  <2>1. ExistsBijection(U, T)
    BY <1>2 DEF ExistsBijection
  <2> HIDE DEF T
  <2>2. QED
    BY <1>1, <2>1, FS_Bijection
<1>4. T \in SUBSET (0 .. n - 1)
  BY RankFacts
<1>5. T = 0 .. n - 1
  <2> DEFINE I == 0 .. n - 1
  <2> HIDE DEF T, n
  <2>1. IsFiniteSet(I) /\ Cardinality(I) = n
    BY <1>1, FS_Interval
  <2> HIDE DEF I
  <2>2. T = I
    BY <1>3, <1>4, <2>1, FS_Subset DEF I
  <2>3. QED
    BY <2>2 DEF I
<1>6. i \in T
  <2> HIDE DEF T
  <2>1. QED
    BY <1>1, <1>5
<1>7. \E v \in U : Rank(v) = i
  BY <1>6
<1>8. QED
  BY <1>7 DEF SelectedVertex, Rank

LEMMA SelectedVertexOfRank ==
  ASSUME NEW v \in UnionVertices(batch)
  PROVE  SelectedVertex(Rank(v)) = v
<1>1. Rank(v) \in Nat /\ Rank(v) < Cardinality(UnionVertices(batch))
  BY RankFacts, UnionFacts
<1>2. QED
  BY <1>1, SelectedVertexFacts, RankFacts

LEMMA WaveFacts ==
  /\ WaveCount \in Nat \ {0}
  /\ Waves \subseteq Nat
  /\ \A w \in Waves : w % WaveCount = w
  /\ \A v \in UnionVertices(batch) : Rank(v) \in Nat /\ Owner(v) \in Waves
<1>1. WaveCount \in Nat \ {0}
  BY EngineAssumption
<1>2. \A v \in UnionVertices(batch) : Rank(v) \in Nat
  BY RankFacts, UnionFacts
<1>3. \A i \in Nat : i % WaveCount \in 0 .. WaveCount - 1
  BY <1>1
<1>4. QED
  BY <1>1, <1>2, <1>3 DEF Waves, Owner

LEMMA ThereIsALane == BatchIds # {} => LanePairs # {}
<1> SUFFICES ASSUME NEW b \in BatchIds PROVE LanePairs # {}
  OBVIOUS
<1>1. PICK l \in Batches[b].valid_lane_mask : TRUE
  BY BatchAssumption
<1>2. l \in Lanes
  BY LanesInBatch
<1>3. <<b, l>> \in LanePairs
  BY <1>1, <1>2 DEF LanePairs
<1>4. QED
  BY <1>3

\* A wave's next vertex, and that none of its vertices lies before its first.
LEMMA ShareNext ==
  ASSUME batch \in BatchIds, NEW w \in Waves, NEW i \in Nat, i % WaveCount = w
  PROVE  /\ i + WaveCount \in Nat
         /\ (i + WaveCount) % WaveCount = w
         /\ \A v \in UnionVertices(batch) : Owner(v) = w =>
              (Rank(v) < i + WaveCount <=> Rank(v) < i \/ Rank(v) = i)
<1>1. WaveCount \in Nat \ {0}
  BY WaveFacts
<1>2. Q!GraphAssumption /\ Q!QueryAssumption
  BY ThereIsALane, QueryFacts
<1>3. (i + WaveCount) % WaveCount = i % WaveCount
  BY <1>1, <1>2, Q!ShareSteps
<1>4. ASSUME NEW v \in UnionVertices(batch), Owner(v) = w
      PROVE  Rank(v) < i + WaveCount <=> Rank(v) < i \/ Rank(v) = i
  <2>1. Rank(v) \in Nat /\ Rank(v) % WaveCount = i % WaveCount
    BY <1>4, WaveFacts DEF Owner
  <2>2. i < Rank(v) => i + WaveCount <= Rank(v)
    BY <1>1, <1>2, <2>1, Q!ShareHasGaps
  <2>3. QED
    BY <1>1, <2>1, <2>2
<1>5. QED
  BY <1>1, <1>3, <1>4

LEMMA ShareFirst ==
  ASSUME batch \in BatchIds, NEW v \in UnionVertices(batch)
  PROVE  Owner(v) <= Rank(v)
<1>1. WaveCount \in Nat \ {0} /\ Rank(v) \in Nat /\ Owner(v) \in 0 .. WaveCount - 1
  BY WaveFacts DEF Waves
<1>2. Q!GraphAssumption /\ Q!QueryAssumption
  BY ThereIsALane, QueryFacts
<1>3. QED
  BY <1>1, <1>2, Q!ShareStarts DEF Owner

\* The vertex a wave is at.
LEMMA CurrentFacts ==
  ASSUME NEW w \in Waves, wave[w].index \in Nat
  PROVE  /\ HasVertex(w) => /\ Current(w) \in UnionVertices(batch)
                            /\ Rank(Current(w)) = wave[w].index
         /\ \A v \in UnionVertices(batch) :
              /\ Rank(v) = wave[w].index => v = Current(w)
              /\ ~HasVertex(w) => Rank(v) < wave[w].index
<1>1. HasVertex(w) => /\ Current(w) \in UnionVertices(batch)
                      /\ Rank(Current(w)) = wave[w].index
  BY SelectedVertexFacts DEF HasVertex, Current
<1>2. ASSUME NEW v \in UnionVertices(batch), Rank(v) = wave[w].index
      PROVE  v = Current(w)
  BY <1>2, SelectedVertexOfRank DEF Current
<1>3. ASSUME NEW v \in UnionVertices(batch), ~HasVertex(w)
      PROVE  Rank(v) < wave[w].index
  BY <1>3, RankFacts, UnionFacts DEF HasVertex
<1>4. QED
  BY <1>1, <1>2, <1>3

\* What an edge of a lane joins.
LEMMA LaneEdgeFacts ==
  ASSUME batch \in BatchIds, NEW l \in Lanes, NEW e \in Edges
  PROVE  /\ Source[e] \in Vertices /\ Destination[e] \in Vertices
         /\ Weight[e] \in 0 .. Infinity - 1
         /\ l \in RunLaneMask(batch, e) <=>
              Selects(l, Source[e]) /\ Selects(l, Destination[e])
         /\ l \in RunLaneMask(batch, e) <=> e \in LaneAdmitted(batch, l)
BY EdgeType DEF RunLaneMask, LaneAdmitted, Selects

LEMMA SelectsFacts ==
  ASSUME batch \in BatchIds, NEW l \in Lanes, NEW v \in Vertices, Selects(l, v)
  PROVE  v \in UnionVertices(batch) /\ l \in Valid
<1>1. v \in UnionVertices(batch)
  BY DEF Selects, UnionVertices
<1>2. OwnerTile[v] \in Batches[batch].tiles[l]
  BY DEF Selects, VertexLanes
<1>3. l \in Valid
  BY <1>2, BatchAssumption DEF Valid
<1>4. QED
  BY <1>1, <1>3
-----------------------------------------------------------------------------
(***************************************************************************)
(* The controller between rounds                                           *)
(***************************************************************************)
LEMMA OptionsType ==
  ASSUME NEW options \in Options
  PROVE  /\ options.engine \in {"jacobi_pull", "dense_chaotic_push"}
         /\ options.maximum_rounds \in Nat \ {0}
         /\ options.enable_per_lane_convergence \in Slots
BY EngineAssumption

LEMMA FreshType ==
  ASSUME NEW options \in Options, NEW lanes \in SUBSET Lanes
  PROVE  InitializeDeviceController(options, lanes, 0) \in DeviceControllers
<1> DEFINE c == InitializeDeviceController(options, lanes, 0)
           sizes == [slot \in Slots |->
                       IF slot = 0 /\ options.engine = "frontier_push" THEN 0 ELSE 0]
<1>1. /\ options.engine \in EngineKinds
      /\ options.maximum_rounds \in Nat
      /\ options.enable_per_lane_convergence \in Slots
  BY OptionsType DEF EngineKinds
<1>2. sizes \in [Slots -> Nat]
  OBVIOUS
<1>3. /\ 0 \in Slots /\ 1 \in Slots
      /\ (IF options.engine = "jacobi_pull" THEN 1 ELSE 0) \in Slots
      /\ "none" \in StopReasons
      /\ {} \in SUBSET ErrorReasons /\ {} \in SUBSET Lanes
      /\ 0 \in Nat /\ FALSE \in BOOLEAN
  BY DEF Slots, StopReasons
<1> HIDE DEF sizes
<1>4. c = [valid_lane_mask             |-> lanes,
           active_lane_mask            |-> lanes,
           changed_lane_mask           |-> {},
           converged_lane_mask         |-> {},
           execute_lane_mask           |-> lanes,
           engine_kind                 |-> options.engine,
           enable_per_lane_convergence |-> options.enable_per_lane_convergence,
           rounds_completed            |-> 0,
           maximum_rounds              |-> options.maximum_rounds,
           distance_read_slot          |-> 0,
           distance_write_slot         |-> IF options.engine = "jacobi_pull"
                                             THEN 1 ELSE 0,
           frontier_read_slot          |-> 0,
           frontier_write_slot         |-> 1,
           frontier_size               |-> sizes,
           next_frontier_lane_mask     |-> {},
           done                        |-> FALSE,
           stop_reason                 |-> "none",
           error_bits                  |-> {}]
  BY DEF InitializeDeviceController, sizes
<1>5. lanes \in SUBSET Lanes
  OBVIOUS
<1> HIDE DEF c
<1>6. c \in DeviceControllers
  BY <1>1, <1>2, <1>3, <1>4, <1>5, Zenon DEF DeviceControllers
<1>7. QED
  BY <1>6 DEF c

LEMMA FreshIsSound ==
  ASSUME run_options \in Options, batch \in BatchIds
  PROVE  LET c == InitializeDeviceController(run_options, Valid, 0)
         IN /\ SoundController(c)
            /\ c.rounds_completed = 0 /\ c.changed_lane_mask = {}
            /\ c.distance_read_slot = 0 /\ c.converged_lane_mask = {}
            /\ c.distance_write_slot = IF Pulls THEN 1 ELSE 0
            /\ c.execute_lane_mask = Valid /\ ~c.done
<1>1. Valid # {}
  BY BatchAssumption DEF Valid
<1>2. QED
  BY <1>1, OptionsType DEF SoundController, InitializeDeviceController, Pulls

\* What a round's end leaves of a controller, slots aside.
SameSetup(c, d) ==
  /\ d.valid_lane_mask = c.valid_lane_mask
  /\ d.engine_kind = c.engine_kind
  /\ d.maximum_rounds = c.maximum_rounds
  /\ d.frontier_read_slot = c.frontier_read_slot
  /\ d.frontier_write_slot = c.frontier_write_slot
  /\ d.next_frontier_lane_mask = c.next_frontier_lane_mask
  /\ d.error_bits = c.error_bits

SameSlots(c, d) ==
  /\ d.distance_read_slot = c.distance_read_slot
  /\ d.distance_write_slot = c.distance_write_slot

\* Controller d is c after a round, slots aside.
EndOfRound(c, d) ==
  /\ d \in DeviceControllers
  /\ SameSetup(c, d)
  /\ d.rounds_completed = c.rounds_completed + 1
  /\ d.changed_lane_mask = {}
  /\ d.active_lane_mask = ActiveAfterRound(c)
  /\ d.converged_lane_mask = ConvergedAfterRound(c)
  /\ IF ActiveAfterRound(c) = {}
       THEN /\ d.done /\ d.stop_reason = "converged"
            /\ d.execute_lane_mask = {}
     ELSE IF c.rounds_completed + 1 = c.maximum_rounds
       THEN /\ d.done /\ d.stop_reason = "maximum_rounds"
            /\ d.execute_lane_mask = {}
     ELSE /\ ~d.done /\ d.stop_reason = "none"
          /\ d.execute_lane_mask = ActiveAfterRound(c)

\* The pieces of FinishSweepRound and of the exchange of the slots.
Counted(c, rounds, active, converged) ==
  [c EXCEPT !.rounds_completed    = rounds,
            !.active_lane_mask    = active,
            !.converged_lane_mask = converged,
            !.changed_lane_mask   = {}]

Ended(c, reason) ==
  [c EXCEPT !.execute_lane_mask = {}, !.done = TRUE, !.stop_reason = reason]

Continued(c, execute) == [c EXCEPT !.execute_lane_mask = execute]

Exchanged(c) ==
  [c EXCEPT !.distance_read_slot  = c.distance_write_slot,
            !.distance_write_slot = c.distance_read_slot]

Raised(c, lanes) == [c EXCEPT !.changed_lane_mask = @ \union lanes]

LEMMA CountedFields ==
  ASSUME NEW c \in DeviceControllers, NEW rounds \in Nat,
         NEW active \in SUBSET Lanes, NEW converged \in SUBSET Lanes
  PROVE  LET d == Counted(c, rounds, active, converged)
         IN /\ d \in DeviceControllers
            /\ SameSetup(c, d) /\ SameSlots(c, d)
            /\ d.rounds_completed = rounds
            /\ d.active_lane_mask = active
            /\ d.converged_lane_mask = converged
            /\ d.changed_lane_mask = {}
            /\ d.execute_lane_mask = c.execute_lane_mask
            /\ (d.done <=> c.done) /\ d.stop_reason = c.stop_reason
BY DEF Counted, DeviceControllers, SameSetup, SameSlots

LEMMA EndedFields ==
  ASSUME NEW c \in DeviceControllers, NEW reason \in StopReasons
  PROVE  LET d == Ended(c, reason)
         IN /\ d \in DeviceControllers
            /\ SameSetup(c, d) /\ SameSlots(c, d)
            /\ d.rounds_completed = c.rounds_completed
            /\ d.active_lane_mask = c.active_lane_mask
            /\ d.converged_lane_mask = c.converged_lane_mask
            /\ d.changed_lane_mask = c.changed_lane_mask
            /\ d.execute_lane_mask = {}
            /\ d.done /\ d.stop_reason = reason
BY DEF Ended, DeviceControllers, SameSetup, SameSlots

LEMMA ContinuedFields ==
  ASSUME NEW c \in DeviceControllers, NEW execute \in SUBSET Lanes
  PROVE  LET d == Continued(c, execute)
         IN /\ d \in DeviceControllers
            /\ SameSetup(c, d) /\ SameSlots(c, d)
            /\ d.rounds_completed = c.rounds_completed
            /\ d.active_lane_mask = c.active_lane_mask
            /\ d.converged_lane_mask = c.converged_lane_mask
            /\ d.changed_lane_mask = c.changed_lane_mask
            /\ d.execute_lane_mask = execute
            /\ (d.done <=> c.done) /\ d.stop_reason = c.stop_reason
BY DEF Continued, DeviceControllers, SameSetup, SameSlots

LEMMA SwappedFields ==
  ASSUME NEW c \in DeviceControllers
  PROVE  LET d == Exchanged(c)
         IN /\ d \in DeviceControllers
            /\ SameSetup(c, d)
            /\ d.distance_read_slot = c.distance_write_slot
            /\ d.distance_write_slot = c.distance_read_slot
            /\ d.rounds_completed = c.rounds_completed
            /\ d.active_lane_mask = c.active_lane_mask
            /\ d.converged_lane_mask = c.converged_lane_mask
            /\ d.changed_lane_mask = c.changed_lane_mask
            /\ d.execute_lane_mask = c.execute_lane_mask
            /\ (d.done <=> c.done) /\ d.stop_reason = c.stop_reason
            /\ d.enable_per_lane_convergence = c.enable_per_lane_convergence
BY DEF Exchanged, DeviceControllers, SameSetup

LEMMA RaisedFields ==
  ASSUME NEW c \in DeviceControllers, NEW lanes \in SUBSET Lanes
  PROVE  LET d == Raised(c, lanes)
         IN /\ d \in DeviceControllers
            /\ SameSetup(c, d) /\ SameSlots(c, d)
            /\ d.rounds_completed = c.rounds_completed
            /\ d.active_lane_mask = c.active_lane_mask
            /\ d.converged_lane_mask = c.converged_lane_mask
            /\ d.changed_lane_mask = c.changed_lane_mask \union lanes
            /\ d.execute_lane_mask = c.execute_lane_mask
            /\ (d.done <=> c.done) /\ d.stop_reason = c.stop_reason
BY DEF Raised, DeviceControllers, SameSetup, SameSlots

LEMMA AfterRoundType ==
  ASSUME NEW c \in DeviceControllers
  PROVE  /\ ActiveAfterRound(c) \in SUBSET Lanes
         /\ ConvergedAfterRound(c) \in SUBSET Lanes
BY DEF DeviceControllers, ActiveAfterRound, ConvergedAfterRound

LEMMA FinishEffect ==
  ASSUME NEW c \in DeviceControllers, ~c.done, c.stop_reason = "none"
  PROVE  LET d == FinishSweepRound(c) IN EndOfRound(c, d) /\ SameSlots(c, d)
<1> DEFINE active  == ActiveAfterRound(c)
           settled == ConvergedAfterRound(c)
           rounds  == c.rounds_completed + 1
           counted == Counted(c, rounds, active, settled)
           going   == Continued(counted, active)
<1>1. active \in SUBSET Lanes /\ settled \in SUBSET Lanes /\ rounds \in Nat
  BY AfterRoundType DEF DeviceControllers
<1>2. FinishSweepRound(c) =
        IF counted.active_lane_mask = {} THEN Ended(counted, "converged")
        ELSE IF counted.rounds_completed = c.maximum_rounds
          THEN Ended(counted, "maximum_rounds")
        ELSE Continued(counted, counted.active_lane_mask)
  BY DEF FinishSweepRound, Counted, Ended, Continued
<1> HIDE DEF active, settled, rounds
<1>3. /\ counted \in DeviceControllers
      /\ SameSetup(c, counted) /\ SameSlots(c, counted)
      /\ counted.rounds_completed = rounds
      /\ counted.active_lane_mask = active
      /\ counted.converged_lane_mask = settled
      /\ counted.changed_lane_mask = {}
      /\ (counted.done <=> c.done) /\ counted.stop_reason = c.stop_reason
  BY <1>1, CountedFields
<1> HIDE DEF counted
<1>4. ASSUME NEW r \in {"converged", "maximum_rounds"}
      PROVE  /\ Ended(counted, r) \in DeviceControllers
             /\ SameSetup(counted, Ended(counted, r))
             /\ SameSlots(counted, Ended(counted, r))
             /\ Ended(counted, r).rounds_completed = rounds
             /\ Ended(counted, r).active_lane_mask = active
             /\ Ended(counted, r).converged_lane_mask = settled
             /\ Ended(counted, r).changed_lane_mask = {}
             /\ Ended(counted, r).execute_lane_mask = {}
             /\ Ended(counted, r).done /\ Ended(counted, r).stop_reason = r
  <2>1. r \in StopReasons
    BY DEF StopReasons
  <2>2. QED
    BY <1>3, <2>1, EndedFields
<1>5. /\ going \in DeviceControllers
      /\ SameSetup(counted, going) /\ SameSlots(counted, going)
      /\ going.rounds_completed = rounds
      /\ going.active_lane_mask = active
      /\ going.converged_lane_mask = settled
      /\ going.changed_lane_mask = {}
      /\ going.execute_lane_mask = active
      /\ ~going.done /\ going.stop_reason = "none"
  BY <1>1, <1>3, ContinuedFields
<1> HIDE DEF going
<1>6. CASE active = {}
  <2>1. FinishSweepRound(c) = Ended(counted, "converged")
    BY <1>2, <1>3, <1>6
  <2>2. QED
    BY <1>3, <1>4, <1>6, <2>1
    DEF EndOfRound, SameSetup, SameSlots, rounds, active, settled
<1>7. CASE active # {} /\ rounds = c.maximum_rounds
  <2>1. FinishSweepRound(c) = Ended(counted, "maximum_rounds")
    BY <1>2, <1>3, <1>7
  <2>2. QED
    BY <1>3, <1>4, <1>7, <2>1
    DEF EndOfRound, SameSetup, SameSlots, rounds, active, settled
<1>8. CASE active # {} /\ rounds # c.maximum_rounds
  <2>1. FinishSweepRound(c) = going
    BY <1>2, <1>3, <1>8 DEF going
  <2>2. QED
    BY <1>3, <1>5, <1>8, <2>1
    DEF EndOfRound, SameSetup, SameSlots, rounds, active, settled
<1>9. QED
  BY <1>6, <1>7, <1>8

\* When the lanes of a set have been the ones that changed, the controller of
\* the next round is sound and the lanes it takes for converged are the ones
\* that were, and quiet ones.
LEMMA EndOfRoundIsSound ==
  ASSUME NEW c \in DeviceControllers, NEW d,
         SoundController(c), ~c.done, EndOfRound(c, d),
         IF Pulls THEN d.distance_read_slot # d.distance_write_slot
                  ELSE d.distance_read_slot = 0 /\ d.distance_write_slot = 0
  PROVE  /\ SoundController(d)
         /\ d.converged_lane_mask
              \subseteq c.converged_lane_mask
                          \union (c.execute_lane_mask \ c.changed_lane_mask)
         /\ d.execute_lane_mask \subseteq c.execute_lane_mask
<1> DEFINE A == c.active_lane_mask
           X == c.changed_lane_mask
           C == c.converged_lane_mask
<1>1. /\ c.execute_lane_mask = A /\ X \subseteq A /\ A # {}
      /\ A \union C = Valid /\ A \intersect C = {}
      /\ c.rounds_completed \in Nat /\ c.maximum_rounds \in Nat
      /\ c.rounds_completed < c.maximum_rounds
  BY DEF SoundController, DeviceControllers
<1>2. /\ c.valid_lane_mask = Valid /\ c.engine_kind = run_options.engine
      /\ c.frontier_read_slot = 0 /\ c.frontier_write_slot = 1
      /\ c.next_frontier_lane_mask = {} /\ c.error_bits = {}
      /\ c.maximum_rounds # 0
  BY DEF SoundController
<1>3. /\ ActiveAfterRound(c) = IF c.enable_per_lane_convergence = 1 THEN X
                               ELSE IF X = {} THEN {} ELSE A
      /\ ConvergedAfterRound(c) = IF c.enable_per_lane_convergence = 1
                                    THEN C \union (A \ X)
                                  ELSE IF X = {} THEN Valid ELSE C
  <2>1. X \intersect A = X /\ A \intersect X = X
    BY <1>1
  <2>2. QED
    BY <1>1, <1>2, <2>1 DEF ActiveAfterRound, ConvergedAfterRound
<1>4. /\ ActiveAfterRound(c) \union ConvergedAfterRound(c) = Valid
      /\ ActiveAfterRound(c) \intersect ConvergedAfterRound(c) = {}
      /\ ConvergedAfterRound(c) \subseteq C \union (A \ X)
      /\ ActiveAfterRound(c) \subseteq A
  BY <1>1, <1>3
<1>5. SoundController(d)
  <2>1. /\ d.valid_lane_mask = Valid /\ d.engine_kind = run_options.engine
        /\ d.frontier_read_slot = 0 /\ d.frontier_write_slot = 1
        /\ d.next_frontier_lane_mask = {} /\ d.error_bits = {}
        /\ d.maximum_rounds = c.maximum_rounds /\ d.maximum_rounds # 0
    BY <1>2 DEF EndOfRound, SameSetup
  <2>2. /\ d.rounds_completed = c.rounds_completed + 1
        /\ d.active_lane_mask = ActiveAfterRound(c)
        /\ d.converged_lane_mask = ConvergedAfterRound(c)
        /\ d.changed_lane_mask = {}
    BY DEF EndOfRound
  <2>3. IF ~d.done
          THEN /\ d.execute_lane_mask = d.active_lane_mask
               /\ d.active_lane_mask # {}
               /\ d.stop_reason = "none"
               /\ d.rounds_completed < d.maximum_rounds
          ELSE /\ d.execute_lane_mask = {}
               /\ \/ d.stop_reason = "converged" /\ d.active_lane_mask = {}
                  \/ /\ d.stop_reason = "maximum_rounds"
                     /\ d.rounds_completed = d.maximum_rounds
    <3>1. CASE ActiveAfterRound(c) = {}
      BY <2>2, <3>1 DEF EndOfRound
    <3>2. CASE ActiveAfterRound(c) # {} /\ c.rounds_completed + 1 = c.maximum_rounds
      BY <2>1, <2>2, <3>2 DEF EndOfRound
    <3>3. CASE ActiveAfterRound(c) # {} /\ c.rounds_completed + 1 # c.maximum_rounds
      BY <1>1, <2>1, <2>2, <3>3 DEF EndOfRound
    <3>4. QED
      BY <3>1, <3>2, <3>3
  <2>4. d.rounds_completed <= d.maximum_rounds
    BY <1>1, <2>1, <2>2
  <2>5. QED
    BY <1>4, <2>1, <2>2, <2>3, <2>4 DEF SoundController
<1>6. d.execute_lane_mask \subseteq ActiveAfterRound(c)
  BY DEF EndOfRound
<1>7. QED
  BY <1>1, <1>4, <1>5, <1>6 DEF EndOfRound

AdvancedController ==
  IF Pulls THEN AdvanceJacobiController(controller)
           ELSE AdvanceDenseController(controller)

\* Both advance functions end the round of a sound controller; Jacobi's
\* exchanges the slots.
LEMMA AdvanceEffect ==
  ASSUME TypeInv, SoundController(controller), ~controller.done
  PROVE  LET d == AdvancedController
         IN /\ EndOfRound(controller, d)
            /\ Pulls => /\ d.distance_read_slot = controller.distance_write_slot
                        /\ d.distance_write_slot = controller.distance_read_slot
            /\ ~Pulls => SameSlots(controller, d)
<1> DEFINE c == controller
           s == Exchanged(c)
<1>1. c \in DeviceControllers /\ run_options \in Options
  BY DEF TypeInv
<1>2. SweepRoundMayEnd(c) /\ c.stop_reason = "none"
  BY BatchAssumption DEF SoundController, SweepRoundMayEnd
<1>3. CASE Pulls
  <2>1. AdvancedController = FinishSweepRound(s)
    BY <1>2, <1>3 DEF AdvancedController, AdvanceJacobiController, SoundController,
       Exchanged, Pulls
  <2>2. /\ s \in DeviceControllers
        /\ SameSetup(c, s)
        /\ s.distance_read_slot = c.distance_write_slot
        /\ s.distance_write_slot = c.distance_read_slot
        /\ s.rounds_completed = c.rounds_completed
        /\ s.active_lane_mask = c.active_lane_mask
        /\ s.converged_lane_mask = c.converged_lane_mask
        /\ s.changed_lane_mask = c.changed_lane_mask
        /\ s.execute_lane_mask = c.execute_lane_mask
        /\ (s.done <=> c.done) /\ s.stop_reason = c.stop_reason
        /\ s.enable_per_lane_convergence = c.enable_per_lane_convergence
    BY <1>1, SwappedFields
  <2> HIDE DEF s
  <2>3. /\ ActiveAfterRound(s) = ActiveAfterRound(c)
        /\ ConvergedAfterRound(s) = ConvergedAfterRound(c)
    BY <2>2 DEF ActiveAfterRound, ConvergedAfterRound, SameSetup
  <2>4. EndOfRound(s, FinishSweepRound(s)) /\ SameSlots(s, FinishSweepRound(s))
    BY <1>2, <2>2, FinishEffect
  <2>5. EndOfRound(c, FinishSweepRound(s))
    BY <2>2, <2>3, <2>4 DEF EndOfRound, SameSetup
  <2>6. QED
    BY <1>3, <2>1, <2>2, <2>4, <2>5 DEF SameSlots
<1>4. CASE ~Pulls
  <2>1. run_options.engine = "dense_chaotic_push"
    BY <1>1, <1>4, OptionsType DEF Pulls
  <2>2. AdvancedController = FinishSweepRound(c)
    BY <1>2, <1>4, <2>1 DEF AdvancedController, AdvanceDenseController, SoundController
  <2>3. QED
    BY <1>1, <1>2, <1>4, <2>2, FinishEffect
<1>5. QED
  BY <1>3, <1>4
-----------------------------------------------------------------------------
(***************************************************************************)
(* What the step of a wave leaves alone                                    *)
(***************************************************************************)
\* Everything but the waves, the distances, the statistics and the changed
\* lanes of the controller.
SameRound ==
  /\ batch' = batch /\ run_options' = run_options /\ stage' = stage
  /\ run_lane_masks' = run_lane_masks
  /\ lane_convergence_rounds' = lane_convergence_rounds
  /\ status' = status /\ outputs' = outputs
  /\ controller' \in DeviceControllers
  /\ SameSetup(controller, controller') /\ SameSlots(controller, controller')
  /\ controller'.rounds_completed = controller.rounds_completed
  /\ controller'.active_lane_mask = controller.active_lane_mask
  /\ controller'.converged_lane_mask = controller.converged_lane_mask
  /\ controller'.execute_lane_mask = controller.execute_lane_mask
  /\ controller'.done = controller.done
  /\ controller'.stop_reason = controller.stop_reason

\* Only wave w has moved, to a state of the right type.
Moved(w) ==
  /\ wave' \in [Waves -> WaveStates]
  /\ \A x \in Waves \ {w} : wave'[x] = wave[x]

LEMMA SameRoundWhenControllerStays ==
  ASSUME TypeInv, UNCHANGED <<batch, run_options, stage, run_lane_masks,
                              lane_convergence_rounds, status, outputs, controller>>
  PROVE  SameRound
BY DEF TypeInv, SameRound, SameSetup, SameSlots

LEMMA ProblemStays ==
  ASSUME batch' = batch, run_options' = run_options
  PROVE  /\ Valid' = Valid /\ (Pulls' <=> Pulls)
         /\ \A v : Rank(v)' = Rank(v)
         /\ \A v : Owner(v)' = Owner(v)
         /\ \A l, v : Selects(l, v)' <=> Selects(l, v)
         /\ \A l, k : After(l, k)' = After(l, k)
         /\ \A l : Shortest(l)' = Shortest(l)
BY DEF Valid, Pulls, Rank, Owner, Selects, After, Shortest

LEMMA EntryType == AtEntry \in WaveStates /\ [AtEntry EXCEPT !.pc = "sync"] \in WaveStates
<1>1. 0 \in Distances
  BY GraphAssumption DEF Distances
<1>2. QED
  BY <1>1 DEF AtEntry, WaveStates, WaveOperations

LEMMA EnterRoundEffect ==
  ASSUME TypeInv, NEW w \in Waves, EnterRound(w)
  PROVE  /\ stage = "round" /\ SameRound /\ Moved(w)
         /\ distances' = distances /\ controller' = controller
         /\ wave[w].pc = "enter"
         /\ wave'[w].pc = IF Execute THEN "vertex" ELSE "publish"
         /\ wave'[w].index = w
         /\ wave'[w].edge = wave[w].edge
         /\ wave'[w].changed = wave[w].changed
<1>1. w \in Nat /\ wave \in [Waves -> WaveStates]
  BY WaveFacts DEF TypeInv
<1>2. SameRound /\ stage = "round" /\ distances' = distances
        /\ controller' = controller /\ wave[w].pc = "enter"
  BY SameRoundWhenControllerStays
  DEF EnterRound, AtOperation, scratchVars, deviceVars, hostVars
<1>3. QED
  BY <1>1, <1>2 DEF EnterRound, Moved, WaveStates, WaveOperations

LEMMA FinishShareEffect ==
  ASSUME TypeInv, NEW w \in Waves, FinishShare(w)
  PROVE  /\ stage = "round" /\ SameRound /\ Moved(w)
         /\ distances' = distances /\ controller' = controller
         /\ wave[w].pc = "vertex" /\ ~HasVertex(w)
         /\ wave'[w].pc = "publish"
         /\ wave'[w].index = wave[w].index
         /\ wave'[w].edge = wave[w].edge
         /\ wave'[w].changed = wave[w].changed
<1>1. wave \in [Waves -> WaveStates]
  BY DEF TypeInv
<1>2. SameRound /\ stage = "round" /\ distances' = distances
        /\ controller' = controller /\ wave[w].pc = "vertex" /\ ~HasVertex(w)
  BY SameRoundWhenControllerStays
  DEF FinishShare, AtOperation, scratchVars, deviceVars, hostVars
<1>3. QED
  BY <1>1, <1>2 DEF FinishShare, Goto, Moved, WaveStates, WaveOperations

LEMMA FinishRowEffect ==
  ASSUME TypeInv, NEW w \in Waves, FinishRow(w)
  PROVE  /\ stage = "round" /\ SameRound /\ Moved(w) /\ ~Pulls
         /\ distances' = distances /\ controller' = controller
         /\ wave[w].pc = "vertex" /\ HasVertex(w) /\ Remaining(w) = {}
         /\ wave'[w].pc = "vertex"
         /\ wave'[w].index = wave[w].index + WaveCount
         /\ wave'[w].edge = 0
         /\ wave'[w].changed = wave[w].changed
<1>1. wave \in [Waves -> WaveStates] /\ WaveCount \in Nat
  BY WaveFacts DEF TypeInv
<1>2. SameRound /\ stage = "round" /\ distances' = distances /\ ~Pulls
        /\ controller' = controller /\ wave[w].pc = "vertex" /\ HasVertex(w)
        /\ Remaining(w) = {}
  BY SameRoundWhenControllerStays
  DEF FinishRow, AtOperation, scratchVars, deviceVars, hostVars
<1>3. wave' = [wave EXCEPT ![w] = [wave[w] EXCEPT !.index = wave[w].index + WaveCount,
                                                  !.edge  = 0]]
  BY <1>1 DEF FinishRow, WaveStates
<1>4. wave[w] \in WaveStates /\ wave[w].index + WaveCount \in Nat
  BY <1>1 DEF WaveStates
<1>5. [wave[w] EXCEPT !.index = wave[w].index + WaveCount, !.edge = 0] \in WaveStates
  BY <1>4 DEF WaveStates
<1>6. QED
  BY <1>1, <1>2, <1>3, <1>4, <1>5 DEF Moved, WaveStates

LEMMA PublishEffect ==
  ASSUME TypeInv, NEW w \in Waves, PublishChanged(w)
  PROVE  /\ stage = "round" /\ SameRound /\ Moved(w)
         /\ distances' = distances
         /\ controller'.changed_lane_mask =
              controller.changed_lane_mask \union wave[w].changed
         /\ wave[w].pc = "publish"
         /\ wave'[w] = [AtEntry EXCEPT !.pc = "sync"]
<1>1. /\ wave \in [Waves -> WaveStates] /\ wave[w].changed \in SUBSET Lanes
      /\ controller \in DeviceControllers
  BY DEF TypeInv, WaveStates
<1>2. controller' = Raised(controller, wave[w].changed)
  BY DEF PublishChanged, Raised
<1>3. SameRound /\ controller'.changed_lane_mask =
                     controller.changed_lane_mask \union wave[w].changed
  <2>1. UNCHANGED <<batch, run_options, stage, run_lane_masks,
                    lane_convergence_rounds, status, outputs>>
    BY DEF PublishChanged, scratchVars, hostVars
  <2> DEFINE d == Raised(controller, wave[w].changed)
  <2>2. /\ d \in DeviceControllers
        /\ SameSetup(controller, d) /\ SameSlots(controller, d)
        /\ d.rounds_completed = controller.rounds_completed
        /\ d.active_lane_mask = controller.active_lane_mask
        /\ d.converged_lane_mask = controller.converged_lane_mask
        /\ d.changed_lane_mask = controller.changed_lane_mask \union wave[w].changed
        /\ d.execute_lane_mask = controller.execute_lane_mask
        /\ (d.done <=> controller.done) /\ d.stop_reason = controller.stop_reason
    BY <1>1, RaisedFields
  <2>3. d.done \in BOOLEAN /\ controller.done \in BOOLEAN
    BY <1>1, <2>2 DEF DeviceControllers
  <2> HIDE DEF d
  <2>4. controller' = d
    BY <1>2 DEF d
  <2>5. QED
    BY <2>1, <2>2, <2>3, <2>4 DEF SameRound
<1>4. QED
  BY <1>1, <1>3, EntryType DEF PublishChanged, AtOperation, Moved, scratchVars
-----------------------------------------------------------------------------
(***************************************************************************)
(* Jacobi: a vertex's turn                                                 *)
(***************************************************************************)
LEMMA RunFacts ==
  ASSUME IInv, stage \in RunStages
  PROVE  /\ batch \in BatchIds /\ SoundController(controller)
         /\ Round \in Nat /\ ReadOf \in Slots /\ WriteOf \in Slots
         /\ Valid \in SUBSET Lanes
         /\ controller.execute_lane_mask \in SUBSET Valid
         /\ Pulls => ReadOf # WriteOf
         /\ ~Pulls => ReadOf = 0 /\ WriteOf = 0
         /\ wave \in [Waves -> WaveStates]
         /\ \A slot \in Slots, v \in Vertices, l \in Lanes :
              distances[slot][v][l] \in Distances
         /\ \A l \in Valid, k \in Nat : After(l, k) \in Assignments
         /\ \A l \in Valid : Shortest(l) \in Assignments
<1>1. batch \in BatchIds
  BY DEF IInv, TypeInv, RunStages
<1>2. SoundController(controller) /\ controller \in DeviceControllers
  BY DEF IInv, ControllerInv, TypeInv
<1>3. controller.execute_lane_mask \in SUBSET Valid
  BY <1>2 DEF SoundController
<1>4. Valid \in SUBSET Lanes
  BY <1>1, BatchFacts DEF Valid
<1>5. Round \in Nat /\ ReadOf \in Slots /\ WriteOf \in Slots
  BY <1>2 DEF DeviceControllers, Round, ReadOf, WriteOf
<1>6. \A l \in Valid : Shortest(l) \in Assignments /\ \A k \in Nat : After(l, k) \in Assignments
  BY <1>1, LanesInBatch DEF Valid, Shortest, After
<1>7. /\ wave \in [Waves -> WaveStates]
      /\ \A slot \in Slots, v \in Vertices, l \in Lanes : distances[slot][v][l] \in Distances
  BY DEF IInv, TypeInv
<1>8. (Pulls => ReadOf # WriteOf) /\ (~Pulls => ReadOf = 0 /\ WriteOf = 0)
  BY <1>2 DEF SoundController, ReadOf, WriteOf
<1>9. QED
  BY <1>1, <1>2, <1>3, <1>4, <1>5, <1>6, <1>7, <1>8

\* In a run the prepared masks of the edges a lane can use are the batch's own.
LEMMA MaskFacts ==
  ASSUME IInv, stage \in RunStages, NEW l \in Lanes, NEW e \in Edges,
         ~Pulls \/ Destination[e] \in UnionVertices(batch)
  PROVE  l \in run_lane_masks[e] <=> e \in LaneAdmitted(batch, l)
<1>1. batch \in BatchIds /\ run_lane_masks[e] = RunLaneMask(batch, e)
  BY RunFacts DEF IInv, MaskInv
<1>2. QED
  BY <1>1, LaneEdgeFacts

LEMMA NextRound ==
  ASSUME batch \in BatchIds, NEW l \in Valid, NEW k \in Nat
  PROVE  After(l, k + 1) = LaneRound(batch, l, After(l, k))
BY LanesAreQueries DEF LaneIsQuery, After, Valid

\* What a vertex's turn computes for a lane is its next Bellman-Ford round.
LEMMA BestIsNextRound ==
  ASSUME IInv, stage \in RunStages, Pulls,
         NEW v \in Vertices, NEW l \in Valid, Selects(l, v)
  PROVE  Best(v, l) = After(l, Round + 1)[v]
<1> DEFINE d == After(l, Round)
           In == {f \in Edges : Destination[f] = v /\ l \in run_lane_masks[f]}
           Admitted == {f \in LaneAdmitted(batch, l) : Destination[f] = v}
<1>1. batch \in BatchIds /\ l \in Lanes /\ Round \in Nat
  BY RunFacts
<1>2. v \in UnionVertices(batch)
  BY <1>1, SelectsFacts
<1>3. \A u \in Vertices : Selects(l, u) => Read[u][l] = d[u]
  BY DEF IInv, PullInv
<1>4. \A f \in Edges : Destination[f] = v =>
        (l \in run_lane_masks[f] <=> f \in LaneAdmitted(batch, l))
  BY <1>1, <1>2, MaskFacts
<1>5. In = Admitted
  BY <1>4 DEF LaneAdmitted
<1>6. ASSUME NEW e \in Admitted PROVE Read[Source[e]][l] = d[Source[e]]
  BY <1>1, <1>3, LaneEdgeFacts DEF LaneAdmitted
<1>7. {Plus(Read[Source[e]][l], Weight[e]) : e \in In}
        = {Plus(d[Source[e]], Weight[e]) : e \in Admitted}
  BY <1>5, <1>6
<1>8. Read[v][l] = d[v]
  BY <1>3
<1>9. Best(v, l) = Lowest({d[v]} \union {Plus(d[Source[e]], Weight[e]) : e \in Admitted})
  BY <1>7, <1>8 DEF Best, Min, Lowest
<1>10. Best(v, l) = LaneRound(batch, l, d)[v]
  BY <1>9 DEF LaneRound
<1>11. QED
  BY <1>1, <1>10, NextRound

\* A lane that is settled stays where it is in the round under way.
LEMMA SettledRound ==
  ASSUME IInv, stage \in RunStages, Pulls,
         NEW l \in Valid, lane_convergence_rounds[l] # 0
  PROVE  After(l, Round) = Shortest(l) /\ After(l, Round + 1) = Shortest(l)
<1>1. /\ batch \in BatchIds /\ l \in Lanes /\ Round \in Nat /\ ReadOf \in Slots
      /\ After(l, Round) \in Assignments /\ Shortest(l) \in Assignments
  BY RunFacts
<1>2. ASSUME NEW v \in Vertices PROVE After(l, Round)[v] = Shortest(l)[v]
  <2>1. CASE Selects(l, v)
    <3>1. Read[v][l] = After(l, Round)[v]
      BY <2>1 DEF IInv, PullInv
    <3>2. distances[ReadOf][v][l] = Shortest(l)[v]
      BY <1>1, <2>1 DEF IInv, SettledInv
    <3>3. QED
      BY <3>1, <3>2 DEF Read, ReadOf
  <2>2. CASE ~Selects(l, v)
    <3>1. After(l, Round)[v] = Infinity
      BY <1>1, <2>2, RoundsKeep DEF After, Selects, Valid
    <3>2. Shortest(l)[v] = Infinity
      BY <1>1, <2>2, UnselectedIsUnreached DEF Shortest, Selects, Valid
    <3>3. QED
      BY <3>1, <3>2
  <2>3. QED
    BY <2>1, <2>2
<1>3. After(l, Round) = Shortest(l)
  BY <1>1, <1>2 DEF Assignments
<1>4. After(l, Round + 1) = Shortest(l)
  BY <1>1, <1>3, ShortestStays DEF After, Shortest, Valid
<1>5. QED
  BY <1>3, <1>4

\* The set of lanes a wave sees change at a vertex.
LowersAt(v) == {l \in ExecutedLanes(v) : Best(v, l) < Read[v][l]}

LEMMA PullVertexEffect ==
  ASSUME IInv, NEW w \in Waves, PullVertex(w)
  PROVE  /\ stage = "round" /\ SameRound /\ Moved(w) /\ Pulls
         /\ controller' = controller
         /\ distances' \in [Slots -> [Vertices -> [Lanes -> Distances]]]
         /\ wave[w].pc = "vertex" /\ HasVertex(w)
         /\ wave'[w].pc = "vertex"
         /\ wave'[w].index = wave[w].index + WaveCount
         /\ wave'[w].edge = wave[w].edge
         /\ wave'[w].changed = wave[w].changed \union LowersAt(Current(w))
         /\ \A slot \in Slots, v \in Vertices, l \in Lanes :
              distances'[slot][v][l] =
                IF slot = WriteOf /\ v = Current(w) /\ l \in ExecutedLanes(v)
                  THEN After(l, Round + 1)[v] ELSE distances[slot][v][l]
<1> DEFINE c == Current(w)
<1>1. /\ stage = "round" /\ Pulls /\ HasVertex(w) /\ wave[w].pc = "vertex"
      /\ controller' = controller /\ SameRound
  BY SameRoundWhenControllerStays
  DEF PullVertex, AtOperation, hostVars, IInv
<1>2. stage \in RunStages
  BY <1>1 DEF RunStages
<1>3. /\ batch \in BatchIds /\ wave \in [Waves -> WaveStates] /\ Round \in Nat
      /\ WriteOf \in Slots /\ WaveCount \in Nat
      /\ distances \in [Slots -> [Vertices -> [Lanes -> Distances]]]
      /\ Valid \in SUBSET Lanes
      /\ \A l \in Valid : After(l, Round + 1) \in Assignments
  BY <1>2, RunFacts, WaveFacts DEF IInv, TypeInv
<1>4. c \in Vertices
  BY <1>1, <1>3, CurrentFacts, UnionFacts DEF WaveStates
<1>5. ExecutedLanes(c) \in SUBSET Valid /\ \A l \in ExecutedLanes(c) : Selects(l, c)
  BY <1>2, RunFacts DEF ExecutedLanes, Selects
<1>6. \A l \in ExecutedLanes(c) :
        Best(c, l) = After(l, Round + 1)[c] /\ Best(c, l) \in Distances
  BY <1>1, <1>2, <1>3, <1>4, <1>5, BestIsNextRound DEF Assignments
<1>7. /\ Written(c) \in [Lanes -> Distances]
      /\ \A l \in Lanes : Written(c)[l] = IF l \in ExecutedLanes(c)
                                            THEN After(l, Round + 1)[c]
                                            ELSE distances[WriteOf][c][l]
  BY <1>3, <1>4, <1>6 DEF Written, WriteOf
<1>8. distances' = [distances EXCEPT ![WriteOf][c] = Written(c)]
  BY DEF PullVertex, WriteOf
<1>9. /\ distances' \in [Slots -> [Vertices -> [Lanes -> Distances]]]
      /\ \A slot \in Slots, v \in Vertices :
           distances'[slot][v] = IF slot = WriteOf /\ v = c THEN Written(c)
                                                            ELSE distances[slot][v]
  <2> HIDE DEF c
  <2>1. QED
    BY <1>3, <1>4, <1>7, <1>8
<1>10. \A slot \in Slots, v \in Vertices, l \in Lanes :
         distances'[slot][v][l] =
           IF slot = WriteOf /\ v = c /\ l \in ExecutedLanes(v)
             THEN After(l, Round + 1)[v] ELSE distances[slot][v][l]
  <2> HIDE DEF c
  <2>1. QED
    BY <1>7, <1>9
<1>11. wave' = [wave EXCEPT ![w] =
                 [wave[w] EXCEPT !.index   = wave[w].index + WaveCount,
                                 !.changed = wave[w].changed \union LowersAt(c)]]
  BY <1>3 DEF PullVertex, LowersAt, WaveStates
<1>12. wave[w] \in WaveStates /\ wave[w].index + WaveCount \in Nat
         /\ wave[w].changed \union LowersAt(c) \in SUBSET Lanes
  BY <1>3, <1>5 DEF WaveStates, LowersAt
<1>13. [wave[w] EXCEPT !.index   = wave[w].index + WaveCount,
                       !.changed = wave[w].changed \union LowersAt(c)] \in WaveStates
  BY <1>12 DEF WaveStates
<1>14. /\ Moved(w)
       /\ wave'[w].pc = "vertex"
       /\ wave'[w].index = wave[w].index + WaveCount
       /\ wave'[w].edge = wave[w].edge
       /\ wave'[w].changed = wave[w].changed \union LowersAt(c)
  BY <1>1, <1>3, <1>11, <1>12, <1>13 DEF Moved, WaveStates
<1>15. QED
  BY <1>1, <1>9, <1>10, <1>14
-----------------------------------------------------------------------------
(***************************************************************************)
(* Dense: an edge's turn                                                   *)
(***************************************************************************)
LEMMA RemainingFacts ==
  ASSUME NEW w \in Waves, Remaining(w) # {}
  PROVE  /\ Min(Remaining(w)) \in Remaining(w)
         /\ \A f \in Remaining(w) : Min(Remaining(w)) <= f
<1>1. Remaining(w) \in SUBSET Nat
  BY DEF Remaining, Edges
<1> DEFINE S == Remaining(w)
<1> HIDE DEF S
<1>2. \E x \in S : \A y \in S : x <= y
  BY <1>1, LeastNumber DEF S
<1>3. Min(S) \in S /\ \A f \in S : Min(S) <= f
  BY <1>2 DEF Min
<1>4. QED
  BY <1>3 DEF S

LEMMA LoadSourcesEffect ==
  ASSUME IInv, NEW w \in Waves, LoadSources(w)
  PROVE  LET e == wave'[w].edge
         IN /\ stage = "round" /\ SameRound /\ Moved(w) /\ ~Pulls
            /\ controller' = controller /\ distances' = distances
            /\ wave[w].pc = "vertex" /\ HasVertex(w)
            /\ wave'[w].pc = "minimum"
            /\ wave'[w].index = wave[w].index
            /\ wave'[w].changed = wave[w].changed
            /\ e \in Edges /\ Source[e] = Current(w)
            /\ \A l \in ActiveRunLanes(e) :
                 wave'[w].candidate[l] = Plus(distances[0][Source[e]][l], Weight[e])
            /\ \A f \in Remaining(w) : e <= f
<1> DEFINE e == Min(Remaining(w))
           offer == [l \in Lanes |-> IF l \in ActiveRunLanes(e)
                                       THEN Plus(distances[0][Source[e]][l], Weight[e])
                                       ELSE 0]
<1>1. /\ stage = "round" /\ ~Pulls /\ HasVertex(w) /\ wave[w].pc = "vertex"
      /\ controller' = controller /\ distances' = distances /\ SameRound
      /\ Remaining(w) # {}
  BY SameRoundWhenControllerStays
  DEF LoadSources, AtOperation, scratchVars, deviceVars, hostVars, IInv
<1>2. e \in Remaining(w) /\ \A f \in Remaining(w) : e <= f
  BY <1>1, RemainingFacts
<1>3. wave' = [wave EXCEPT ![w] = [wave[w] EXCEPT !.pc        = "minimum",
                                                  !.edge      = e,
                                                  !.candidate = offer]]
  BY DEF LoadSources, IInv, TypeInv, WaveStates
<1> HIDE DEF e
<1>4. e \in Edges /\ e \in Nat /\ Source[e] = Current(w)
  BY <1>2 DEF Remaining, Edges
<1>5. /\ wave \in [Waves -> WaveStates] /\ wave[w] \in WaveStates
      /\ \A l \in Lanes : distances[0][Source[e]][l] \in Distances
      /\ Weight[e] \in 0 .. Infinity - 1
  <2>1. Source[e] \in Vertices /\ Weight[e] \in 0 .. Infinity - 1
    BY <1>4, EdgeType
  <2>2. /\ wave \in [Waves -> WaveStates]
        /\ distances \in [Slots -> [Vertices -> [Lanes -> Distances]]]
        /\ 0 \in Slots
    BY DEF IInv, TypeInv, Slots
  <2>3. QED
    BY <2>1, <2>2
<1>6. offer \in [Lanes -> Distances]
  <2>1. ASSUME NEW l \in Lanes
        PROVE  Plus(distances[0][Source[e]][l], Weight[e]) \in Distances
    BY <1>5, PlusType
  <2>2. 0 \in Distances
    BY GraphAssumption DEF Distances
  <2>3. QED
    BY <2>1, <2>2
<1>7. \A l \in ActiveRunLanes(e) :
        offer[l] = Plus(distances[0][Source[e]][l], Weight[e])
  <2>1. ActiveRunLanes(e) \in SUBSET Lanes
    BY <1>4 DEF ActiveRunLanes, IInv, TypeInv
  <2>2. QED
    BY <2>1
<1> HIDE DEF offer
<1>8. [wave[w] EXCEPT !.pc = "minimum", !.edge = e, !.candidate = offer] \in WaveStates
  BY <1>4, <1>5, <1>6 DEF WaveStates, WaveOperations
<1>9. /\ Moved(w)
      /\ wave'[w].pc = "minimum" /\ wave'[w].index = wave[w].index
      /\ wave'[w].changed = wave[w].changed
      /\ wave'[w].edge = e /\ wave'[w].candidate = offer
  BY <1>3, <1>5, <1>8 DEF Moved, WaveStates
<1>10. QED
  BY <1>1, <1>2, <1>4, <1>7, <1>9

LEMMA LowerDestinationsEffect ==
  ASSUME IInv, NEW w \in Waves, LowerDestinations(w)
  PROVE  LET e == wave[w].edge
         IN /\ stage = "round" /\ SameRound /\ Moved(w) /\ ~Pulls
            /\ controller' = controller
            /\ distances' \in [Slots -> [Vertices -> [Lanes -> Distances]]]
            /\ wave[w].pc = "minimum"
            /\ wave'[w].pc = "vertex"
            /\ wave'[w].index = wave[w].index
            /\ wave'[w].edge = e /\ e \in Edges
            /\ wave'[w].changed = wave[w].changed \union Lowered(w)
            /\ \A slot \in Slots, v \in Vertices, l \in Lanes :
                 distances'[slot][v][l] =
                   IF slot = 0 /\ v = Destination[e] /\ l \in Lowered(w)
                     THEN wave[w].candidate[l] ELSE distances[slot][v][l]
<1> DEFINE e == wave[w].edge
           t == Destination[e]
           rest == [l \in Lanes |-> 0]
           row == [l \in Lanes |-> IF l \in Lowered(w) THEN wave[w].candidate[l]
                                                        ELSE distances[0][t][l]]
<1>1. /\ stage = "round" /\ wave[w].pc = "minimum"
      /\ controller' = controller /\ SameRound
  BY SameRoundWhenControllerStays
  DEF LowerDestinations, AtOperation, deviceVars, hostVars, IInv
<1>2. ~Pulls /\ e \in Edges
  BY <1>1 DEF IInv, WaveInv
<1>3. /\ wave \in [Waves -> WaveStates] /\ wave[w] \in WaveStates
      /\ wave[w].candidate \in [Lanes -> Distances]
      /\ wave[w].changed \in SUBSET Lanes
      /\ distances \in [Slots -> [Vertices -> [Lanes -> Distances]]]
      /\ 0 \in Slots
  BY DEF IInv, TypeInv, WaveStates, Slots
<1>4. t \in Vertices /\ Lowered(w) \in SUBSET Lanes
  BY <1>2, EdgeType DEF Lowered, ActiveRunLanes, IInv, TypeInv
<1>5. distances' = [distances EXCEPT ![0] = [distances[0] EXCEPT ![t] = row]]
  BY <1>3, <1>4 DEF LowerDestinations
<1>6. /\ row \in [Lanes -> Distances]
      /\ \A l \in Lanes : row[l] = IF l \in Lowered(w) THEN wave[w].candidate[l]
                                                        ELSE distances[0][t][l]
  BY <1>3, <1>4
<1> HIDE DEF row
<1>7. /\ distances' \in [Slots -> [Vertices -> [Lanes -> Distances]]]
      /\ \A slot \in Slots, v \in Vertices :
           distances'[slot][v] = IF slot = 0 /\ v = t THEN row ELSE distances[slot][v]
  <2> HIDE DEF t
  <2>1. QED
    BY <1>3, <1>4, <1>5, <1>6
<1>8. \A slot \in Slots, v \in Vertices, l \in Lanes :
        distances'[slot][v][l] =
          IF slot = 0 /\ v = t /\ l \in Lowered(w)
            THEN wave[w].candidate[l] ELSE distances[slot][v][l]
  <2> HIDE DEF t
  <2>1. QED
    BY <1>6, <1>7
<1>9. wave' = [wave EXCEPT ![w] =
                [wave[w] EXCEPT !.pc        = "vertex",
                                !.candidate = rest,
                                !.changed   = wave[w].changed \union Lowered(w)]]
  BY <1>3 DEF LowerDestinations, ChangedLanes, WaveStates
<1>10. rest \in [Lanes -> Distances]
  BY GraphAssumption DEF Distances
<1> HIDE DEF rest
<1>11. [wave[w] EXCEPT !.pc        = "vertex",
                       !.candidate = rest,
                       !.changed   = wave[w].changed \union Lowered(w)] \in WaveStates
  BY <1>3, <1>4, <1>10 DEF WaveStates, WaveOperations
<1>12. /\ Moved(w)
       /\ wave'[w].pc = "vertex" /\ wave'[w].index = wave[w].index
       /\ wave'[w].edge = wave[w].edge
       /\ wave'[w].changed = wave[w].changed \union Lowered(w)
  BY <1>3, <1>9, <1>11 DEF Moved, WaveStates
<1>13. QED
  BY <1>1, <1>2, <1>7, <1>8, <1>12
-----------------------------------------------------------------------------
(***************************************************************************)
(* The step of a wave keeps the invariant                                  *)
(***************************************************************************)
\* A step of wave w that leaves the wave and the controller in order.
WaveFrame(w) ==
  /\ stage = "round" /\ SameRound /\ Moved(w)
  /\ distances' \in [Slots -> [Vertices -> [Lanes -> Distances]]]
  /\ controller'.changed_lane_mask \subseteq controller.execute_lane_mask
  /\ wave'[w].pc \in {"enter", "sync"} => wave'[w].changed = {}
  /\ wave'[w].pc # "enter"
  /\ wave'[w].changed \subseteq controller.execute_lane_mask
  /\ wave'[w].pc \in {"vertex", "minimum"} => wave'[w].index % WaveCount = w
  /\ wave'[w].pc = "minimum" => ~Pulls /\ wave'[w].edge \in Edges

LEMMA FrameKeepsTypes ==
  ASSUME TypeInv, NEW w \in Waves, WaveFrame(w) PROVE TypeInv'
BY DEF TypeInv, WaveFrame, SameRound, Moved

LEMMA FrameKeepsWaves ==
  ASSUME WaveInv, NEW w \in Waves, WaveFrame(w) PROVE WaveInv'
<1>1. SameRound /\ stage' = "round" /\ (Pulls' <=> Pulls)
  BY ProblemStays DEF WaveFrame, SameRound
<1>2. ASSUME NEW x \in Waves \ {w}
      PROVE  /\ wave'[x].pc \in {"enter", "sync"} => wave'[x].changed = {}
             /\ wave'[x].pc = "enter" => wave'[x].edge = 0
             /\ wave'[x].changed \subseteq controller'.execute_lane_mask
             /\ wave'[x].pc \in {"vertex", "minimum"} => wave'[x].index % WaveCount = x
             /\ wave'[x].pc = "minimum" => ~Pulls /\ wave'[x].edge \in Edges
  <2>1. wave'[x] = wave[x]
    BY DEF WaveFrame, Moved
  <2>2. QED
    BY <1>1, <2>1 DEF WaveInv, SameRound
<1>3. /\ wave'[w].pc \in {"enter", "sync"} => wave'[w].changed = {}
      /\ wave'[w].pc = "enter" => wave'[w].edge = 0
      /\ wave'[w].changed \subseteq controller'.execute_lane_mask
      /\ wave'[w].pc \in {"vertex", "minimum"} => wave'[w].index % WaveCount = w
      /\ wave'[w].pc = "minimum" => ~Pulls /\ wave'[w].edge \in Edges
  BY <1>1 DEF WaveFrame, SameRound
<1>4. QED
  BY <1>1, <1>2, <1>3 DEF WaveInv

LEMMA FrameKeepsController ==
  ASSUME ControllerInv, NEW w \in Waves, WaveFrame(w) PROVE ControllerInv'
<1>1. /\ SameRound /\ stage = "round" /\ stage' = "round"
      /\ Valid' = Valid /\ (Pulls' <=> Pulls)
      /\ controller'.changed_lane_mask \subseteq controller.execute_lane_mask
  BY ProblemStays DEF WaveFrame, SameRound
<1>2. /\ SoundController(controller)
      /\ \A l \in controller.converged_lane_mask : lane_convergence_rounds[l] # 0
  BY <1>1 DEF ControllerInv, RunStages
<1>3. SoundController(controller)'
  BY <1>1, <1>2 DEF SoundController, SameRound, SameSetup, SameSlots
<1>4. QED
  BY <1>1, <1>2, <1>3 DEF ControllerInv, SameRound, Round

LEMMA FrameKeepsMasks ==
  ASSUME MaskInv, NEW w \in Waves, WaveFrame(w) PROVE MaskInv'
BY ProblemStays DEF MaskInv, WaveFrame, SameRound

LEMMA FrameKeepsOutputs ==
  ASSUME OutputInv, NEW w \in Waves, WaveFrame(w) PROVE OutputInv'
BY DEF OutputInv, ReturnedIsTrue, WaveFrame, SameRound

\* What the round's progress means after the step.
LEMMA FrameFacts ==
  ASSUME NEW w \in Waves, WaveFrame(w)
  PROVE  /\ Round' = Round /\ ReadOf' = ReadOf /\ WriteOf' = WriteOf
         /\ controller'.execute_lane_mask = controller.execute_lane_mask
         /\ lane_convergence_rounds' = lane_convergence_rounds
         /\ run_lane_masks' = run_lane_masks
         /\ batch' = batch /\ run_options' = run_options
         /\ stage = "round" /\ stage' = "round" /\ stage \in RunStages
         /\ \A x \in Waves \ {w} : wave'[x] = wave[x]
         /\ \A v \in UnionVertices(batch) : Owner(v) # w => (Passed(v)' <=> Passed(v))
<1>1. batch' = batch /\ run_options' = run_options
  BY DEF WaveFrame, SameRound
<1>2. ASSUME NEW v \in UnionVertices(batch), Owner(v) # w
      PROVE  Passed(v)' <=> Passed(v)
  <2>1. Owner(v) \in Waves /\ Owner(v)' = Owner(v) /\ Rank(v)' = Rank(v)
    BY <1>1, WaveFacts, ProblemStays
  <2>2. wave'[Owner(v)] = wave[Owner(v)]
    BY <1>2, <2>1 DEF WaveFrame, Moved
  <2>3. QED
    BY <2>1, <2>2 DEF Passed
<1>3. QED
  BY <1>1, <1>2 DEF WaveFrame, SameRound, SameSetup, SameSlots, Moved, Round, ReadOf,
     WriteOf, RunStages

\* The frames of the seven steps.
LEMMA EnterRoundFrame ==
  ASSUME IInv, NEW w \in Waves, EnterRound(w) PROVE WaveFrame(w)
<1>1. w % WaveCount = w
  BY WaveFacts
<1>2. stage = "round" /\ stage \in RunStages
  BY DEF EnterRound, AtOperation, RunStages
<1>3. controller.changed_lane_mask \subseteq controller.execute_lane_mask
  BY <1>2, RunFacts DEF SoundController
<1>4. wave[w].changed = {}
  BY DEF EnterRound, AtOperation, IInv, WaveInv
<1>5. QED
  BY <1>1, <1>3, <1>4, EnterRoundEffect DEF IInv, WaveFrame, TypeInv

LEMMA FinishShareFrame ==
  ASSUME IInv, NEW w \in Waves, FinishShare(w) PROVE WaveFrame(w)
<1>1. stage = "round" /\ stage \in RunStages
  BY DEF FinishShare, AtOperation, RunStages
<1>2. controller.changed_lane_mask \subseteq controller.execute_lane_mask
  BY <1>1, RunFacts DEF SoundController
<1>3. wave[w].changed \subseteq controller.execute_lane_mask
  BY DEF IInv, WaveInv
<1>4. QED
  BY <1>2, <1>3, FinishShareEffect DEF IInv, WaveFrame, TypeInv

LEMMA FinishRowFrame ==
  ASSUME IInv, NEW w \in Waves, FinishRow(w) PROVE WaveFrame(w)
<1>1. stage = "round" /\ stage \in RunStages /\ wave[w].pc = "vertex"
  BY DEF FinishRow, AtOperation, RunStages
<1>2. batch \in BatchIds /\ controller.changed_lane_mask \subseteq controller.execute_lane_mask
  BY <1>1, RunFacts DEF SoundController
<1>3. wave[w].changed \subseteq controller.execute_lane_mask
        /\ wave[w].index % WaveCount = w /\ wave[w].index \in Nat
  BY <1>1 DEF IInv, WaveInv, TypeInv, WaveStates
<1>4. (wave[w].index + WaveCount) % WaveCount = w
  BY <1>2, <1>3, ShareNext
<1>5. QED
  BY <1>2, <1>3, <1>4, FinishRowEffect DEF IInv, WaveFrame, TypeInv

LEMMA PublishFrame ==
  ASSUME IInv, NEW w \in Waves, PublishChanged(w) PROVE WaveFrame(w)
<1>1. stage = "round" /\ stage \in RunStages
  BY DEF PublishChanged, AtOperation, RunStages
<1>2. controller.changed_lane_mask \subseteq controller.execute_lane_mask
  BY <1>1, RunFacts DEF SoundController
<1>3. wave[w].changed \subseteq controller.execute_lane_mask
  BY DEF IInv, WaveInv
<1>4. /\ stage = "round" /\ SameRound /\ Moved(w) /\ distances' = distances
      /\ controller'.changed_lane_mask =
           controller.changed_lane_mask \union wave[w].changed
      /\ wave'[w] = [AtEntry EXCEPT !.pc = "sync"]
  BY PublishEffect DEF IInv
<1>5. wave'[w].pc = "sync" /\ wave'[w].changed = {}
  BY <1>4 DEF AtEntry
<1>6. QED
  BY <1>2, <1>3, <1>4, <1>5 DEF IInv, WaveFrame, TypeInv

LEMMA PullVertexFrame ==
  ASSUME IInv, NEW w \in Waves, PullVertex(w) PROVE WaveFrame(w)
<1>1. stage = "round" /\ stage \in RunStages /\ wave[w].pc = "vertex"
  BY DEF PullVertex, AtOperation, RunStages
<1>2. batch \in BatchIds /\ controller.changed_lane_mask \subseteq controller.execute_lane_mask
  BY <1>1, RunFacts DEF SoundController
<1>3. wave[w].changed \subseteq controller.execute_lane_mask
        /\ wave[w].index % WaveCount = w /\ wave[w].index \in Nat
  BY <1>1 DEF IInv, WaveInv, TypeInv, WaveStates
<1>4. (wave[w].index + WaveCount) % WaveCount = w
  BY <1>2, <1>3, ShareNext
<1>5. LowersAt(Current(w)) \subseteq controller.execute_lane_mask
  BY DEF LowersAt, ExecutedLanes
<1>6. QED
  BY <1>2, <1>3, <1>4, <1>5, PullVertexEffect DEF WaveFrame

LEMMA LoadSourcesFrame ==
  ASSUME IInv, NEW w \in Waves, LoadSources(w) PROVE WaveFrame(w)
<1>1. stage = "round" /\ stage \in RunStages /\ wave[w].pc = "vertex"
  BY DEF LoadSources, AtOperation, RunStages
<1>2. controller.changed_lane_mask \subseteq controller.execute_lane_mask
  BY <1>1, RunFacts DEF SoundController
<1>3. wave[w].changed \subseteq controller.execute_lane_mask
        /\ wave[w].index % WaveCount = w
  BY <1>1 DEF IInv, WaveInv
<1>4. QED
  BY <1>2, <1>3, LoadSourcesEffect DEF WaveFrame, IInv, TypeInv

LEMMA LowerDestinationsFrame ==
  ASSUME IInv, NEW w \in Waves, LowerDestinations(w) PROVE WaveFrame(w)
<1>1. stage = "round" /\ stage \in RunStages /\ wave[w].pc = "minimum"
  BY DEF LowerDestinations, AtOperation, RunStages
<1>2. controller.changed_lane_mask \subseteq controller.execute_lane_mask
  BY <1>1, RunFacts DEF SoundController
<1>3. wave[w].changed \subseteq controller.execute_lane_mask
        /\ wave[w].index % WaveCount = w
  BY <1>1 DEF IInv, WaveInv
<1>4. Lowered(w) \subseteq controller.execute_lane_mask
  BY DEF Lowered, ActiveRunLanes
<1>5. QED
  BY <1>2, <1>3, <1>4, LowerDestinationsEffect DEF WaveFrame

LEMMA SettledKept ==
  ASSUME SettledInv, NEW w \in Waves, WaveFrame(w), distances' = distances
  PROVE  SettledInv'
BY FrameFacts, ProblemStays DEF SettledInv

LEMMA PullIdle ==
  ASSUME NEW w \in Waves, WaveFrame(w), ~Pulls PROVE PullInv'
BY FrameFacts, ProblemStays DEF PullInv

LEMMA DenseIdle ==
  ASSUME NEW w \in Waves, WaveFrame(w), Pulls PROVE DenseInv'
BY FrameFacts, ProblemStays DEF DenseInv

\* A lane that is quiet after the step was so before it.
LEMMA QuietStays ==
  ASSUME NEW w \in Waves, WaveFrame(w),
         controller.changed_lane_mask \subseteq controller'.changed_lane_mask,
         wave[w].changed \subseteq wave'[w].changed \union controller'.changed_lane_mask,
         NEW l, Quiet(l)'
  PROVE  Quiet(l)
<1>1. l \notin controller.changed_lane_mask
  BY DEF Quiet
<1>2. ASSUME NEW x \in Waves PROVE l \notin wave[x].changed
  <2>1. l \notin wave'[x].changed /\ l \notin controller'.changed_lane_mask
    BY DEF Quiet
  <2>2. CASE x = w
    BY <2>1, <2>2
  <2>3. CASE x # w
    BY <2>1, <2>3, FrameFacts
  <2>4. QED
    BY <2>2, <2>3
<1>3. QED
  BY <1>1, <1>2 DEF Quiet

LEMMA PullKept ==
  ASSUME IInv, NEW w \in Waves, WaveFrame(w), distances' = distances,
         \A l : Quiet(l)' => Quiet(l),
         \A v \in UnionVertices(batch) :
           controller.execute_lane_mask # {} /\ Owner(v) = w /\ Passed(v)' => Passed(v)
  PROVE  PullInv'
<1>1. CASE ~Pulls
  BY <1>1, PullIdle
<1>2. CASE Pulls
  <2>1. ASSUME NEW l \in Valid, NEW v \in Vertices, Selects(l, v)
        PROVE  /\ Read'[v][l] = After(l, Round)[v]
               /\ l \in controller.execute_lane_mask /\ Passed(v)' =>
                    /\ distances[WriteOf][v][l] = After(l, Round + 1)[v]
                    /\ Quiet(l)' => After(l, Round + 1)[v] = After(l, Round)[v]
    <3>1. v \in UnionVertices(batch) /\ stage \in RunStages /\ Read' = Read
      BY <2>1, FrameFacts, RunFacts, SelectsFacts DEF Read, ReadOf
    <3>2. /\ Read[v][l] = After(l, Round)[v]
          /\ l \in controller.execute_lane_mask /\ Passed(v) =>
               /\ distances[WriteOf][v][l] = After(l, Round + 1)[v]
               /\ Quiet(l) => After(l, Round + 1)[v] = After(l, Round)[v]
      BY <1>2, <2>1, <3>1 DEF IInv, PullInv
    <3>3. l \in controller.execute_lane_mask /\ Passed(v)' => Passed(v)
      BY <3>1, FrameFacts
    <3>4. QED
      BY <3>1, <3>2, <3>3
  <2>2. /\ Valid' = Valid /\ Round' = Round /\ WriteOf' = WriteOf
        /\ controller'.execute_lane_mask = controller.execute_lane_mask
        /\ \A l, v : Selects(l, v)' <=> Selects(l, v)
        /\ \A l, k : After(l, k)' = After(l, k)
    BY FrameFacts, ProblemStays
  <2>3. QED
    BY <2>1, <2>2 DEF PullInv
<1>3. QED
  BY <1>1, <1>2

LEMMA DenseKept ==
  ASSUME IInv, NEW w \in Waves, WaveFrame(w), distances' = distances,
         \A l : Quiet(l)' => Quiet(l),
         \A l \in controller.execute_lane_mask : \A e \in LaneAdmitted(batch, l) :
           Tried(e)' => Tried(e),
         wave'[w].pc = "minimum" =>
           \A l \in ActiveRunLanes(wave'[w].edge) :
             LET e == wave'[w].edge
             IN /\ Shortest(l)[Destination[e]] <= wave'[w].candidate[l]
                /\ wave'[w].candidate[l] <= Plus(After(l, Round)[Source[e]], Weight[e])
                /\ wave'[w].candidate[l] = Plus(distances[0][Source[e]][l], Weight[e])
  PROVE  DenseInv'
<1>1. CASE Pulls
  BY <1>1, DenseIdle
<1>2. CASE ~Pulls
  <2>1. stage \in RunStages /\ batch \in BatchIds
    BY FrameFacts, RunFacts
  <2>2. ASSUME NEW l \in Valid
        PROVE  /\ \A v \in Vertices : Selects(l, v) =>
                    /\ Shortest(l)[v] <= distances[0][v][l]
                    /\ distances[0][v][l] <= After(l, Round)[v]
               /\ \A x \in Waves :
                    wave'[x].pc = "minimum" /\ l \in ActiveRunLanes(wave'[x].edge) =>
                      LET e == wave'[x].edge
                      IN /\ Shortest(l)[Destination[e]] <= wave'[x].candidate[l]
                         /\ wave'[x].candidate[l]
                              <= Plus(After(l, Round)[Source[e]], Weight[e])
                         /\ Quiet(l)' => wave'[x].candidate[l] =
                              Plus(distances[0][Source[e]][l], Weight[e])
               /\ \A e \in LaneAdmitted(batch, l) :
                    l \in controller.execute_lane_mask /\ Tried(e)' =>
                      /\ distances[0][Destination[e]][l]
                           <= Plus(After(l, Round)[Source[e]], Weight[e])
                      /\ Quiet(l)' => distances[0][Destination[e]][l]
                                        <= Plus(distances[0][Source[e]][l], Weight[e])
    <3>1. /\ \A v \in Vertices : Selects(l, v) =>
               /\ Shortest(l)[v] <= distances[0][v][l]
               /\ distances[0][v][l] <= After(l, Round)[v]
          /\ \A x \in Waves :
               wave[x].pc = "minimum" /\ l \in ActiveRunLanes(wave[x].edge) =>
                 LET e == wave[x].edge
                 IN /\ Shortest(l)[Destination[e]] <= wave[x].candidate[l]
                    /\ wave[x].candidate[l]
                         <= Plus(After(l, Round)[Source[e]], Weight[e])
                    /\ Quiet(l) => wave[x].candidate[l] =
                         Plus(distances[0][Source[e]][l], Weight[e])
          /\ \A e \in LaneAdmitted(batch, l) :
               l \in controller.execute_lane_mask /\ Tried(e) =>
                 /\ distances[0][Destination[e]][l]
                      <= Plus(After(l, Round)[Source[e]], Weight[e])
                 /\ Quiet(l) => distances[0][Destination[e]][l]
                                  <= Plus(distances[0][Source[e]][l], Weight[e])
      BY <1>2, <2>1 DEF IInv, DenseInv
    <3>2. \A x \in Waves \ {w} : wave'[x] = wave[x]
      BY FrameFacts
    <3>3. ASSUME NEW x \in Waves, wave'[x].pc = "minimum",
                 l \in ActiveRunLanes(wave'[x].edge)
          PROVE  LET e == wave'[x].edge
                 IN /\ Shortest(l)[Destination[e]] <= wave'[x].candidate[l]
                    /\ wave'[x].candidate[l]
                         <= Plus(After(l, Round)[Source[e]], Weight[e])
                    /\ Quiet(l)' => wave'[x].candidate[l] =
                         Plus(distances[0][Source[e]][l], Weight[e])
      <4>1. CASE x = w
        BY <3>3, <4>1
      <4>2. CASE x # w
        <5>1. wave'[x] = wave[x]
          BY <3>2, <4>2
        <5>2. QED
          BY <3>1, <3>3, <5>1
      <4>3. QED
        BY <4>1, <4>2
    <3>4. QED
      BY <3>1, <3>3
  <2>3. /\ Valid' = Valid /\ Round' = Round
        /\ controller'.execute_lane_mask = controller.execute_lane_mask
        /\ batch' = batch
        /\ \A l, v : Selects(l, v)' <=> Selects(l, v)
        /\ \A l, k : After(l, k)' = After(l, k)
        /\ \A l : Shortest(l)' = Shortest(l)
        /\ \A e : ActiveRunLanes(e)' = ActiveRunLanes(e)
    BY FrameFacts, ProblemStays DEF ActiveRunLanes
  <2>4. QED
    BY <2>2, <2>3 DEF DenseInv
<1>3. QED
  BY <1>1, <1>2

\* The row an admitted edge is in.
LEMMA RowFacts ==
  ASSUME batch \in BatchIds, NEW l \in Lanes, NEW e \in LaneAdmitted(batch, l)
  PROVE  /\ e \in Edges /\ e \in Nat \ {0}
         /\ Source[e] \in UnionVertices(batch) /\ Source[e] \in Vertices
         /\ Destination[e] \in UnionVertices(batch) /\ Destination[e] \in Vertices
         /\ Selects(l, Source[e]) /\ Selects(l, Destination[e]) /\ l \in Valid
         /\ Owner(Source[e]) \in Waves /\ Rank(Source[e]) \in Nat
         /\ Weight[e] \in 0 .. Infinity - 1
<1>1. e \in Edges /\ l \in RunLaneMask(batch, e)
  BY DEF LaneAdmitted
<1>2. /\ Source[e] \in Vertices /\ Destination[e] \in Vertices
      /\ Weight[e] \in 0 .. Infinity - 1
      /\ Selects(l, Source[e]) /\ Selects(l, Destination[e])
  BY <1>1, LaneEdgeFacts
<1>3. /\ Source[e] \in UnionVertices(batch) /\ Destination[e] \in UnionVertices(batch)
      /\ l \in Valid
  BY <1>2, SelectsFacts
<1>4. QED
  BY <1>1, <1>2, <1>3, EdgeType, WaveFacts

LEMMA TriedElsewhere ==
  ASSUME batch \in BatchIds, NEW w \in Waves, WaveFrame(w),
         NEW l \in Lanes, NEW e \in LaneAdmitted(batch, l), Owner(Source[e]) # w
  PROVE  Tried(e)' <=> Tried(e)
<1>1. Source[e] \in UnionVertices(batch) /\ Owner(Source[e]) \in Waves
  BY RowFacts
<1>2. wave'[Owner(Source[e])] = wave[Owner(Source[e])]
  BY <1>1, FrameFacts
<1>3. Passed(Source[e])' <=> Passed(Source[e])
  BY <1>1, FrameFacts
<1>4. Owner(Source[e])' = Owner(Source[e]) /\ Rank(Source[e])' = Rank(Source[e])
  BY FrameFacts, ProblemStays
<1>5. QED
  BY <1>2, <1>3, <1>4 DEF Tried

\* A wave's own vertices and edges, in terms of where it stands.
LEMMA PassedHere ==
  ASSUME NEW w \in Waves, NEW v, Owner(v) = w
  PROVE  Passed(v) <=> \/ wave[w].pc \in {"publish", "sync"}
                       \/ wave[w].pc \in {"vertex", "minimum"} /\ Rank(v) < wave[w].index
BY DEF Passed

LEMMA PassedHereNext ==
  ASSUME NEW w \in Waves, WaveFrame(w), NEW v, Owner(v) = w
  PROVE  Passed(v)' <=> \/ wave'[w].pc \in {"publish", "sync"}
                        \/ wave'[w].pc \in {"vertex", "minimum"} /\ Rank(v) < wave'[w].index
<1>1. Owner(v)' = w /\ Rank(v)' = Rank(v)
  BY FrameFacts, ProblemStays
<1>2. QED
  BY <1>1 DEF Passed

LEMMA TriedHere ==
  ASSUME NEW w \in Waves, NEW e, Owner(Source[e]) = w
  PROVE  Tried(e) <=> \/ Passed(Source[e])
                      \/ /\ Rank(Source[e]) = wave[w].index
                         /\ \/ wave[w].pc = "vertex"  /\ e <= wave[w].edge
                            \/ wave[w].pc = "minimum" /\ e < wave[w].edge
BY DEF Tried

LEMMA TriedHereNext ==
  ASSUME NEW w \in Waves, WaveFrame(w), NEW e, Owner(Source[e]) = w
  PROVE  Tried(e)' <=> \/ Passed(Source[e])'
                       \/ /\ Rank(Source[e]) = wave'[w].index
                          /\ \/ wave'[w].pc = "vertex"  /\ e <= wave'[w].edge
                             \/ wave'[w].pc = "minimum" /\ e < wave'[w].edge
<1>1. Owner(Source[e])' = w /\ Rank(Source[e])' = Rank(Source[e])
  BY FrameFacts, ProblemStays
<1>2. QED
  BY <1>1 DEF Tried

LEMMA NothingExecutes ==
  ASSUME IInv, stage \in RunStages, ~Execute PROVE controller.execute_lane_mask = {}
BY RunFacts DEF Execute, SoundController

LEMMA EnterRoundKeeps ==
  ASSUME IInv, NEW w \in Waves, EnterRound(w) PROVE IInv'
<1>1. WaveFrame(w) /\ distances' = distances
  BY EnterRoundFrame, EnterRoundEffect DEF IInv
<1>2. stage \in RunStages /\ batch \in BatchIds /\ wave \in [Waves -> WaveStates]
  BY <1>1, FrameFacts, RunFacts
<1>3. /\ wave[w].pc = "enter" /\ wave[w].edge = 0
      /\ wave'[w].pc = IF Execute THEN "vertex" ELSE "publish"
      /\ wave'[w].index = w /\ wave'[w].edge = wave[w].edge
      /\ wave'[w].changed = wave[w].changed
      /\ controller' = controller
  BY EnterRoundEffect DEF IInv, WaveInv
<1>4. \A l : Quiet(l)' => Quiet(l)
  BY <1>1, <1>3, QuietStays
<1>5. ASSUME NEW v \in UnionVertices(batch), controller.execute_lane_mask # {},
             Owner(v) = w
      PROVE  ~Passed(v)' /\ w <= Rank(v) /\ Rank(v) \in Nat
  <2>1. Execute
    BY <1>2, <1>5, NothingExecutes
  <2>2. w <= Rank(v) /\ Rank(v) \in Nat /\ w \in Nat
    BY <1>2, <1>5, ShareFirst, WaveFacts
  <2>3. QED
    BY <1>1, <1>3, <1>5, <2>1, <2>2, PassedHereNext
<1>6. ASSUME NEW l \in controller.execute_lane_mask, NEW e \in LaneAdmitted(batch, l),
             Tried(e)'
      PROVE  Tried(e)
  <2>1. l \in Lanes
    BY <1>2, RunFacts
  <2>2. CASE Owner(Source[e]) = w
    <3>1. ~Passed(Source[e])' /\ e \in Nat \ {0}
      BY <1>2, <1>5, <2>1, <2>2, RowFacts
    <3>2. QED
      BY <1>1, <1>3, <1>6, <2>2, <3>1, TriedHereNext
  <2>3. CASE Owner(Source[e]) # w
    BY <1>1, <1>2, <1>6, <2>1, <2>3, TriedElsewhere
  <2>4. QED
    BY <2>2, <2>3
<1>7. PullInv'
  BY <1>1, <1>4, <1>5, PullKept
<1>8. DenseInv'
  <2>1. wave'[w].pc # "minimum"
    BY <1>3
  <2>2. QED
    BY <1>1, <1>4, <1>6, <2>1, DenseKept
<1>9. QED
  BY <1>1, <1>7, <1>8, FrameKeepsTypes, FrameKeepsWaves, FrameKeepsController,
     FrameKeepsMasks, FrameKeepsOutputs, SettledKept DEF IInv

LEMMA FinishShareKeeps ==
  ASSUME IInv, NEW w \in Waves, FinishShare(w) PROVE IInv'
<1>1. WaveFrame(w) /\ distances' = distances
  BY FinishShareFrame, FinishShareEffect DEF IInv
<1>2. stage \in RunStages /\ batch \in BatchIds /\ wave \in [Waves -> WaveStates]
  BY <1>1, FrameFacts, RunFacts
<1>3. /\ wave[w].pc = "vertex" /\ ~HasVertex(w) /\ wave'[w].pc = "publish"
      /\ wave'[w].changed = wave[w].changed /\ controller' = controller
  BY FinishShareEffect DEF IInv
<1>4. \A l : Quiet(l)' => Quiet(l)
  BY <1>1, <1>3, QuietStays
<1>5. ASSUME NEW v \in UnionVertices(batch), Owner(v) = w PROVE Passed(v)
  <2>1. Rank(v) < wave[w].index
    BY <1>2, <1>3, CurrentFacts DEF WaveStates
  <2>2. QED
    BY <1>3, <1>5, <2>1, PassedHere
<1>6. ASSUME NEW l \in controller.execute_lane_mask, NEW e \in LaneAdmitted(batch, l),
             Tried(e)'
      PROVE  Tried(e)
  <2>1. l \in Lanes
    BY <1>2, RunFacts
  <2>2. CASE Owner(Source[e]) = w
    BY <1>2, <1>5, <2>1, <2>2, RowFacts DEF Tried
  <2>3. CASE Owner(Source[e]) # w
    BY <1>1, <1>2, <1>6, <2>1, <2>3, TriedElsewhere
  <2>4. QED
    BY <2>2, <2>3
<1>7. PullInv'
  BY <1>1, <1>4, <1>5, PullKept
<1>8. DenseInv'
  <2>1. wave'[w].pc # "minimum"
    BY <1>3
  <2>2. QED
    BY <1>1, <1>4, <1>6, <2>1, DenseKept
<1>9. QED
  BY <1>1, <1>7, <1>8, FrameKeepsTypes, FrameKeepsWaves, FrameKeepsController,
     FrameKeepsMasks, FrameKeepsOutputs, SettledKept DEF IInv

LEMMA PublishKeeps ==
  ASSUME IInv, NEW w \in Waves, PublishChanged(w) PROVE IInv'
<1>1. WaveFrame(w) /\ distances' = distances
  BY PublishFrame, PublishEffect DEF IInv
<1>2. stage \in RunStages /\ batch \in BatchIds
  BY <1>1, FrameFacts, RunFacts
<1>3. /\ wave[w].pc = "publish" /\ wave'[w].pc = "sync"
      /\ controller'.changed_lane_mask =
           controller.changed_lane_mask \union wave[w].changed
  BY PublishEffect DEF IInv, AtEntry
<1>4. \A l : Quiet(l)' => Quiet(l)
  BY <1>1, <1>3, QuietStays
<1>5. ASSUME NEW v \in UnionVertices(batch), Owner(v) = w PROVE Passed(v)
  BY <1>3, <1>5, PassedHere
<1>6. ASSUME NEW l \in controller.execute_lane_mask, NEW e \in LaneAdmitted(batch, l),
             Tried(e)'
      PROVE  Tried(e)
  <2>1. l \in Lanes
    BY <1>2, RunFacts
  <2>2. CASE Owner(Source[e]) = w
    BY <1>2, <1>5, <2>1, <2>2, RowFacts DEF Tried
  <2>3. CASE Owner(Source[e]) # w
    BY <1>1, <1>2, <1>6, <2>1, <2>3, TriedElsewhere
  <2>4. QED
    BY <2>2, <2>3
<1>7. PullInv'
  BY <1>1, <1>4, <1>5, PullKept
<1>8. DenseInv'
  <2>1. wave'[w].pc # "minimum"
    BY <1>3
  <2>2. QED
    BY <1>1, <1>4, <1>6, <2>1, DenseKept
<1>9. QED
  BY <1>1, <1>7, <1>8, FrameKeepsTypes, FrameKeepsWaves, FrameKeepsController,
     FrameKeepsMasks, FrameKeepsOutputs, SettledKept DEF IInv

\* In a dense row, an admitted edge of an executing lane is one the wave tries.
LEMMA EdgesAreTried ==
  ASSUME IInv, stage \in RunStages, ~Pulls, NEW w \in Waves,
         NEW l \in controller.execute_lane_mask, NEW e \in LaneAdmitted(batch, l),
         Source[e] = Current(w), e > wave[w].edge
  PROVE  e \in Remaining(w)
<1>1. batch \in BatchIds /\ l \in Lanes
  BY RunFacts
<1>2. e \in Edges /\ Selects(l, Source[e])
  BY <1>1, RowFacts
<1>3. l \in run_lane_masks[e]
  BY <1>1, <1>2, MaskFacts
<1>4. l \in ExecutedLanes(Current(w))
  BY <1>2 DEF ExecutedLanes, Selects
<1>5. QED
  BY <1>2, <1>3, <1>4 DEF Remaining

LEMMA FinishRowKeeps ==
  ASSUME IInv, NEW w \in Waves, FinishRow(w) PROVE IInv'
<1>1. WaveFrame(w) /\ distances' = distances /\ ~Pulls
  BY FinishRowFrame, FinishRowEffect DEF IInv
<1>2. stage \in RunStages /\ batch \in BatchIds /\ wave \in [Waves -> WaveStates]
  BY <1>1, FrameFacts, RunFacts
<1>3. /\ wave[w].pc = "vertex" /\ Remaining(w) = {} /\ wave'[w].pc = "vertex"
      /\ wave'[w].index = wave[w].index + WaveCount
      /\ wave'[w].edge = 0
      /\ wave'[w].changed = wave[w].changed /\ controller' = controller
  BY FinishRowEffect DEF IInv
<1>4. \A l : Quiet(l)' => Quiet(l)
  BY <1>1, <1>3, QuietStays
<1>5. /\ wave[w].index \in Nat /\ wave[w].edge \in Nat
      /\ wave[w].index % WaveCount = w
  BY <1>2, <1>3 DEF WaveStates, IInv, WaveInv
<1>6. ASSUME NEW l \in controller.execute_lane_mask, NEW e \in LaneAdmitted(batch, l),
             Tried(e)'
      PROVE  Tried(e)
  <2>1. l \in Lanes
    BY <1>2, RunFacts
  <2>2. CASE Owner(Source[e]) = w
    <3>1. Source[e] \in UnionVertices(batch) /\ e \in Nat \ {0}
      BY <1>2, <2>1, RowFacts
    <3>2. Passed(Source[e])'
      BY <1>1, <1>3, <1>6, <2>2, <3>1, TriedHereNext
    <3>3. Rank(Source[e]) < wave[w].index + WaveCount
      BY <1>1, <1>3, <2>2, <3>2, PassedHereNext
    <3>4. CASE Rank(Source[e]) < wave[w].index
      BY <1>3, <2>2, <3>4, PassedHere, TriedHere
    <3>5. CASE Rank(Source[e]) = wave[w].index
      <4>1. Source[e] = Current(w)
        BY <1>5, <3>1, <3>5, CurrentFacts
      <4>2. ~(e > wave[w].edge)
        BY <1>1, <1>2, <1>3, <4>1, EdgesAreTried
      <4>3. e <= wave[w].edge
        BY <1>5, <3>1, <4>2
      <4>4. QED
        BY <1>3, <2>2, <3>5, <4>3, TriedHere
    <3>6. QED
      BY <1>2, <1>5, <2>2, <3>1, <3>3, <3>4, <3>5, ShareNext
  <2>3. CASE Owner(Source[e]) # w
    BY <1>1, <1>2, <1>6, <2>1, <2>3, TriedElsewhere
  <2>4. QED
    BY <2>2, <2>3
<1>7. PullInv'
  BY <1>1, PullIdle
<1>8. DenseInv'
  <2>1. wave'[w].pc # "minimum"
    BY <1>3
  <2>2. QED
    BY <1>1, <1>4, <1>6, <2>1, DenseKept
<1>9. QED
  BY <1>1, <1>7, <1>8, FrameKeepsTypes, FrameKeepsWaves, FrameKeepsController,
     FrameKeepsMasks, FrameKeepsOutputs, SettledKept DEF IInv

\* What an admitted edge offers lies between the shortest distance of its
\* destination and what the complete round offers.
LEMMA OfferFacts ==
  ASSUME IInv, stage \in RunStages, ~Pulls, NEW l \in Valid, NEW e \in LaneAdmitted(batch, l)
  PROVE  LET offer == Plus(distances[0][Source[e]][l], Weight[e])
         IN /\ Shortest(l)[Destination[e]] <= offer
            /\ offer <= Plus(After(l, Round)[Source[e]], Weight[e])
<1> DEFINE s == Shortest(l)[Source[e]]
           a == distances[0][Source[e]][l]
           f == After(l, Round)[Source[e]]
           g == Weight[e]
           t == Shortest(l)[Destination[e]]
<1>1. batch \in BatchIds /\ l \in Lanes
  BY RunFacts
<1>2. /\ Source[e] \in Vertices /\ Destination[e] \in Vertices
      /\ Selects(l, Source[e]) /\ g \in 0 .. Infinity - 1
  BY <1>1, RowFacts
<1>3. s \in Distances /\ a \in Distances /\ f \in Distances /\ t \in Distances
  BY <1>1, <1>2, RunFacts DEF Assignments, Slots
<1>4. s <= a /\ a <= f
  BY <1>2 DEF IInv, DenseInv
<1>5. t <= Plus(s, g)
  BY <1>1, LanesAreQueries DEF LaneIsQuery, LanePotentials, LaneRelaxed, Shortest, Valid
<1> HIDE DEF s, a, f, g, t
<1>6. Plus(s, g) <= Plus(a, g) /\ Plus(a, g) <= Plus(f, g)
  BY <1>2, <1>3, <1>4, PlusMonotone
<1>7. Plus(s, g) \in Distances /\ Plus(a, g) \in Distances
  BY <1>2, <1>3, PlusType
<1>8. t <= Plus(a, g)
  BY <1>3, <1>5, <1>6, <1>7 DEF Distances
<1>9. QED
  BY <1>6, <1>8 DEF s, a, f, g, t

\* The lanes an edge serves in a dense round.
LEMMA ActiveLaneFacts ==
  ASSUME IInv, stage \in RunStages, ~Pulls, NEW e \in Edges, NEW l \in ActiveRunLanes(e)
  PROVE  l \in controller.execute_lane_mask /\ l \in Valid /\ e \in LaneAdmitted(batch, l)
BY RunFacts, MaskFacts DEF ActiveRunLanes

LEMMA LoadSourcesKeeps ==
  ASSUME IInv, NEW w \in Waves, LoadSources(w) PROVE IInv'
<1> DEFINE f == wave'[w].edge
<1>1. WaveFrame(w)
  BY LoadSourcesFrame
<1>2. stage \in RunStages /\ batch \in BatchIds /\ wave \in [Waves -> WaveStates]
  BY <1>1, FrameFacts, RunFacts
<1>3. /\ distances' = distances /\ ~Pulls
      /\ wave[w].pc = "vertex" /\ wave'[w].pc = "minimum"
      /\ wave'[w].index = wave[w].index
      /\ wave'[w].changed = wave[w].changed /\ controller' = controller
      /\ f \in Edges
      /\ \A l \in ActiveRunLanes(f) :
           wave'[w].candidate[l] = Plus(distances[0][Source[f]][l], Weight[f])
      /\ \A e \in Remaining(w) : f <= e
  BY LoadSourcesEffect
<1>4. \A l : Quiet(l)' => Quiet(l)
  BY <1>1, <1>3, QuietStays
<1>5. wave[w].index \in Nat /\ wave[w].edge \in Nat /\ f \in Nat
  BY <1>2, <1>3 DEF WaveStates, Edges
<1>6. ASSUME NEW l \in controller.execute_lane_mask, NEW e \in LaneAdmitted(batch, l),
             Tried(e)'
      PROVE  Tried(e)
  <2>1. l \in Lanes
    BY <1>2, RunFacts
  <2>2. CASE Owner(Source[e]) = w
    <3>1. Source[e] \in UnionVertices(batch) /\ e \in Nat \ {0}
      BY <1>2, <2>1, RowFacts
    <3>2. CASE Passed(Source[e])'
      BY <1>1, <1>3, <2>2, <3>2, PassedHereNext, PassedHere, TriedHere
    <3>3. CASE ~Passed(Source[e])'
      <4>1. Rank(Source[e]) = wave[w].index /\ e < f
        BY <1>1, <1>3, <1>6, <2>2, <3>3, TriedHereNext
      <4>2. Source[e] = Current(w)
        BY <1>5, <3>1, <4>1, CurrentFacts
      <4>3. e \notin Remaining(w)
        BY <1>3, <1>5, <3>1, <4>1
      <4>4. ~(e > wave[w].edge)
        BY <1>2, <1>3, <4>2, <4>3, EdgesAreTried
      <4>5. e <= wave[w].edge
        BY <1>5, <3>1, <4>4
      <4>6. QED
        BY <1>3, <2>2, <4>1, <4>5, TriedHere
    <3>4. QED
      BY <3>2, <3>3
  <2>3. CASE Owner(Source[e]) # w
    BY <1>1, <1>2, <1>6, <2>1, <2>3, TriedElsewhere
  <2>4. QED
    BY <2>2, <2>3
<1>7. \A l \in ActiveRunLanes(f) :
        /\ Shortest(l)[Destination[f]] <= wave'[w].candidate[l]
        /\ wave'[w].candidate[l] <= Plus(After(l, Round)[Source[f]], Weight[f])
        /\ wave'[w].candidate[l] = Plus(distances[0][Source[f]][l], Weight[f])
  BY <1>2, <1>3, ActiveLaneFacts, OfferFacts
<1>8. PullInv'
  BY <1>1, <1>3, PullIdle
<1>9. DenseInv'
  BY <1>1, <1>3, <1>4, <1>6, <1>7, DenseKept
<1>10. QED
  BY <1>1, <1>3, <1>8, <1>9, FrameKeepsTypes, FrameKeepsWaves, FrameKeepsController,
     FrameKeepsMasks, FrameKeepsOutputs, SettledKept DEF IInv

LEMMA PullVertexKeeps ==
  ASSUME IInv, NEW w \in Waves, PullVertex(w) PROVE IInv'
<1> DEFINE c == Current(w)
<1>1. WaveFrame(w)
  BY PullVertexFrame
<1>2. /\ stage \in RunStages /\ batch \in BatchIds /\ wave \in [Waves -> WaveStates]
      /\ Round \in Nat /\ ReadOf \in Slots /\ WriteOf \in Slots /\ Valid \in SUBSET Lanes
      /\ controller.execute_lane_mask \in SUBSET Valid
      /\ \A l \in Valid, k \in Nat : After(l, k) \in Assignments
  BY <1>1, FrameFacts, RunFacts
<1>3. /\ Pulls /\ wave[w].pc = "vertex" /\ wave'[w].pc = "vertex" /\ HasVertex(w)
      /\ wave'[w].index = wave[w].index + WaveCount
      /\ wave'[w].edge = wave[w].edge
      /\ wave'[w].changed = wave[w].changed \union LowersAt(c)
      /\ controller' = controller
      /\ \A slot \in Slots, v \in Vertices, l \in Lanes :
           distances'[slot][v][l] =
             IF slot = WriteOf /\ v = c /\ l \in ExecutedLanes(v)
               THEN After(l, Round + 1)[v] ELSE distances[slot][v][l]
  BY PullVertexEffect
<1>4. ReadOf # WriteOf
  BY <1>2, <1>3, RunFacts
<1>5. \A l : Quiet(l)' => Quiet(l)
  BY <1>1, <1>3, QuietStays
<1>6. wave[w].index \in Nat /\ wave[w].index % WaveCount = w
  BY <1>2, <1>3 DEF WaveStates, IInv, WaveInv
<1>7. /\ Valid' = Valid /\ Round' = Round /\ WriteOf' = WriteOf /\ ReadOf' = ReadOf
      /\ (Pulls' <=> Pulls)
      /\ controller'.execute_lane_mask = controller.execute_lane_mask
      /\ lane_convergence_rounds' = lane_convergence_rounds
      /\ \A l, v : Selects(l, v)' <=> Selects(l, v)
      /\ \A l, k : After(l, k)' = After(l, k)
      /\ \A l : Shortest(l)' = Shortest(l)
  BY <1>1, FrameFacts, ProblemStays
<1>8. PullInv'
  <2>1. ASSUME NEW l \in Valid, NEW v \in Vertices, Selects(l, v)
        PROVE  /\ Read'[v][l] = After(l, Round)[v]
               /\ l \in controller.execute_lane_mask /\ Passed(v)' =>
                    /\ distances'[WriteOf][v][l] = After(l, Round + 1)[v]
                    /\ Quiet(l)' => After(l, Round + 1)[v] = After(l, Round)[v]
    <3>1. v \in UnionVertices(batch) /\ l \in Lanes
      BY <1>2, <2>1, SelectsFacts
    <3>2. /\ Read[v][l] = After(l, Round)[v]
          /\ l \in controller.execute_lane_mask /\ Passed(v) =>
               /\ distances[WriteOf][v][l] = After(l, Round + 1)[v]
               /\ Quiet(l) => After(l, Round + 1)[v] = After(l, Round)[v]
      BY <1>2, <1>3, <2>1 DEF IInv, PullInv
    <3>3. Read'[v][l] = distances'[ReadOf][v][l] /\ Read[v][l] = distances[ReadOf][v][l]
      BY <1>3 DEF Read, ReadOf
    <3>4. Read'[v][l] = After(l, Round)[v]
      BY <1>2, <1>3, <1>4, <3>1, <3>2, <3>3
    <3>5. ASSUME l \in controller.execute_lane_mask, Passed(v)', v = c
          PROVE  /\ distances'[WriteOf][v][l] = After(l, Round + 1)[v]
                 /\ Quiet(l)' => After(l, Round + 1)[v] = After(l, Round)[v]
      <4>1. l \in ExecutedLanes(v)
        BY <2>1, <3>5 DEF ExecutedLanes, Selects
      <4>2. distances'[WriteOf][v][l] = After(l, Round + 1)[v]
        BY <1>2, <1>3, <3>1, <3>5, <4>1
      <4>3. Best(v, l) = After(l, Round + 1)[v]
        BY <1>2, <1>3, <2>1, BestIsNextRound
      <4>4. Quiet(l)' => l \notin LowersAt(v)
        BY <1>3, <3>5 DEF Quiet
      <4>5. Quiet(l)' => ~(After(l, Round + 1)[v] < After(l, Round)[v])
        BY <3>2, <4>1, <4>3, <4>4 DEF LowersAt
      <4>6. After(l, Round + 1)[v] <= After(l, Round)[v]
        <5>1. After(l, Round) \in Assignments
          BY <1>2
        <5>2. After(l, Round + 1) = LaneRound(batch, l, After(l, Round))
          BY <1>2, NextRound
        <5>3. LaneRound(batch, l, After(l, Round))[v] <= After(l, Round)[v]
          BY <5>1, LaneRoundFacts
        <5>4. QED
          BY <5>2, <5>3
      <4>7. After(l, Round + 1)[v] \in Nat /\ After(l, Round)[v] \in Nat
        <5>1. Round \in Nat /\ Round + 1 \in Nat
          BY <1>2
        <5>2. After(l, Round) \in Assignments /\ After(l, Round + 1) \in Assignments
          BY <1>2, <5>1, Zenon
        <5>3. QED
          BY <5>2, DistancesAreNumbers DEF Assignments
      <4>8. QED
        BY <4>2, <4>5, <4>6, <4>7
    <3>6. ASSUME l \in controller.execute_lane_mask, Passed(v)', v # c
          PROVE  /\ distances'[WriteOf][v][l] = After(l, Round + 1)[v]
                 /\ Quiet(l)' => After(l, Round + 1)[v] = After(l, Round)[v]
      <4>1. Passed(v)
        <5>1. CASE Owner(v) # w
          BY <1>1, <3>1, <3>6, <5>1, FrameFacts
        <5>2. CASE Owner(v) = w
          <6>1. Rank(v) < wave[w].index + WaveCount
            BY <1>1, <1>3, <3>6, <5>2, PassedHereNext
          <6>2. Rank(v) # wave[w].index
            BY <1>6, <3>1, <3>6, CurrentFacts
          <6>3. Rank(v) < wave[w].index
            BY <1>2, <1>6, <3>1, <5>2, <6>1, <6>2, ShareNext
          <6>4. QED
            BY <1>3, <5>2, <6>3, PassedHere
        <5>3. QED
          BY <5>1, <5>2
      <4>2. distances'[WriteOf][v][l] = distances[WriteOf][v][l]
        BY <1>2, <1>3, <3>1, <3>6
      <4>3. QED
        BY <1>5, <3>2, <3>6, <4>1, <4>2
    <3>7. QED
      BY <3>4, <3>5, <3>6
  <2>2. QED
    BY <1>7, <2>1 DEF PullInv
<1>9. SettledInv'
  <2>1. ASSUME NEW l \in Valid, lane_convergence_rounds[l] # 0, NEW slot \in Slots,
               NEW v \in Vertices, Selects(l, v)
        PROVE  distances'[slot][v][l] = Shortest(l)[v]
    <3>1. distances[slot][v][l] = Shortest(l)[v]
      BY <1>2, <1>3, <2>1 DEF IInv, SettledInv
    <3>2. After(l, Round + 1) = Shortest(l) /\ l \in Lanes
      BY <1>2, <1>3, <2>1, SettledRound
    <3>3. QED
      BY <1>3, <2>1, <3>1, <3>2
  <2>2. QED
    BY <1>3, <1>7, <2>1 DEF SettledInv
<1>10. DenseInv'
  BY <1>1, <1>3, DenseIdle
<1>11. QED
  BY <1>1, <1>8, <1>9, <1>10, FrameKeepsTypes, FrameKeepsWaves, FrameKeepsController,
     FrameKeepsMasks, FrameKeepsOutputs DEF IInv

LEMMA LowerDestinationsKeeps ==
  ASSUME IInv, NEW w \in Waves, LowerDestinations(w) PROVE IInv'
<1> DEFINE f == wave[w].edge
           t == Destination[f]
<1>1. WaveFrame(w)
  BY LowerDestinationsFrame
<1>2. /\ stage \in RunStages /\ batch \in BatchIds /\ wave \in [Waves -> WaveStates]
      /\ Round \in Nat /\ Valid \in SUBSET Lanes
      /\ controller.execute_lane_mask \in SUBSET Valid
      /\ \A l \in Valid, k \in Nat : After(l, k) \in Assignments
      /\ \A l \in Valid : Shortest(l) \in Assignments
      /\ \A slot \in Slots, v \in Vertices, l \in Lanes : distances[slot][v][l] \in Distances
  BY <1>1, FrameFacts, RunFacts
<1>3. /\ ~Pulls /\ wave[w].pc = "minimum" /\ wave'[w].pc = "vertex"
      /\ wave'[w].index = wave[w].index
      /\ wave'[w].edge = f /\ f \in Edges
      /\ wave'[w].changed = wave[w].changed \union Lowered(w)
      /\ controller' = controller
      /\ \A slot \in Slots, v \in Vertices, l \in Lanes :
           distances'[slot][v][l] =
             IF slot = 0 /\ v = t /\ l \in Lowered(w)
               THEN wave[w].candidate[l] ELSE distances[slot][v][l]
  BY LowerDestinationsEffect
<1>4. \A l : Quiet(l)' => Quiet(l) /\ l \notin Lowered(w)
  <2>1. \A l : Quiet(l)' => Quiet(l)
    BY <1>1, <1>3, QuietStays
  <2>2. QED
    BY <1>3, <2>1 DEF Quiet
<1>5. /\ Valid' = Valid /\ Round' = Round /\ (Pulls' <=> Pulls) /\ batch' = batch
      /\ controller'.execute_lane_mask = controller.execute_lane_mask
      /\ lane_convergence_rounds' = lane_convergence_rounds
      /\ \A l, v : Selects(l, v)' <=> Selects(l, v)
      /\ \A l, k : After(l, k)' = After(l, k)
      /\ \A l : Shortest(l)' = Shortest(l)
      /\ \A e : ActiveRunLanes(e)' = ActiveRunLanes(e)
  BY <1>1, FrameFacts, ProblemStays DEF ActiveRunLanes
<1>6. 0 \in Slots /\ t \in Vertices /\ f \in Nat
  BY <1>3, EdgeType DEF Slots
<1>7. wave[w].candidate \in [Lanes -> Distances]
  BY <1>2 DEF WaveStates
\* What the edge offers the lanes it serves.
<1>8. ASSUME NEW l \in ActiveRunLanes(f)
      PROVE  /\ l \in Valid /\ l \in Lanes /\ f \in LaneAdmitted(batch, l) /\ Selects(l, t)
             /\ Shortest(l)[t] <= wave[w].candidate[l]
             /\ wave[w].candidate[l] <= Plus(After(l, Round)[Source[f]], Weight[f])
             /\ Quiet(l) => wave[w].candidate[l] =
                              Plus(distances[0][Source[f]][l], Weight[f])
  <2>1. l \in Valid /\ l \in Lanes /\ f \in LaneAdmitted(batch, l)
    BY <1>2, <1>3, ActiveLaneFacts
  <2>2. Selects(l, t)
    BY <1>2, <2>1, RowFacts
  <2>3. QED
    BY <1>2, <1>3, <2>1, <2>2 DEF IInv, DenseInv
<1>9. \A l \in Lowered(w) : l \in ActiveRunLanes(f) /\ wave[w].candidate[l] < distances[0][t][l]
  BY DEF Lowered
\* Distances only fall, and not below the shortest one.
<1>10. ASSUME NEW l \in Valid, NEW v \in Vertices, Selects(l, v)
       PROVE  /\ Shortest(l)[v] <= distances'[0][v][l]
              /\ distances'[0][v][l] <= distances[0][v][l]
              /\ distances'[0][v][l] <= After(l, Round)[v]
              /\ distances'[0][v][l] \in Distances
  <2>1. /\ Shortest(l)[v] <= distances[0][v][l]
        /\ distances[0][v][l] <= After(l, Round)[v]
    BY <1>2, <1>3, <1>10 DEF IInv, DenseInv
  <2>2. /\ distances[0][v][l] \in Nat /\ After(l, Round)[v] \in Nat /\ l \in Lanes
        /\ distances[0][v][l] \in Distances
    BY <1>2, <1>6, DistancesAreNumbers DEF Assignments
  <2>3. CASE v = t /\ l \in Lowered(w)
    <3>1. distances'[0][v][l] = wave[w].candidate[l]
      BY <1>3, <1>6, <2>2, <2>3
    <3>2. wave[w].candidate[l] \in Nat /\ wave[w].candidate[l] \in Distances
      BY <1>7, <2>2, DistancesAreNumbers
    <3>3. Shortest(l)[v] <= wave[w].candidate[l] /\ wave[w].candidate[l] < distances[0][v][l]
      BY <1>8, <1>9, <2>3
    <3>4. QED
      BY <2>1, <2>2, <3>1, <3>2, <3>3
  <2>4. CASE ~(v = t /\ l \in Lowered(w))
    <3>1. distances'[0][v][l] = distances[0][v][l]
      BY <1>3, <1>6, <2>2, <2>4
    <3>2. QED
      BY <2>1, <2>2, <3>1
  <2>5. QED
    BY <2>3, <2>4
<1>11. \A l \in Valid, v \in Vertices : l \notin Lowered(w) =>
         distances'[0][v][l] = distances[0][v][l]
  BY <1>2, <1>3, <1>6
<1>12. DenseInv'
  <2>1. ASSUME NEW l \in Valid, NEW x \in Waves, wave'[x].pc = "minimum",
               l \in ActiveRunLanes(wave'[x].edge)
        PROVE  LET e == wave'[x].edge
               IN /\ Shortest(l)[Destination[e]] <= wave'[x].candidate[l]
                  /\ wave'[x].candidate[l] <= Plus(After(l, Round)[Source[e]], Weight[e])
                  /\ Quiet(l)' => wave'[x].candidate[l] =
                                    Plus(distances'[0][Source[e]][l], Weight[e])
    <3>1. x # w /\ wave'[x] = wave[x]
      BY <1>1, <1>3, <2>1, FrameFacts
    <3>2. wave[x].edge \in Edges
      BY <2>1, <3>1 DEF IInv, WaveInv
    <3>3. Source[wave[x].edge] \in Vertices
      BY <3>2, EdgeType
    <3>4. Quiet(l)' => distances'[0][Source[wave[x].edge]][l]
                         = distances[0][Source[wave[x].edge]][l]
      BY <1>4, <1>11, <3>3
    <3>5. QED
      BY <1>2, <1>3, <1>4, <2>1, <3>1, <3>4 DEF IInv, DenseInv
  <2>2. ASSUME NEW l \in Valid, NEW e \in LaneAdmitted(batch, l),
               l \in controller.execute_lane_mask, Tried(e)'
        PROVE  /\ distances'[0][Destination[e]][l]
                    <= Plus(After(l, Round)[Source[e]], Weight[e])
               /\ Quiet(l)' => distances'[0][Destination[e]][l]
                                 <= Plus(distances'[0][Source[e]][l], Weight[e])
    <3> DEFINE d == Destination[e]
               new == distances'[0][d][l]
               old == distances[0][d][l]
               bound == Plus(After(l, Round)[Source[e]], Weight[e])
               relaxed == Plus(distances[0][Source[e]][l], Weight[e])
    <3>1. /\ l \in Lanes /\ d \in Vertices /\ Source[e] \in Vertices
          /\ Selects(l, d) /\ e \in Edges /\ e \in Nat
          /\ Source[e] \in UnionVertices(batch)
          /\ Weight[e] \in 0 .. Infinity - 1
      BY <1>2, RowFacts
    <3>2. new <= old /\ new \in Distances /\ old \in Distances
      BY <1>2, <1>6, <1>10, <3>1
    <3>3. After(l, Round)[Source[e]] \in Distances /\ distances[0][Source[e]][l] \in Distances
      BY <1>2, <1>6, <3>1 DEF Assignments
    <3>4. bound \in Distances /\ relaxed \in Distances
      BY <3>1, <3>3, PlusType
    <3>5. Quiet(l)' => new = old /\ distances'[0][Source[e]][l] = distances[0][Source[e]][l]
      BY <1>4, <1>11, <3>1
    <3>6. new \in Nat /\ old \in Nat /\ bound \in Nat
      BY <3>2, <3>4, DistancesAreNumbers
    <3>7. CASE Tried(e)
      <4>1. old <= bound /\ (Quiet(l) => old <= relaxed)
        BY <1>2, <1>3, <2>2, <3>7 DEF IInv, DenseInv
      <4> HIDE DEF new, old, bound
      <4>2. new <= bound
        BY <3>2, <3>6, <4>1
      <4>3. QED
        BY <1>4, <3>5, <4>1, <4>2 DEF new, old, bound
    <3>8. CASE ~Tried(e)
      <4>1. Owner(Source[e]) = w
        BY <1>1, <1>2, <2>2, <3>1, <3>8, TriedElsewhere
      <4>2. Passed(Source[e])' <=> Passed(Source[e])
        BY <1>1, <1>3, <4>1, PassedHere, PassedHereNext
      <4>3. e <= f /\ ~(e < f)
        BY <1>1, <1>3, <2>2, <3>8, <4>1, <4>2, TriedHere, TriedHereNext
      <4>4. e = f
        BY <1>6, <3>1, <4>3
      <4>5. l \in run_lane_masks[f]
        BY <1>2, <1>3, <2>2, <3>1, <4>4, MaskFacts
      <4>6. l \in ActiveRunLanes(f)
        BY <2>2, <4>5 DEF ActiveRunLanes
      <4>7. CASE l \in Lowered(w)
        <5>1. new = wave[w].candidate[l] /\ ~Quiet(l)'
          BY <1>3, <1>4, <1>6, <3>1, <4>4, <4>7
        <5>2. QED
          BY <1>8, <4>4, <4>6, <5>1
      <4>8. CASE l \notin Lowered(w)
        <5>1. ~(wave[w].candidate[l] < old) /\ new = old
          BY <1>11, <3>1, <4>4, <4>6, <4>8 DEF Lowered
        <5>2. wave[w].candidate[l] <= bound /\ wave[w].candidate[l] \in Nat
          BY <1>7, <1>8, <3>1, <4>4, <4>6, DistancesAreNumbers
        <5>3. Quiet(l)' => wave[w].candidate[l] = relaxed
          BY <1>4, <1>8, <4>4, <4>6
        <5> HIDE DEF new, old, bound
        <5>4. new <= bound /\ new <= wave[w].candidate[l]
          BY <3>6, <5>1, <5>2
        <5>5. QED
          BY <3>5, <5>3, <5>4 DEF new, bound
      <4>9. QED
        BY <4>7, <4>8
    <3>9. QED
      BY <3>7, <3>8
  <2>3. QED
    BY <1>5, <1>10, <2>1, <2>2 DEF DenseInv
<1>13. SettledInv'
  <2>1. ASSUME NEW l \in Valid, lane_convergence_rounds[l] # 0,
               NEW v \in Vertices, Selects(l, v)
        PROVE  distances'[0][v][l] = Shortest(l)[v]
    <3>1. distances[0][v][l] = Shortest(l)[v]
      BY <1>2, <1>3, <2>1 DEF IInv, SettledInv
    <3>2. Shortest(l)[v] <= distances'[0][v][l] /\ distances'[0][v][l] <= distances[0][v][l]
            /\ distances'[0][v][l] \in Nat
      BY <1>10, <2>1, DistancesAreNumbers
    <3>3. Shortest(l)[v] \in Nat
      BY <1>2, DistancesAreNumbers DEF Assignments
    <3>4. QED
      BY <3>1, <3>2, <3>3
  <2>2. QED
    BY <1>3, <1>5, <2>1 DEF SettledInv
<1>14. PullInv'
  BY <1>1, <1>3, PullIdle
<1>15. QED
  BY <1>1, <1>12, <1>13, <1>14, FrameKeepsTypes, FrameKeepsWaves, FrameKeepsController,
     FrameKeepsMasks, FrameKeepsOutputs DEF IInv
-----------------------------------------------------------------------------
(***************************************************************************)
(* The steps of the grid and of the host keep the invariant                *)
(***************************************************************************)
\* Before a wave has begun, nothing has had its turn.
LEMMA NothingPassed ==
  ASSUME \A w \in Waves : wave[w] = AtEntry
  PROVE  /\ \A v \in UnionVertices(batch) : ~Passed(v)
         /\ batch \in BatchIds =>
              \A l \in Lanes : \A e \in LaneAdmitted(batch, l) : ~Tried(e)
         /\ \A w \in Waves : wave[w].pc = "enter" /\ wave[w].changed = {}
<1>1. \A w \in Waves : wave[w].pc = "enter" /\ wave[w].changed = {}
  BY DEF AtEntry
<1>2. \A v \in UnionVertices(batch) : ~Passed(v)
  BY <1>1, WaveFacts DEF Passed
<1>3. ASSUME batch \in BatchIds, NEW l \in Lanes, NEW e \in LaneAdmitted(batch, l)
      PROVE  ~Tried(e)
  <2>1. Source[e] \in UnionVertices(batch) /\ Owner(Source[e]) \in Waves
    BY <1>3, RowFacts
  <2>2. ~Passed(Source[e]) /\ wave[Owner(Source[e])].pc = "enter"
    BY <1>1, <1>2, <2>1
  <2>3. QED
    BY <2>2 DEF Tried
<1>4. QED
  BY <1>1, <1>2, <1>3

LEMMA InitIInv == Init => IInv
<1> SUFFICES ASSUME Init PROVE IInv
  OBVIOUS
<1>1. /\ batch = 0 /\ stage = "idle" /\ run_options \in Options
      /\ distances = [slot \in Slots |-> [v \in Vertices |-> [l \in Lanes |-> 0]]]
      /\ run_lane_masks = [e \in Edges |-> Lanes]
      /\ lane_convergence_rounds = [l \in Lanes |-> 0]
      /\ controller = InitializeDeviceController(run_options, Lanes, 0)
      /\ wave = [w \in Waves |-> AtEntry]
      /\ outputs = [b \in BatchIds |-> [returned |-> FALSE]]
  BY DEF Init
<1>2. TypeInv
  <2>1. Len(Batches) \in Nat /\ 0 \in 0 .. Len(Batches)
    BY BatchListAssumption
  <2>2. 0 \in Distances /\ AtEntry \in WaveStates
    BY EntryType, DistancesAreNumbers
  <2>3. controller \in DeviceControllers
    BY <1>1, FreshType
  <2>4. QED
    BY <1>1, <2>1, <2>2, <2>3 DEF TypeInv, Stages
<1>3. WaveInv
  <2>1. \A w \in Waves : wave[w] = AtEntry
    BY <1>1
  <2>2. \A w \in Waves : wave[w].pc = "enter" /\ wave[w].changed = {} /\ wave[w].edge = 0
    BY <2>1 DEF AtEntry
  <2>3. QED
    BY <2>1, <2>2 DEF WaveInv
<1>4. ControllerInv /\ MaskInv /\ SettledInv /\ PullInv /\ DenseInv
  BY <1>1 DEF ControllerInv, MaskInv, SettledInv, PullInv, DenseInv, RunStages
<1>5. OutputInv
  BY <1>1 DEF OutputInv
<1>6. QED
  BY <1>2, <1>3, <1>4, <1>5 DEF IInv

LEMMA StartBatchKeeps ==
  ASSUME IInv, StartBatch PROVE IInv'
<1>1. /\ stage = "idle" /\ stage' = "initialize" /\ batch' = batch + 1
      /\ batch < Len(Batches)
      /\ distances' = distances /\ wave' = wave /\ outputs' = outputs
      /\ lane_convergence_rounds' = lane_convergence_rounds
      /\ run_lane_masks' = IF Pulls THEN run_lane_masks
                           ELSE [e \in Edges |-> RunLaneMask(batch', e)]
  BY DEF StartBatch
<1>2. batch' \in BatchIds /\ batch' \in 0 .. Len(Batches)
  BY <1>1, BatchListAssumption DEF IInv, TypeInv, BatchIds
<1>3. PICK options \in Options :
        /\ options.engine = run_options.engine /\ run_options' = options
        /\ controller' = InitializeDeviceController(
                           options, Batches[batch'].valid_lane_mask, 0)
  BY DEF StartBatch
<1>4. Pulls' <=> Pulls
  BY <1>3 DEF Pulls
<1>5. Batches[batch'].valid_lane_mask \in SUBSET Lanes
  BY <1>2, BatchFacts
<1>6. controller' \in DeviceControllers
  BY <1>3, <1>5, FreshType
<1>7. TypeInv'
  <2>1. run_lane_masks' \in [Edges -> SUBSET Lanes]
    BY <1>1 DEF IInv, TypeInv, RunLaneMask, VertexLanes
  <2>2. QED
    BY <1>1, <1>2, <1>3, <1>6, <2>1 DEF IInv, TypeInv, Stages
<1>8. WaveInv'
  <2>1. \A w \in Waves : wave'[w] = AtEntry
    BY <1>1 DEF IInv, WaveInv
  <2>2. \A w \in Waves :
          wave'[w].pc = "enter" /\ wave'[w].changed = {} /\ wave'[w].edge = 0
    BY <2>1 DEF AtEntry
  <2>3. QED
    BY <2>1, <2>2 DEF WaveInv
<1>9. MaskInv'
  BY <1>1, <1>4 DEF MaskInv, RunStages
<1>10. ControllerInv' /\ SettledInv' /\ PullInv' /\ DenseInv'
  BY <1>1 DEF ControllerInv, SettledInv, PullInv, DenseInv, RunStages
<1>11. OutputInv'
  BY <1>1 DEF IInv, OutputInv, ReturnedIsTrue
<1>12. QED
  BY <1>7, <1>8, <1>9, <1>10, <1>11 DEF IInv

LEMMA InitialFacts ==
  ASSUME NEW b \in BatchIds, NEW l \in Batches[b].valid_lane_mask
  PROVE  /\ LaneRounds(b, l)[0] = LaneInitial[b][l]
         /\ LaneInitial[b][l] \in Assignments
         /\ \A v \in Vertices : LaneReference[b][l][v] <= LaneInitial[b][l][v]
<1>1. LaneRounds(b, l)[0] = LaneInitial[b][l] /\ LaneInitial[b][l] \in Assignments
  BY LanesInBatch, LanesAreQueries DEF LaneIsQuery
<1>2. \A v \in Vertices : LaneReference[b][l][v] <= LaneRounds(b, l)[0][v]
  BY RoundsAbove
<1>3. QED
  BY <1>1, <1>2

LEMMA InitializeStateKeeps ==
  ASSUME IInv, InitializeState PROVE IInv'
<1>1. /\ stage = "initialize" /\ stage' = "round" /\ batch' = batch
      /\ run_options' = run_options /\ wave' = wave /\ outputs' = outputs
      /\ run_lane_masks' = InitialRunMasks
      /\ lane_convergence_rounds' = [l \in Lanes |-> 0]
      /\ controller' = InitializeDeviceController(run_options, Valid, 0)
      /\ distances' =
           [slot \in Slots |-> [v \in Vertices |-> [l \in Lanes |->
              IF l \in VertexLanes(batch, v) /\ (Pulls \/ slot = 0)
                THEN LaneInitial[batch][l][v]
                ELSE distances[slot][v][l]]]]
  BY DEF InitializeState, hostVars
<1>2. batch \in BatchIds /\ run_options \in Options /\ Valid \in SUBSET Lanes
  <2>1. batch \in BatchIds /\ run_options \in Options
    BY <1>1 DEF IInv, TypeInv
  <2>2. QED
    BY <2>1, BatchFacts DEF Valid
<1>3. /\ Valid' = Valid /\ (Pulls' <=> Pulls)
      /\ \A l, v : Selects(l, v)' <=> Selects(l, v)
      /\ \A l, k : After(l, k)' = After(l, k)
      /\ \A l : Shortest(l)' = Shortest(l)
  BY <1>1, ProblemStays
<1>4. LET c == InitializeDeviceController(run_options, Valid, 0)
      IN /\ SoundController(c)
         /\ c.rounds_completed = 0 /\ c.changed_lane_mask = {}
         /\ c.distance_read_slot = 0 /\ c.converged_lane_mask = {}
         /\ c.execute_lane_mask = Valid /\ ~c.done
  BY <1>2, FreshIsSound
<1>5. /\ controller' \in DeviceControllers
      /\ Round' = 0 /\ ReadOf' = 0 /\ controller'.converged_lane_mask = {}
  BY <1>1, <1>2, <1>4, FreshType DEF Round, ReadOf
<1>6. \A l \in Valid, v \in Vertices : Selects(l, v) =>
        /\ distances'[0][v][l] = After(l, 0)[v]
        /\ Shortest(l)[v] <= After(l, 0)[v]
        /\ After(l, 0)[v] \in Nat
  <2>1. ASSUME NEW l \in Valid, NEW v \in Vertices, Selects(l, v)
        PROVE  /\ distances'[0][v][l] = After(l, 0)[v]
               /\ Shortest(l)[v] <= After(l, 0)[v]
               /\ After(l, 0)[v] \in Nat
    <3>1. /\ After(l, 0) = LaneInitial[batch][l]
          /\ LaneInitial[batch][l] \in Assignments
          /\ \A u \in Vertices : Shortest(l)[u] <= LaneInitial[batch][l][u]
      BY <1>2, InitialFacts DEF After, Shortest, Valid
    <3>2. distances'[0][v][l] = LaneInitial[batch][l][v]
      BY <1>1, <1>2, <2>1 DEF Selects, Slots
    <3>3. QED
      BY <3>1, <3>2, DistancesAreNumbers DEF Assignments
  <2>2. QED
    BY <2>1
<1>7. TypeInv'
  <2>1. ASSUME NEW slot \in Slots, NEW v \in Vertices, NEW l \in Lanes
        PROVE  distances'[slot][v][l] \in Distances
    <3>1. LaneInitial[batch][l][v] \in Distances
      BY <1>2, DistancesAreNumbers DEF LaneInitial
    <3>2. distances[slot][v][l] \in Distances
      BY DEF IInv, TypeInv
    <3>3. QED
      BY <1>1, <3>1, <3>2
  <2>2. distances' \in [Slots -> [Vertices -> [Lanes -> Distances]]]
    BY <1>1, <2>1
  <2>3. run_lane_masks' \in [Edges -> SUBSET Lanes]
    BY <1>1 DEF IInv, TypeInv, InitialRunMasks, RunLaneMask, VertexLanes
  <2>4. lane_convergence_rounds' \in [Lanes -> Nat]
    BY <1>1
  <2>5. stage' \in Stages /\ batch' \in 0 .. Len(Batches) /\ batch' \in BatchIds
          /\ run_options' \in Options /\ wave' \in [Waves -> WaveStates]
    BY <1>1, <1>2 DEF IInv, TypeInv, Stages, RunStages
  <2>6. QED
    BY <1>5, <2>2, <2>3, <2>4, <2>5 DEF TypeInv
<1>8. \A w \in Waves : wave'[w] = AtEntry
  BY <1>1 DEF IInv, WaveInv
<1>9. WaveInv'
  BY <1>8 DEF WaveInv, AtEntry
<1>10. ControllerInv'
  <2>1. SoundController(controller)'
    BY <1>1, <1>3, <1>4 DEF SoundController
  <2>2. QED
    BY <1>1, <1>5, <2>1 DEF ControllerInv
<1>11. MaskInv'
  <2>1. ASSUME ~Pulls, NEW e \in Edges PROVE run_lane_masks'[e] = RunLaneMask(batch, e)
    BY <1>1, <2>1 DEF IInv, MaskInv, InitialRunMasks
  <2>2. ASSUME Pulls, NEW e \in Edges, Destination[e] \in UnionVertices(batch)
        PROVE  run_lane_masks'[e] = RunLaneMask(batch, e)
    BY <1>1, <2>2 DEF InitialRunMasks
  <2>3. QED
    BY <1>1, <1>3, <2>1, <2>2 DEF MaskInv
<1>12. SettledInv'
  BY <1>1, <1>2, <1>3 DEF SettledInv
<1>13. /\ \A v \in UnionVertices(batch) : ~Passed(v)'
       /\ \A l \in Lanes : \A e \in LaneAdmitted(batch, l) : ~Tried(e)'
       /\ \A w \in Waves : wave'[w].pc = "enter"
  <2>1. /\ \A v \in UnionVertices(batch) : ~Passed(v)
        /\ \A l \in Lanes : \A e \in LaneAdmitted(batch, l) : ~Tried(e)
        /\ \A w \in Waves : wave[w].pc = "enter"
    BY <1>1, <1>2, <1>8, NothingPassed
  <2>2. QED
    BY <1>1, <2>1, ProblemStays DEF Passed, Tried
<1>14. PullInv'
  <2>1. ASSUME NEW l \in Valid, NEW v \in Vertices, Selects(l, v)
        PROVE  Read'[v][l] = After(l, 0)[v] /\ ~Passed(v)'
    <3>1. v \in UnionVertices(batch)
      BY <1>2, <2>1, SelectsFacts
    <3>2. Read'[v][l] = distances'[0][v][l]
      BY <1>5 DEF Read, ReadOf
    <3>3. QED
      BY <1>6, <1>13, <2>1, <3>1, <3>2
  <2>2. QED
    BY <1>3, <1>5, <2>1 DEF PullInv
<1>15. DenseInv'
  <2>1. ASSUME NEW l \in Valid, NEW v \in Vertices, Selects(l, v)
        PROVE  /\ Shortest(l)[v] <= distances'[0][v][l]
               /\ distances'[0][v][l] <= After(l, 0)[v]
    BY <1>6, <2>1
  <2>2. Valid \in SUBSET Lanes /\ batch' = batch
    BY <1>1, <1>2
  <2>3. QED
    BY <1>3, <1>5, <1>13, <2>1, <2>2 DEF DenseInv
<1>16. OutputInv'
  BY <1>1 DEF IInv, OutputInv, ReturnedIsTrue
<1>17. QED
  BY <1>7, <1>9, <1>10, <1>11, <1>12, <1>14, <1>15, <1>16 DEF IInv

\* Steps between rounds that leave the run's state alone.
LEMMA BetweenRounds ==
  ASSUME IInv, stage \in RunStages \ {"round"}, stage' \in RunStages,
         UNCHANGED <<distances, run_lane_masks, lane_convergence_rounds, controller,
                     wave, batch, run_options>>
  PROVE  /\ TypeInv' /\ WaveInv' /\ MaskInv'
         /\ SettledInv' /\ PullInv' /\ DenseInv'
         /\ (stage' \in {"finalize", "readback"} => controller.done) => ControllerInv'
<1>1. /\ Valid' = Valid /\ (Pulls' <=> Pulls)
      /\ \A v : Rank(v)' = Rank(v)
      /\ \A v : Owner(v)' = Owner(v)
      /\ \A l, v : Selects(l, v)' <=> Selects(l, v)
      /\ \A l, k : After(l, k)' = After(l, k)
      /\ \A l : Shortest(l)' = Shortest(l)
  BY ProblemStays
<1>2. /\ Round' = Round /\ ReadOf' = ReadOf /\ WriteOf' = WriteOf
      /\ \A v : Passed(v)' <=> Passed(v)
      /\ \A l : Quiet(l)' <=> Quiet(l)
      /\ \A e : ActiveRunLanes(e)' = ActiveRunLanes(e)
      /\ batch' = batch /\ controller' = controller
  BY <1>1 DEF Round, ReadOf, WriteOf, Passed, Quiet, ActiveRunLanes
<1>3. \A e : Tried(e)' <=> Tried(e)
  BY <1>1, <1>2 DEF Tried
<1>4. TypeInv'
  BY DEF IInv, TypeInv, Stages, RunStages
<1>5. WaveInv'
  <2>1. \A w \in Waves : wave'[w] = AtEntry
    BY DEF IInv, WaveInv
  <2>2. \A w \in Waves :
          wave'[w].pc = "enter" /\ wave'[w].changed = {} /\ wave'[w].edge = 0
    BY <2>1 DEF AtEntry
  <2>3. QED
    BY <2>1, <2>2 DEF WaveInv
<1>6. MaskInv'
  BY <1>1 DEF IInv, MaskInv
<1>7. SettledInv'
  BY <1>1 DEF IInv, SettledInv
<1>8. PullInv'
  <2>1. Read' = Read
    BY DEF Read
  <2>2. QED
    BY <1>1, <1>2, <2>1 DEF IInv, PullInv
<1>9. DenseInv'
  BY <1>1, <1>2, <1>3 DEF IInv, DenseInv
<1>10. ASSUME stage' \in {"finalize", "readback"} => controller.done
       PROVE  ControllerInv'
  <2>1. SoundController(controller)'
    BY <1>1 DEF IInv, ControllerInv, SoundController
  <2>2. QED
    BY <1>1, <1>10, <2>1 DEF IInv, ControllerInv, Round
<1>11. QED
  BY <1>4, <1>5, <1>6, <1>7, <1>8, <1>9, <1>10

LEMMA HostPollKeeps ==
  ASSUME IInv, HostPoll PROVE IInv'
<1>1. /\ stage = "poll" /\ stage' = (IF controller.done THEN "finalize" ELSE "round")
      /\ UNCHANGED <<distances, run_lane_masks, lane_convergence_rounds, controller,
                     status, wave, batch, run_options, outputs>>
  BY DEF HostPoll, scratchVars, deviceVars
<1>2. stage \in RunStages \ {"round"} /\ stage' \in RunStages
        /\ (stage' \in {"finalize", "readback"} => controller.done)
  BY <1>1 DEF RunStages
<1>3. OutputInv'
  BY <1>1 DEF IInv, OutputInv, ReturnedIsTrue
<1>4. QED
  BY <1>1, <1>2, <1>3, BetweenRounds DEF IInv

LEMMA FinalizeKeeps ==
  ASSUME IInv, Finalize PROVE IInv'
<1>1. /\ stage = "finalize" /\ stage' = "readback" /\ status' = CompletedStatus
      /\ UNCHANGED <<distances, run_lane_masks, lane_convergence_rounds, controller,
                     wave, batch, run_options, outputs>>
  BY DEF Finalize, scratchVars, hostVars
<1>2. stage \in RunStages \ {"round"} /\ stage' \in RunStages /\ controller.done
  BY <1>1 DEF RunStages, IInv, ControllerInv
<1>3. OutputInv'
  <2>1. CompletedStatus' = CompletedStatus
    BY <1>1 DEF CompletedStatus, Valid, Read
  <2>2. \A b \in BatchIds : outputs'[b].returned => ReturnedIsTrue(b)'
    BY <1>1 DEF IInv, OutputInv, ReturnedIsTrue
  <2>3. DOMAIN outputs' = BatchIds
    BY <1>1 DEF IInv, OutputInv
  <2>4. QED
    BY <1>1, <2>1, <2>2, <2>3 DEF OutputInv
<1>4. QED
  BY <1>1, <1>2, <1>3, BetweenRounds DEF IInv

\* What the distances of a settled lane are read as.
LEMMA SettledImage ==
  ASSUME IInv, stage \in RunStages, NEW l \in Valid, lane_convergence_rounds[l] # 0,
         NEW slot \in IF Pulls THEN Slots ELSE {0}
  PROVE  LaneDistances(batch, l, distances[slot]) = LaneReference[batch][l]
<1>1. batch \in BatchIds /\ Shortest(l) \in Assignments
  BY RunFacts
<1>2. \A v \in Vertices : Selects(l, v) => distances[slot][v][l] = Shortest(l)[v]
  BY DEF IInv, SettledInv
<1>3. \A v \in Vertices : ~Selects(l, v) => Shortest(l)[v] = Infinity
  BY <1>1, UnselectedIsUnreached DEF Selects, Shortest, Valid
<1>4. LaneDistances(batch, l, distances[slot]) = [v \in Vertices |-> Shortest(l)[v]]
  BY <1>2, <1>3 DEF LaneDistances, Selects
<1>5. QED
  BY <1>1, <1>4 DEF Assignments, Shortest

LEMMA CompletedFields ==
  ASSUME IInv, stage \in RunStages
  PROVE  LET reached == {l \in Valid : LaneReached(batch, l, Read)}
             s       == CompletedStatus
         IN /\ s.final_distance_slot = ReadOf
            /\ s.stop_reason = controller.stop_reason
            /\ IF controller.stop_reason = "converged"
                 THEN /\ s.reached_target_mask = reached
                      /\ s.bounding_box_miss_mask = Valid \ reached
                 ELSE s.reached_target_mask = {} /\ s.bounding_box_miss_mask = {}
<1>1. controller.valid_lane_mask = Valid /\ controller.error_bits = {}
  BY RunFacts DEF SoundController
<1>2. QED
  BY <1>1 DEF CompletedStatus, MakeRunStatus, ReadOf

LEMMA TruthAtTheEnd ==
  ASSUME IInv, stage = "readback", controller.stop_reason = "converged"
  PROVE  \A l \in Valid :
           /\ LaneDistances(batch, l, Read) = LaneReference[batch][l]
           /\ LaneReached(batch, l, Read) <=>
                \A v \in Batches[batch].targets[l] :
                  LaneReference[batch][l][v] # Infinity
<1>1. stage \in RunStages
  BY DEF RunStages
<1>2. batch \in BatchIds /\ SoundController(controller) /\ ReadOf \in Slots
        /\ (~Pulls => ReadOf = 0)
  BY <1>1, RunFacts
<1>3. controller.done
  BY <1>1 DEF IInv, ControllerInv
<1>4. controller.active_lane_mask = {}
  BY <1>2, <1>3 DEF SoundController
<1>5. controller.converged_lane_mask = Valid
  BY <1>2, <1>4 DEF SoundController
<1>6. \A l \in Valid : lane_convergence_rounds[l] # 0
  BY <1>1, <1>5 DEF IInv, ControllerInv
<1>7. ReadOf \in IF Pulls THEN Slots ELSE {0}
  BY <1>2
<1>8. ASSUME NEW l \in Valid
      PROVE  LaneDistances(batch, l, Read) = LaneReference[batch][l]
  BY <1>1, <1>6, <1>7, SettledImage DEF Read, ReadOf
<1>9. ASSUME NEW l \in Valid, NEW v \in Batches[batch].targets[l]
      PROVE  Read[v][l] = LaneReference[batch][l][v]
  <2>1. v \in Vertices /\ OwnerTile[v] \in Batches[batch].tiles[l] /\ l \in Lanes
    BY <1>2, BatchFacts DEF Valid
  <2>2. l \in VertexLanes(batch, v)
    BY <2>1 DEF VertexLanes
  <2>3. LaneDistances(batch, l, Read)[v] = Read[v][l]
    BY <2>1, <2>2 DEF LaneDistances
  <2>4. QED
    BY <1>8, <2>3
<1>10. QED
  BY <1>8, <1>9 DEF LaneReached

LEMMA ReadbackKeeps ==
  ASSUME IInv, Readback PROVE IInv'
<1> DEFINE output ==
      [returned   |-> TRUE,
       consistent |-> DownloadIsConsistent /\ CompactStatusIsConsistent,
       status     |-> status,
       distances  |-> [l \in Lanes |->
                         LaneDistances(batch, l, distances[status.final_distance_slot])],
       rounds     |-> [l \in Lanes |-> IF l \in Valid
                                         THEN lane_convergence_rounds[l] ELSE 0]]
<1>1. /\ stage = "readback" /\ stage' = "idle"
      /\ outputs' = [outputs EXCEPT ![batch] = output]
      /\ UNCHANGED <<distances, run_lane_masks, lane_convergence_rounds, controller,
                     wave, batch, run_options>>
  BY DEF Readback, scratchVars, deviceVars
<1>2. output.status = status
        /\ output.distances = [l \in Lanes |->
             LaneDistances(batch, l, distances[status.final_distance_slot])]
  OBVIOUS
<1> HIDE DEF output
<1>3. stage \in RunStages
  BY <1>1 DEF RunStages
<1>4. batch \in BatchIds /\ Valid \in SUBSET Lanes
  BY <1>3, RunFacts
<1>5. TypeInv'
  BY <1>1 DEF IInv, TypeInv, Stages
<1>6. WaveInv'
  <2>1. \A w \in Waves : wave'[w] = AtEntry
    BY <1>1 DEF IInv, WaveInv
  <2>2. \A w \in Waves :
          wave'[w].pc = "enter" /\ wave'[w].changed = {} /\ wave'[w].edge = 0
    BY <2>1 DEF AtEntry
  <2>3. QED
    BY <2>1, <2>2 DEF WaveInv
<1>7. ControllerInv' /\ MaskInv' /\ SettledInv' /\ PullInv' /\ DenseInv'
  BY <1>1 DEF ControllerInv, MaskInv, SettledInv, PullInv, DenseInv, RunStages
<1>8. /\ DOMAIN outputs = BatchIds /\ DOMAIN outputs' = BatchIds
      /\ outputs'[batch] = output
      /\ \A b \in BatchIds : b # batch => outputs'[b] = outputs[b]
  <2>1. DOMAIN outputs = BatchIds
    BY DEF IInv, OutputInv
  <2>2. QED
    BY <1>1, <1>4, <2>1
<1>9. ASSUME NEW b \in BatchIds, outputs'[b].returned PROVE ReturnedIsTrue(b)'
  <2>1. CASE b # batch
    BY <1>8, <1>9, <2>1 DEF IInv, OutputInv, ReturnedIsTrue
  <2>2. CASE b = batch
    <3> DEFINE near == {l \in Valid : \A v \in Batches[batch].targets[l] :
                                        LaneReference[batch][l][v] # Infinity}
               reached == {l \in Valid : LaneReached(batch, l, Read)}
    <3>1. status = CompletedStatus
      BY <1>1 DEF IInv, OutputInv
    <3>2. /\ status.final_distance_slot = ReadOf
          /\ status.stop_reason = controller.stop_reason
          /\ IF controller.stop_reason = "converged"
               THEN /\ status.reached_target_mask = reached
                    /\ status.bounding_box_miss_mask = Valid \ reached
               ELSE status.reached_target_mask = {} /\ status.bounding_box_miss_mask = {}
      BY <1>3, <3>1, CompletedFields
    <3>3. CASE status.stop_reason = "converged"
      <4>1. \A l \in Valid :
              /\ LaneDistances(batch, l, Read) = LaneReference[batch][l]
              /\ LaneReached(batch, l, Read) <=>
                   \A v \in Batches[batch].targets[l] : LaneReference[batch][l][v] # Infinity
        BY <1>1, <3>2, <3>3, TruthAtTheEnd
      <4>2. reached = near
        BY <4>1
      <4>3. \A l \in Valid : output.distances[l] = LaneReference[batch][l]
        BY <1>2, <1>4, <3>2, <4>1 DEF Read, ReadOf
      <4>4. /\ outputs'[b].status.reached_target_mask = near
            /\ outputs'[b].status.bounding_box_miss_mask = Valid \ near
            /\ \A l \in Valid : outputs'[b].distances[l] = LaneReference[batch][l]
        BY <1>2, <1>8, <2>2, <3>2, <3>3, <4>2, <4>3
      <4>5. outputs'[b].status.stop_reason = "converged"
        BY <1>2, <1>8, <2>2, <3>3
      <4>6. QED
        BY <2>2, <4>4, <4>5 DEF ReturnedIsTrue, Valid
    <3>4. CASE status.stop_reason # "converged"
      <4>1. /\ outputs'[b].status.reached_target_mask = {}
            /\ outputs'[b].status.bounding_box_miss_mask = {}
            /\ outputs'[b].status.stop_reason # "converged"
        BY <1>2, <1>8, <2>2, <3>2, <3>4
      <4>2. QED
        BY <4>1 DEF ReturnedIsTrue
    <3>5. QED
      BY <3>3, <3>4
  <2>3. QED
    BY <2>1, <2>2
<1>10. OutputInv'
  BY <1>1, <1>8, <1>9 DEF OutputInv
<1>11. QED
  BY <1>5, <1>6, <1>7, <1>10 DEF IInv

\* At the barrier every vertex and edge has had its turn, and what the waves saw
\* change is in the controller.
LEMMA BarrierFacts ==
  ASSUME IInv, stage = "round", \A w \in Waves : wave[w].pc = "sync"
  PROVE  /\ \A v \in UnionVertices(batch) : Passed(v)
         /\ \A l \in Lanes : \A e \in LaneAdmitted(batch, l) : Tried(e)
         /\ \A l : Quiet(l) <=> l \notin controller.changed_lane_mask
<1>1. batch \in BatchIds
  BY RunFacts DEF RunStages
<1>2. \A v \in UnionVertices(batch) : Passed(v)
  BY WaveFacts DEF Passed
<1>3. \A l \in Lanes : \A e \in LaneAdmitted(batch, l) : Tried(e)
  BY <1>1, <1>2, RowFacts DEF Tried
<1>4. \A w \in Waves : wave[w].changed = {}
  BY DEF IInv, WaveInv
<1>5. QED
  BY <1>2, <1>3, <1>4 DEF Quiet

\* Jacobi: when the round is over the write slot holds the next one, and a lane
\* that was left alone has nothing more to find.
LEMMA PullRoundEnds ==
  ASSUME IInv, stage = "round", \A w \in Waves : wave[w].pc = "sync", Pulls,
         ~controller.done, NEW l \in Valid
  PROVE  /\ \A v \in Vertices : Selects(l, v) =>
              distances[WriteOf][v][l] = After(l, Round + 1)[v]
         /\ l \in UnchangedLanes => /\ After(l, Round) = Shortest(l)
                                    /\ After(l, Round + 1) = Shortest(l)
<1>1. stage \in RunStages
  BY DEF RunStages
<1>2. /\ batch \in BatchIds /\ l \in Lanes /\ Round \in Nat /\ Round + 1 \in Nat
      /\ SoundController(controller) /\ WriteOf \in Slots
  BY <1>1, RunFacts
<1>3. After(l, Round) \in Assignments /\ After(l, Round + 1) \in Assignments
  BY <1>2, LanesInBatch DEF After, Valid
<1>4. ASSUME NEW v \in Vertices, Selects(l, v), l \in controller.execute_lane_mask
      PROVE  /\ distances[WriteOf][v][l] = After(l, Round + 1)[v]
             /\ Quiet(l) => After(l, Round + 1)[v] = After(l, Round)[v]
  <2>1. Passed(v)
    BY <1>2, <1>4, SelectsFacts, BarrierFacts
  <2>2. QED
    BY <1>1, <1>4, <2>1 DEF IInv, PullInv
<1>5. ASSUME NEW v \in Vertices, Selects(l, v), l \notin controller.execute_lane_mask
      PROVE  distances[WriteOf][v][l] = After(l, Round + 1)[v]
  <2>1. l \in controller.converged_lane_mask
    BY <1>2, <1>5 DEF SoundController
  <2>2. lane_convergence_rounds[l] # 0
    BY <1>1, <2>1 DEF IInv, ControllerInv
  <2>3. distances[WriteOf][v][l] = Shortest(l)[v]
    BY <1>1, <1>2, <1>5, <2>2 DEF IInv, SettledInv
  <2>4. After(l, Round + 1) = Shortest(l)
    BY <1>1, <2>2, SettledRound
  <2>5. QED
    BY <2>3, <2>4
<1>6. ASSUME l \in UnchangedLanes
      PROVE  After(l, Round) = Shortest(l) /\ After(l, Round + 1) = Shortest(l)
  <2>1. l \in controller.execute_lane_mask /\ Quiet(l)
    BY <1>6, BarrierFacts DEF UnchangedLanes
  <2>2. ASSUME NEW v \in Vertices PROVE After(l, Round + 1)[v] = After(l, Round)[v]
    <3>1. CASE Selects(l, v)
      BY <1>4, <2>1, <3>1
    <3>2. CASE ~Selects(l, v)
      <4>1. After(l, Round)[v] = Infinity /\ After(l, Round + 1)[v] = Infinity
        BY <1>2, <3>2, RoundsKeep DEF After, Selects, Valid
      <4>2. QED
        BY <4>1
    <3>3. QED
      BY <3>1, <3>2
  <2>3. After(l, Round + 1) = After(l, Round)
    BY <1>3, <2>2 DEF Assignments
  <2>4. After(l, Round) = Shortest(l)
    BY <1>2, <2>3, StableIsShortest DEF After, Shortest, Valid
  <2>5. QED
    BY <2>3, <2>4
<1>7. QED
  BY <1>4, <1>5, <1>6

\* Dense: the distances are then within the next round too, and those of a lane
\* that was left alone are the shortest ones.
LEMMA DenseRoundEnds ==
  ASSUME IInv, stage = "round", \A w \in Waves : wave[w].pc = "sync", ~Pulls,
         ~controller.done, NEW l \in Valid
  PROVE  /\ \A v \in Vertices : Selects(l, v) =>
              distances[0][v][l] <= After(l, Round + 1)[v]
         /\ l \in UnchangedLanes =>
              \A v \in Vertices : Selects(l, v) => distances[0][v][l] = Shortest(l)[v]
<1> DEFINE d == [v \in Vertices |-> IF Selects(l, v) THEN distances[0][v][l] ELSE Infinity]
           F == After(l, Round)
<1>1. stage \in RunStages
  BY DEF RunStages
<1>2. /\ batch \in BatchIds /\ l \in Lanes /\ Round \in Nat /\ Round + 1 \in Nat
      /\ SoundController(controller) /\ 0 \in Slots
      /\ \A v \in Vertices : distances[0][v][l] \in Distances
  BY <1>1, RunFacts DEF Slots
<1>3. F \in Assignments /\ After(l, Round + 1) \in Assignments
        /\ Shortest(l) \in Assignments
  BY <1>2, LanesInBatch DEF After, Valid, Shortest
<1>4. \A v \in Vertices : Selects(l, v) =>
        Shortest(l)[v] <= distances[0][v][l] /\ distances[0][v][l] <= F[v]
  BY <1>1 DEF IInv, DenseInv
<1>5. \A e \in LaneAdmitted(batch, l) : l \in controller.execute_lane_mask =>
        /\ distances[0][Destination[e]][l] <= Plus(F[Source[e]], Weight[e])
        /\ Quiet(l) => distances[0][Destination[e]][l]
                         <= Plus(distances[0][Source[e]][l], Weight[e])
  <2>1. \A e \in LaneAdmitted(batch, l) : Tried(e)
    BY <1>2, BarrierFacts
  <2>2. QED
    BY <1>1, <2>1 DEF IInv, DenseInv
<1>6. ASSUME NEW v \in Vertices, Selects(l, v), l \in controller.execute_lane_mask
      PROVE  distances[0][v][l] <= After(l, Round + 1)[v]
  <2>1. After(l, Round + 1) = LaneRound(batch, l, F)
    BY <1>2, NextRound
  <2>2. \/ LaneRound(batch, l, F)[v] = F[v]
        \/ \E e \in LaneAdmitted(batch, l) :
             /\ Destination[e] = v
             /\ LaneRound(batch, l, F)[v] = Plus(F[Source[e]], Weight[e])
    BY <1>3, LaneRoundFacts
  <2>3. QED
    BY <1>4, <1>5, <1>6, <2>1, <2>2
<1>7. ASSUME NEW v \in Vertices, Selects(l, v), l \notin controller.execute_lane_mask
      PROVE  distances[0][v][l] <= After(l, Round + 1)[v]
  <2>1. l \in controller.converged_lane_mask
    BY <1>2, <1>7 DEF SoundController
  <2>2. lane_convergence_rounds[l] # 0
    BY <1>1, <2>1 DEF IInv, ControllerInv
  <2>3. distances[0][v][l] = Shortest(l)[v]
    BY <1>1, <1>7, <2>2 DEF IInv, SettledInv
  <2>4. Shortest(l)[v] <= After(l, Round + 1)[v]
    BY <1>2, RoundsAbove DEF Shortest, After, Valid
  <2>5. QED
    BY <2>3, <2>4
<1>8. ASSUME l \in UnchangedLanes
      PROVE  \A v \in Vertices : Selects(l, v) => distances[0][v][l] = Shortest(l)[v]
  <2>1. l \in controller.execute_lane_mask /\ Quiet(l)
    BY <1>8, BarrierFacts DEF UnchangedLanes
  <2>2. d \in Assignments
    BY <1>2, DistancesAreNumbers DEF Assignments
  <2>3. ASSUME NEW v \in Vertices PROVE Shortest(l)[v] <= d[v]
    <3>1. CASE Selects(l, v)
      BY <1>4, <3>1
    <3>2. CASE ~Selects(l, v)
      <4>1. Shortest(l)[v] = Infinity /\ d[v] = Infinity /\ Infinity \in Nat
        BY <1>2, <3>2, UnselectedIsUnreached, DistancesAreNumbers DEF Shortest, Selects, Valid
      <4>2. QED
        BY <4>1
    <3>3. QED
      BY <3>1, <3>2
  <2>4. ASSUME NEW v \in Vertices, LaneInitial[batch][l][v] = 0 PROVE d[v] = 0
    <3>1. F[v] = 0
      BY <1>2, <2>4, RoundsKeep DEF After, Valid
    <3>2. Selects(l, v)
      BY <1>2, <3>1, RoundsKeep, GraphAssumption DEF After, Selects, Valid
    <3>3. distances[0][v][l] <= 0 /\ distances[0][v][l] \in Nat
      BY <1>2, <1>4, <3>1, <3>2, DistancesAreNumbers
    <3>4. QED
      BY <3>2, <3>3
  <2>5. ASSUME NEW e \in LaneAdmitted(batch, l) PROVE LaneRelaxed(d, e)
    <3>1. /\ Source[e] \in Vertices /\ Destination[e] \in Vertices
          /\ Selects(l, Source[e]) /\ Selects(l, Destination[e])
      BY <1>2, RowFacts
    <3>2. d[Source[e]] = distances[0][Source[e]][l]
            /\ d[Destination[e]] = distances[0][Destination[e]][l]
      BY <3>1
    <3>3. QED
      BY <1>5, <2>1, <3>2 DEF LaneRelaxed
  <2>6. d = Shortest(l)
    <3> HIDE DEF d
    <3>1. /\ \A v \in Vertices : LaneReference[batch][l][v] <= d[v]
          /\ \A v \in Vertices : LaneInitial[batch][l][v] = 0 => d[v] = 0
          /\ \A e \in LaneAdmitted(batch, l) : LaneRelaxed(d, e)
      BY <2>3, <2>4, <2>5 DEF Shortest
    <3>2. QED
      BY <1>2, <2>2, <3>1, RelaxedIsShortest DEF Shortest, Valid
  <2>7. ASSUME NEW v \in Vertices, Selects(l, v) PROVE distances[0][v][l] = Shortest(l)[v]
    <3>1. d[v] = distances[0][v][l]
      BY <2>7
    <3>2. QED
      BY <2>6, <3>1
  <2>8. QED
    BY <2>7
<1>9. QED
  BY <1>6, <1>7, <1>8

\* The controller after the barrier, and the lanes it records.
LEMMA AdvanceRunning ==
  ASSUME IInv, AdvanceController, ~controller.done
  PROVE  /\ SoundController(controller)'
         /\ controller' \in DeviceControllers
         /\ Round' = Round + 1
         /\ Pulls => ReadOf' = WriteOf /\ WriteOf' = ReadOf
         /\ \A l \in Lanes : lane_convergence_rounds'[l] =
              IF l \in UnchangedLanes /\ lane_convergence_rounds[l] = 0
                THEN Round + 1 ELSE lane_convergence_rounds[l]
         /\ \A l \in controller'.converged_lane_mask : lane_convergence_rounds'[l] # 0
         /\ \A l \in Lanes : lane_convergence_rounds'[l] <= Round'
<1>1. /\ stage = "round" /\ batch' = batch /\ run_options' = run_options
      /\ controller' = AdvancedController
      /\ lane_convergence_rounds' = ConvergenceRounds
  BY DEF AdvanceController, AdvancedController
<1>2. stage \in RunStages
  BY <1>1 DEF RunStages
<1>3. /\ SoundController(controller) /\ Round \in Nat
      /\ controller \in DeviceControllers /\ TypeInv
      /\ (Pulls => ReadOf # WriteOf) /\ (~Pulls => ReadOf = 0 /\ WriteOf = 0)
      /\ controller.execute_lane_mask \in SUBSET Valid /\ Valid \in SUBSET Lanes
  BY <1>2, RunFacts DEF IInv, TypeInv
<1>4. /\ EndOfRound(controller, controller')
      /\ Pulls => /\ controller'.distance_read_slot = controller.distance_write_slot
                  /\ controller'.distance_write_slot = controller.distance_read_slot
      /\ ~Pulls => SameSlots(controller, controller')
  BY <1>1, <1>3, AdvanceEffect
<1>5. IF Pulls THEN controller'.distance_read_slot # controller'.distance_write_slot
               ELSE /\ controller'.distance_read_slot = 0
                    /\ controller'.distance_write_slot = 0
  BY <1>3, <1>4 DEF SameSlots, ReadOf, WriteOf
<1>6. /\ SoundController(controller')
      /\ controller'.converged_lane_mask
           \subseteq controller.converged_lane_mask
                       \union (controller.execute_lane_mask \ controller.changed_lane_mask)
  BY <1>3, <1>4, <1>5, EndOfRoundIsSound
<1>7. SoundController(controller)'
  <2>1. Valid' = Valid /\ (Pulls' <=> Pulls)
    BY <1>1, ProblemStays
  <2>2. QED
    BY <1>1, <1>6, <2>1 DEF SoundController
<1>8. RecordsARound
  BY <1>3 DEF RecordsARound, SoundController
<1>9. \A l \in Lanes : lane_convergence_rounds'[l] =
        IF l \in UnchangedLanes /\ lane_convergence_rounds[l] = 0
          THEN Round + 1 ELSE lane_convergence_rounds[l]
  BY <1>1, <1>8 DEF ConvergenceRounds, Round
<1>10. ASSUME NEW l \in controller'.converged_lane_mask
       PROVE  lane_convergence_rounds'[l] # 0
  <2>1. l \in controller.converged_lane_mask \/ l \in UnchangedLanes
    BY <1>6 DEF UnchangedLanes
  <2>2. controller.converged_lane_mask \subseteq Lanes
    BY <1>3 DEF DeviceControllers
  <2>3. l \in Lanes
    BY <1>3, <2>1, <2>2 DEF UnchangedLanes
  <2>4. l \in controller.converged_lane_mask => lane_convergence_rounds[l] # 0
    BY <1>2 DEF IInv, ControllerInv
  <2>5. Round + 1 # 0
    BY <1>3
  <2>6. QED
    BY <1>9, <2>1, <2>3, <2>4, <2>5
<1>11. Round' = Round + 1
  BY <1>4 DEF EndOfRound, Round
<1>12. \A l \in Lanes : lane_convergence_rounds'[l] <= Round'
  <2>1. \A l \in Lanes : lane_convergence_rounds[l] \in Nat /\ lane_convergence_rounds[l] <= Round
    BY <1>2, <1>3 DEF IInv, ControllerInv, TypeInv
  <2>2. QED
    BY <1>3, <1>9, <1>11, <2>1
<1>13. QED
  BY <1>4, <1>7, <1>9, <1>10, <1>11, <1>12 DEF EndOfRound, ReadOf, WriteOf

LEMMA AdvanceFinished ==
  ASSUME IInv, AdvanceController, controller.done
  PROVE  controller' = controller /\ lane_convergence_rounds' = lane_convergence_rounds
<1>1. lane_convergence_rounds' = [l \in Lanes |-> lane_convergence_rounds[l]]
  BY DEF AdvanceController, ConvergenceRounds, RecordsARound
<1>2. lane_convergence_rounds \in [Lanes -> Nat]
  BY DEF IInv, TypeInv
<1>3. controller' = controller
  BY DEF AdvanceController, AdvanceJacobiController, AdvanceDenseController
<1>4. QED
  BY <1>1, <1>2, <1>3

LEMMA AdvanceControllerKeeps ==
  ASSUME IInv, AdvanceController PROVE IInv'
<1>1. /\ stage = "round" /\ \A w \in Waves : wave[w].pc = "sync"
      /\ wave' = [w \in Waves |-> AtEntry]
      /\ UNCHANGED <<distances, run_lane_masks, status, batch, run_options, outputs>>
      /\ stage' \in {"finalize", "round", "poll"}
      /\ stage' = "finalize" => controller'.done
  BY DEF AdvanceController, scratchVars
<1>2. stage \in RunStages /\ stage' \in RunStages
  BY <1>1 DEF RunStages
<1>3. /\ batch \in BatchIds /\ Round \in Nat /\ Valid \in SUBSET Lanes
      /\ SoundController(controller) /\ controller \in DeviceControllers
      /\ lane_convergence_rounds \in [Lanes -> Nat]
      /\ ReadOf \in Slots /\ WriteOf \in Slots /\ (Pulls => ReadOf # WriteOf)
  BY <1>2, RunFacts DEF IInv, TypeInv
<1>4. /\ Valid' = Valid /\ (Pulls' <=> Pulls)
      /\ \A l, v : Selects(l, v)' <=> Selects(l, v)
      /\ \A l, k : After(l, k)' = After(l, k)
      /\ \A l : Shortest(l)' = Shortest(l)
      /\ batch' = batch
  BY <1>1, ProblemStays
<1>5. /\ SoundController(controller)' /\ controller' \in DeviceControllers
      /\ \A l \in controller'.converged_lane_mask : lane_convergence_rounds'[l] # 0
      /\ \A l \in Lanes : lane_convergence_rounds'[l] <= Round'
  <2>1. CASE ~controller.done
    BY <2>1, AdvanceRunning
  <2>2. CASE controller.done
    <3>1. controller' = controller /\ lane_convergence_rounds' = lane_convergence_rounds
      BY <2>2, AdvanceFinished
    <3>2. SoundController(controller)'
      BY <1>1, <1>3, <1>4, <3>1 DEF SoundController
    <3>3. QED
      BY <1>2, <1>3, <3>1, <3>2 DEF IInv, ControllerInv, Round
  <2>3. QED
    BY <2>1, <2>2
<1>6. TypeInv'
  <2>1. lane_convergence_rounds' \in [Lanes -> Nat]
    <3>1. lane_convergence_rounds' = ConvergenceRounds
      BY DEF AdvanceController
    <3>2. controller.rounds_completed + 1 \in Nat
      BY <1>3 DEF Round
    <3>3. QED
      BY <1>3, <3>1, <3>2 DEF ConvergenceRounds
  <2>2. wave' \in [Waves -> WaveStates]
    BY <1>1, EntryType
  <2>3. stage' \in Stages /\ run_options \in Options /\ batch \in 0 .. Len(Batches)
          /\ distances \in [Slots -> [Vertices -> [Lanes -> Distances]]]
          /\ run_lane_masks \in [Edges -> SUBSET Lanes]
    BY <1>2 DEF IInv, TypeInv, Stages
  <2>4. QED
    BY <1>1, <1>3, <1>5, <2>1, <2>2, <2>3 DEF TypeInv
<1>7. \A w \in Waves : wave'[w] = AtEntry
  BY <1>1
<1>8. \A w \in Waves : wave'[w].pc = "enter" /\ wave'[w].changed = {} /\ wave'[w].edge = 0
  BY <1>7 DEF AtEntry
<1>9. WaveInv'
  BY <1>7, <1>8 DEF WaveInv
<1>10. ControllerInv'
  BY <1>1, <1>5 DEF ControllerInv
<1>11. MaskInv'
  BY <1>1, <1>2, <1>4 DEF IInv, MaskInv
<1>12. /\ \A v \in UnionVertices(batch) : ~Passed(v)'
       /\ \A l \in Lanes : \A e \in LaneAdmitted(batch, l) : ~Tried(e)'
  <2>1. \A v : Owner(v)' = Owner(v) /\ Rank(v)' = Rank(v)
    BY <1>1, ProblemStays
  <2>2. \A v \in UnionVertices(batch) : ~Passed(v)'
    BY <1>8, <2>1, WaveFacts DEF Passed
  <2>3. ASSUME NEW l \in Lanes, NEW e \in LaneAdmitted(batch, l) PROVE ~Tried(e)'
    <3>1. Source[e] \in UnionVertices(batch) /\ Owner(Source[e]) \in Waves
      BY <1>3, RowFacts
    <3>2. ~Passed(Source[e])' /\ wave'[Owner(Source[e])].pc = "enter"
      BY <1>8, <2>2, <3>1
    <3>3. QED
      BY <2>1, <3>2 DEF Tried
  <2>4. QED
    BY <2>2, <2>3
<1>13. SettledInv'
  <2>1. ASSUME NEW l \in Valid, lane_convergence_rounds'[l] # 0,
               NEW slot \in IF Pulls THEN Slots ELSE {0},
               NEW v \in Vertices, Selects(l, v)
        PROVE  distances[slot][v][l] = Shortest(l)[v]
    <3>1. CASE lane_convergence_rounds[l] # 0
      BY <1>2, <2>1, <3>1 DEF IInv, SettledInv
    <3>2. CASE lane_convergence_rounds[l] = 0
      <4>1. ~controller.done
        BY <2>1, <3>2, AdvanceFinished
      <4>2. l \in UnchangedLanes
        BY <1>3, <2>1, <3>2, <4>1, AdvanceRunning
      <4>3. CASE Pulls
        <5>1. /\ distances[WriteOf][v][l] = After(l, Round + 1)[v]
              /\ After(l, Round) = Shortest(l) /\ After(l, Round + 1) = Shortest(l)
          BY <1>1, <2>1, <4>1, <4>2, <4>3, PullRoundEnds
        <5>2. distances[ReadOf][v][l] = After(l, Round)[v]
          BY <1>2, <2>1, <4>3 DEF IInv, PullInv, Read, ReadOf
        <5>3. slot = ReadOf \/ slot = WriteOf
          BY <1>3, <2>1, <4>3 DEF Slots
        <5>4. QED
          BY <5>1, <5>2, <5>3
      <4>4. CASE ~Pulls
        BY <1>1, <2>1, <4>1, <4>2, <4>4, DenseRoundEnds
      <4>5. QED
        BY <4>3, <4>4
    <3>3. QED
      BY <3>1, <3>2
  <2>2. QED
    BY <1>1, <1>4, <2>1 DEF SettledInv
<1>14. PullInv'
  <2>1. ASSUME Pulls, NEW l \in Valid, NEW v \in Vertices, Selects(l, v)
        PROVE  Read'[v][l] = After(l, Round')[v] /\ ~Passed(v)'
    <3>1. ~Passed(v)'
      BY <1>3, <1>12, <2>1, SelectsFacts
    <3>2. CASE ~controller.done
      <4>1. ReadOf' = WriteOf /\ Round' = Round + 1
        BY <2>1, <3>2, AdvanceRunning
      <4>2. Read'[v][l] = distances[WriteOf][v][l]
        BY <1>1, <4>1 DEF Read, ReadOf
      <4>3. QED
        BY <1>1, <2>1, <3>1, <3>2, <4>1, <4>2, PullRoundEnds
    <3>3. CASE controller.done
      <4>1. controller' = controller
        BY <3>3, AdvanceFinished
      <4>2. Read' = Read /\ Round' = Round
        BY <1>1, <4>1 DEF Read, Round
      <4>3. QED
        BY <1>2, <2>1, <3>1, <4>2 DEF IInv, PullInv
    <3>4. QED
      BY <3>2, <3>3
  <2>2. QED
    BY <1>4, <2>1 DEF PullInv
<1>15. DenseInv'
  <2>1. ASSUME ~Pulls, NEW l \in Valid, NEW v \in Vertices, Selects(l, v)
        PROVE  /\ Shortest(l)[v] <= distances[0][v][l]
               /\ distances[0][v][l] <= After(l, Round')[v]
    <3>1. Shortest(l)[v] <= distances[0][v][l] /\ distances[0][v][l] <= After(l, Round)[v]
      BY <1>2, <2>1 DEF IInv, DenseInv
    <3>2. CASE ~controller.done
      <4>1. Round' = Round + 1
        BY <3>2, AdvanceRunning
      <4>2. QED
        BY <1>1, <2>1, <3>1, <3>2, <4>1, DenseRoundEnds
    <3>3. CASE controller.done
      <4>1. Round' = Round
        BY <3>3, AdvanceFinished DEF Round
      <4>2. QED
        BY <3>1, <4>1
    <3>4. QED
      BY <3>2, <3>3
  <2>2. \A x \in Waves : wave'[x].pc # "minimum"
    BY <1>8
  <2>3. \A l \in Valid : \A e \in LaneAdmitted(batch, l) : ~Tried(e)'
    BY <1>3, <1>12
  <2>4. QED
    BY <1>1, <1>4, <2>1, <2>2, <2>3 DEF DenseInv
<1>16. OutputInv'
  BY <1>1 DEF IInv, OutputInv, ReturnedIsTrue
<1>17. QED
  BY <1>6, <1>9, <1>10, <1>11, <1>13, <1>14, <1>15, <1>16 DEF IInv

LEMMA StutterKeeps ==
  ASSUME IInv, UNCHANGED vars PROVE IInv'
<1>1. /\ UNCHANGED <<distances, run_lane_masks, lane_convergence_rounds, controller,
                     status, stage, wave, batch, run_options, outputs>>
  BY DEF vars, scratchVars, deviceVars, hostVars
<1>2. /\ Valid' = Valid /\ (Pulls' <=> Pulls)
      /\ \A v : Rank(v)' = Rank(v)
      /\ \A v : Owner(v)' = Owner(v)
      /\ \A l, v : Selects(l, v)' <=> Selects(l, v)
      /\ \A l, k : After(l, k)' = After(l, k)
      /\ \A l : Shortest(l)' = Shortest(l)
  BY <1>1, ProblemStays
<1>3. /\ Round' = Round /\ ReadOf' = ReadOf /\ WriteOf' = WriteOf /\ Read' = Read
      /\ \A v : Passed(v)' <=> Passed(v)
      /\ \A l : Quiet(l)' <=> Quiet(l)
      /\ \A e : ActiveRunLanes(e)' = ActiveRunLanes(e)
  BY <1>1, <1>2 DEF Round, ReadOf, WriteOf, Read, Passed, Quiet, ActiveRunLanes
<1>4. \A e : Tried(e)' <=> Tried(e)
  BY <1>1, <1>2, <1>3 DEF Tried
<1>5. TypeInv'
  BY <1>1 DEF IInv, TypeInv
<1>6. WaveInv'
  BY <1>1, <1>2 DEF IInv, WaveInv
<1>7. ControllerInv'
  BY <1>1, <1>2, <1>3 DEF IInv, ControllerInv, SoundController
<1>8. MaskInv' /\ SettledInv'
  BY <1>1, <1>2 DEF IInv, MaskInv, SettledInv
<1>9. PullInv'
  BY <1>1, <1>2, <1>3 DEF IInv, PullInv
<1>10. DenseInv'
  BY <1>1, <1>2, <1>3, <1>4 DEF IInv, DenseInv
<1>11. OutputInv'
  <2>1. CompletedStatus' = CompletedStatus
    BY <1>1 DEF CompletedStatus, Valid, Read
  <2>2. QED
    BY <1>1, <2>1 DEF IInv, OutputInv, ReturnedIsTrue
<1>12. QED
  BY <1>5, <1>6, <1>7, <1>8, <1>9, <1>10, <1>11 DEF IInv

-----------------------------------------------------------------------------
(***************************************************************************)
(* Theorems                                                                *)
(***************************************************************************)
LEMMA NextKeeps ==
  ASSUME IInv, [Next]_vars PROVE IInv'
<1>1. ASSUME NEW w \in Waves, WaveStep(w) PROVE IInv'
  <2>1. CASE EnterRound(w)
    BY <2>1, EnterRoundKeeps
  <2>2. CASE PullVertex(w)
    BY <2>2, PullVertexKeeps
  <2>3. CASE LoadSources(w)
    BY <2>3, LoadSourcesKeeps
  <2>4. CASE LowerDestinations(w)
    BY <2>4, LowerDestinationsKeeps
  <2>5. CASE FinishRow(w)
    BY <2>5, FinishRowKeeps
  <2>6. CASE FinishShare(w)
    BY <2>6, FinishShareKeeps
  <2>7. CASE PublishChanged(w)
    BY <2>7, PublishKeeps
  <2>8. QED
    BY <1>1, <2>1, <2>2, <2>3, <2>4, <2>5, <2>6, <2>7 DEF WaveStep
<1>2. CASE StartBatch
  BY <1>2, StartBatchKeeps
<1>3. CASE InitializeState
  BY <1>3, InitializeStateKeeps
<1>4. CASE AdvanceController
  BY <1>4, AdvanceControllerKeeps
<1>5. CASE HostPoll
  BY <1>5, HostPollKeeps
<1>6. CASE Finalize
  BY <1>6, FinalizeKeeps
<1>7. CASE Readback
  BY <1>7, ReadbackKeeps
<1>8. CASE UNCHANGED vars
  BY <1>8, StutterKeeps
<1>9. QED
  BY <1>1, <1>2, <1>3, <1>4, <1>5, <1>6, <1>7, <1>8 DEF Next, GridStep, Terminated

\* The inductive invariant: the lanes' distances as functions of the round, the
\* masks and the controller they depend on, and what the host holds.
THEOREM SweepInvariant == Spec => []IInv
<1>1. Init => IInv
  BY InitIInv
<1>2. IInv /\ [Next]_vars => IInv'
  BY NextKeeps
<1>3. QED
  BY <1>1, <1>2, PTL DEF Spec

\* Every variable of the engine keeps its type, and the controller record the
\* ranges of its fields, through every batch of every run.
THEOREM SweepTypeCorrect == Spec => []TypeInv
<1>1. IInv => TypeInv
  BY DEF IInv
<1>2. QED
  BY <1>1, SweepInvariant, PTL

\* While a batch runs, every valid lane is either active or converged with its
\* round on record, the execute mask is the active one until the engine stops,
\* and the engine stops only for convergence of every lane or the round limit:
\* a lane never gets lost between the masks of the controller.
THEOREM SweepControllerIsSound ==
  Spec => [](stage \in RunStages => SoundController(controller))
<1>1. IInv => (stage \in RunStages => SoundController(controller))
  BY DEF IInv, ControllerInv
<1>2. QED
  BY <1>1, SweepInvariant, PTL

\* Once the convergence round of a lane is published its distances are the
\* shortest ones, in both Jacobi slots, for the rest of the batch, while the
\* other lanes go on (batched_jacobi, batched_dense_chaotic_push).
THEOREM ConvergedLanesAreShortest == Spec => []ConvergedLaneIsShortest
<1>1. IInv => ConvergedLaneIsShortest
  BY SettledImage DEF ConvergedLaneIsShortest
<1>2. QED
  BY <1>1, SweepInvariant, PTL

LEMMA ImageAtBoundary ==
  ASSUME IInv, AtRoundBoundary, NEW l \in Valid
  PROVE  LET image == LaneDistances(batch, l, Read)
         IN IF Pulls THEN image = After(l, Round)
            ELSE \A v \in Vertices : /\ image[v] <= After(l, Round)[v]
                                     /\ image[v] >= Shortest(l)[v]
<1> DEFINE image == LaneDistances(batch, l, Read)
<1>1. stage \in RunStages
  BY DEF AtRoundBoundary, RunStages
<1>2. /\ batch \in BatchIds /\ Round \in Nat
      /\ After(l, Round) \in Assignments /\ Shortest(l) \in Assignments
      /\ ~Pulls => ReadOf = 0
  BY <1>1, RunFacts
<1>3. \A v \in Vertices : ~Selects(l, v) =>
        After(l, Round)[v] = Infinity /\ Shortest(l)[v] = Infinity
  BY <1>2, RoundsKeep, UnselectedIsUnreached DEF Selects, Shortest, After, Valid
<1>4. \A v \in Vertices : image[v] = IF Selects(l, v) THEN Read[v][l] ELSE Infinity
  BY DEF LaneDistances, Selects
<1>5. CASE Pulls
  <2>1. \A v \in Vertices : image[v] = After(l, Round)[v]
    BY <1>1, <1>3, <1>4, <1>5 DEF IInv, PullInv
  <2>2. image = [v \in Vertices |-> image[v]]
    BY DEF LaneDistances
  <2>3. QED
    BY <1>2, <1>5, <2>1, <2>2 DEF Assignments
<1>6. CASE ~Pulls
  <2>1. ASSUME NEW v \in Vertices
        PROVE  image[v] <= After(l, Round)[v] /\ image[v] >= Shortest(l)[v]
    <3>1. CASE Selects(l, v)
      <4>1. image[v] = distances[0][v][l]
        BY <1>2, <1>4, <1>6, <3>1 DEF Read, ReadOf
      <4>2. Shortest(l)[v] <= distances[0][v][l] /\ distances[0][v][l] <= After(l, Round)[v]
        BY <1>1, <1>6, <3>1 DEF IInv, DenseInv
      <4>3. distances[0][v][l] \in Distances /\ Shortest(l)[v] \in Distances
        BY <1>1, <1>2, BatchFacts, RunFacts DEF Assignments, Slots, Valid
      <4>4. QED
        BY <4>1, <4>2, <4>3 DEF Distances
    <3>2. CASE ~Selects(l, v)
      <4>1. /\ image[v] = Infinity /\ After(l, Round)[v] = Infinity
            /\ Shortest(l)[v] = Infinity
        BY <1>3, <1>4, <3>2
      <4>2. QED
        BY <4>1, GraphAssumption
    <3>3. QED
      BY <3>1, <3>2
  <2>2. QED
    BY <1>6, <2>1
<1>7. QED
  BY <1>5, <1>6

LEMMA BellmanFordSettles ==
  ASSUME NEW b \in BatchIds, NEW l \in Batches[b].valid_lane_mask, NEW k \in Nat
  PROVE  LaneBellmanFord[b][l][Min({k, VertexCount})] = LaneRounds(b, l)[k]
<1>1. VertexCount \in Nat /\ l \in Lanes /\ LaneIsQuery(b, l)
  BY GraphAssumption, LanesAreQueries, LanesInBatch
<1>2. \A m \in 0 .. VertexCount : LaneBellmanFord[b][l][m] = LaneRounds(b, l)[m]
  BY <1>1 DEF LaneBellmanFord
<1>3. CASE k <= VertexCount
  <2>1. Min({k, VertexCount}) = k
    BY <1>1, <1>3 DEF Min
  <2>2. QED
    BY <1>1, <1>2, <1>3, <2>1
<1>4. CASE k > VertexCount
  <2>1. Min({k, VertexCount}) = VertexCount
    BY <1>1, <1>4 DEF Min
  <2>2. k >= VertexCount - 1 /\ VertexCount >= VertexCount - 1
    BY <1>1, <1>4
  <2>3. /\ LaneRounds(b, l)[k] = LaneReference[b][l]
        /\ LaneRounds(b, l)[VertexCount] = LaneReference[b][l]
    BY <1>1, <2>2 DEF LaneIsQuery
  <2>4. VertexCount \in 0 .. VertexCount
    BY <1>1
  <2>5. QED
    BY <1>2, <2>1, <2>3, <2>4
<1>5. QED
  BY <1>1, <1>3, <1>4

\* Between rounds every lane of a batch is where its query would be on its own:
\* exactly after as many Bellman-Ford rounds under Jacobi, between that and the
\* shortest distances under dense, whatever lanes and batches it shares the
\* workspace with.
THEOREM LanesRunAsOnTheirOwn == Spec => []LanesFollowBellmanFord
<1>1. ASSUME IInv PROVE LanesFollowBellmanFord
  <2>1. ASSUME AtRoundBoundary, NEW l \in Valid
        PROVE  LET image == LaneDistances(batch, l, Read)
                   after == LaneBellmanFord[batch][l][
                              Min({controller.rounds_completed, VertexCount})]
               IN IF Pulls THEN image = after
                  ELSE \A v \in Vertices :
                         /\ image[v] <= after[v]
                         /\ image[v] >= LaneReference[batch][l][v]
    <3>1. stage \in RunStages
      BY <2>1 DEF AtRoundBoundary, RunStages
    <3>2. batch \in BatchIds /\ Round \in Nat
      BY <1>1, <3>1, RunFacts
    <3>3. LaneBellmanFord[batch][l][Min({Round, VertexCount})] = After(l, Round)
      BY <2>1, <3>2, BellmanFordSettles DEF After, Valid
    <3>4. QED
      BY <1>1, <2>1, <3>3, ImageAtBoundary DEF Round, Shortest
  <2>2. QED
    BY <2>1 DEF LanesFollowBellmanFord
<1>2. IInv => LanesFollowBellmanFord
  BY <1>1
<1>3. QED
  BY <1>2, SweepInvariant, PTL

\* What the host returns for a batch is true: for a batch that converged every
\* lane's distances are the shortest ones and the lanes are classified by
\* whether their targets are reachable; otherwise no lane is classified.
THEOREM ReturnedResultsAreTrue ==
  Spec => [](\A b \in BatchIds : outputs[b].returned => ReturnedIsTrue(b))
<1>1. IInv => \A b \in BatchIds : outputs[b].returned => ReturnedIsTrue(b)
  BY DEF IInv, OutputInv
<1>2. QED
  BY <1>1, SweepInvariant, PTL

LEMMA SoundControllerIsValid ==
  ASSUME NEW c \in DeviceControllers, SoundController(c), c.done, Valid # {}
  PROVE  ValidDeviceController(c)
<1>1. ValidLaneMasks(c)
  BY DEF SoundController, ValidLaneMasks, DeviceControllers
<1>2. ValidSlots(c)
  BY DEF SoundController, ValidSlots, Pulls
<1>3. ValidTerminalState(c)
  BY DEF SoundController, ValidTerminalState, ExpectedErrorBits, ErrorReasons
<1>4. QED
  BY <1>1, <1>2, <1>3 DEF ValidDeviceController, SoundController

\* The controller, the status and the convergence rounds the host downloads
\* pass every check it makes of them, in both read-backs: whether run_impl
\* throws is down to the counts of the work done.
THEOREM DownloadedRecordsAgree ==
  Spec => [](stage = "readback" => RecordsAgree /\ CompactStatusIsConsistent)
<1>1. ASSUME IInv, stage = "readback"
      PROVE  RecordsAgree /\ CompactStatusIsConsistent
  <2> DEFINE reached == {l \in Valid : LaneReached(batch, l, Read)}
  <2>1. /\ SoundController(controller) /\ controller.done
        /\ controller \in DeviceControllers
        /\ \A l \in Lanes : lane_convergence_rounds[l] <= controller.rounds_completed
    BY <1>1 DEF IInv, ControllerInv, TypeInv, RunStages, Round
  <2>2. batch \in BatchIds /\ Valid \in SUBSET Lanes /\ Valid # {}
    <3>1. batch \in BatchIds /\ Valid \in SUBSET Lanes
      BY <1>1, RunFacts DEF RunStages
    <3>2. Batches[batch].valid_lane_mask # {}
      BY <3>1, BatchAssumption
    <3>3. QED
      BY <3>1, <3>2 DEF Valid
  <2>3. ValidDeviceController(controller)
    BY <2>1, <2>2, SoundControllerIsValid
  <2>4. status = MakeRunStatus(controller, controller.distance_read_slot,
                               reached, Valid \ reached)
    BY <1>1 DEF IInv, OutputInv, CompletedStatus
  <2>5. reached \in SUBSET Valid
    OBVIOUS
  <2>6. /\ controller.valid_lane_mask = Valid /\ controller.error_bits = {}
        /\ controller.active_lane_mask \union controller.converged_lane_mask = Valid
        /\ controller.active_lane_mask \intersect controller.converged_lane_mask = {}
        /\ \/ controller.stop_reason = "converged" /\ controller.active_lane_mask = {}
           \/ controller.stop_reason = "maximum_rounds"
    BY <2>1 DEF SoundController
  <2> HIDE DEF reached
  <2>7. /\ status.final_distance_slot = controller.distance_read_slot
        /\ status.rounds_completed = controller.rounds_completed
        /\ status.valid_lane_mask = Valid
        /\ status.active_lane_mask = controller.active_lane_mask
        /\ status.converged_lane_mask = controller.converged_lane_mask
        /\ status.stop_reason = controller.stop_reason
        /\ status.error_bits = {}
        /\ status.converged <=> controller.stop_reason = "converged"
    BY <2>4, <2>6 DEF MakeRunStatus
  <2>8. /\ status.reached_target_mask =
             IF controller.stop_reason = "converged" THEN reached ELSE {}
        /\ status.bounding_box_miss_mask =
             IF controller.stop_reason = "converged" THEN Valid \ reached ELSE {}
    BY <2>4, <2>5, <2>6 DEF MakeRunStatus
  <2>9. ValidDeviceRunStatus(status)
    BY <2>2, <2>5, <2>6, <2>7, <2>8
       DEF ValidDeviceRunStatus, ExpectedErrorBits, ErrorReasons
  <2>10. RecordsAgree
    BY <2>1, <2>2, <2>3, <2>7, <2>9 DEF RecordsAgree
  <2>11. CompactStatusIsConsistent
    BY <2>5, <2>7, <2>8, <2>9 DEF CompactStatusIsConsistent
  <2>12. QED
    BY <2>10, <2>11
<1>2. IInv => (stage = "readback" => RecordsAgree /\ CompactStatusIsConsistent)
  BY <1>1
<1>3. QED
  BY <1>2, SweepInvariant, PTL
=============================================================================
